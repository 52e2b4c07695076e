----------------------------- MODULE Redelivery -----------------------------
(***************************************************************************)
(* pipeline/redeliver.py without its I/O: the four scenarios, and how what  *)
(* was read back is judged.                                                 *)
(*                                                                          *)
(* A tag is the scenario's own prefix and an index, <<scenario, index>>;    *)
(* the Message-ID is derived from the tag and is written as the tag.        *)
(***************************************************************************)
EXTENDS Expectations, Integers, FiniteSets

SCENARIOS == <<"duplicate", "slow-retry", "reply-first", "references">>

NoParent == <<>>

(* One POST: its tag, the tag it answers, the seconds waited before it. *)
Delivery(tag, parent, delay) == [tag |-> tag, parent |-> parent, delay |-> delay]

Scenario(name, deliveries) == [name |-> name, deliveries |-> deliveries]

(* Without a gap the two copies of a message go back to back; with one,    *)
(* every original goes first, and one wait precedes all the retries.       *)
_repeat_twice(name, count, gap) ==
    LET originals == [i \in 1..count |-> Delivery(<<name, i>>, NoParent, 0)]
    IN  IF gap <= 0
        THEN [k \in 1..2 * count |-> originals[(k + 1) \div 2]]
        ELSE originals \o [originals EXCEPT ![1].delay = gap]

build_duplicate(count) == Scenario("duplicate", _repeat_twice("duplicate", count, 0))

build_slow_retry(count, retry_after) ==
    Scenario("slow-retry", _repeat_twice("slow-retry", count, retry_after))

(* Both replies before the message they answer. *)
build_reply_first ==
    LET tag(i) == <<"reply-first", i>>
    IN  Scenario("reply-first",
            << Delivery(tag(2), tag(1), 0),
               Delivery(tag(3), tag(1), 0),
               Delivery(tag(1), NoParent, 0) >>)

(* A thread in order, each message answering the one before it. *)
build_references ==
    LET tag(i) == <<"references", i>>
    IN  Scenario("references",
            << Delivery(tag(1), NoParent, 0),
               Delivery(tag(2), tag(1), 0),
               Delivery(tag(3), tag(2), 0) >>)

(* What build_scenarios raises ScenarioError for. *)
CanBuild(count, retry_after, selected) ==
    /\ Range(selected) \subseteq Range(SCENARIOS)
    /\ count > 0
    /\ "slow-retry" \in Range(selected) => retry_after >= 0

build_scenarios(count, retry_after, selected) ==
    [k \in DOMAIN selected |->
        CASE selected[k] = "duplicate"   -> build_duplicate(count)
          [] selected[k] = "slow-retry"  -> build_slow_retry(count, retry_after)
          [] selected[k] = "reply-first" -> build_reply_first
          [] selected[k] = "references"  -> build_references]

-----------------------------------------------------------------------------
ScenarioTags(scenario) == {d.tag : d \in Range(scenario.deliveries)}

(* The first delivery carrying a tag. *)
delivery_for(scenario, tag) ==
    SelectSeq(scenario.deliveries, LAMBDA d : d.tag = tag)[1]

parent_of(scenario, tag) == delivery_for(scenario, tag).parent

is_reply(scenario, tag) == parent_of(scenario, tag) # NoParent

(* Mutant: only the message answered counts as an ancestor. *)
ParentOnly(scenario, tag) == {parent_of(scenario, tag)} \ {NoParent}

(* The ids of every ancestor, each visited once. *)
ancestry_of(scenario, tag) ==
    LET up[n \in 0..Len(scenario.deliveries)] ==
            IF n = 0 THEN {tag}
            ELSE up[n - 1] \cup {parent_of(scenario, t) : t \in up[n - 1] \ {NoParent}}
    IN  up[Len(scenario.deliveries)] \ {tag, NoParent}

-----------------------------------------------------------------------------
(* judge_scenario.  A finding is a kind and the tag it is about; a missing *)
(* message is kept apart from the others, so that a readback that did not  *)
(* settle can be told from a loss.                                         *)

FirstRecord(readbacks, tag) ==
    IF readbacks[tag] = <<>> THEN NoRecord ELSE readbacks[tag][1]

ContentFindings(scenario, readbacks, modes, expected) ==
    LET found == {t \in ScenarioTags(scenario) : readbacks[t] # <<>>}
        bad(t) == Failures(evaluate_sequence(readbacks[t], modes, expected))
    IN  {<<"duplicate", t>> : t \in {u \in found : Len(readbacks[u]) > 1}}
        \cup UNION {{<<check, t>> : check \in bad(t)} : t \in found}

ThreadFindings(scenario, readbacks) ==
    LET replies == {t \in ScenarioTags(scenario) : is_reply(scenario, t)}
        first(t) == FirstRecord(readbacks, t)
        link(t) == check_thread_link(first(t), parent_of(scenario, t), ancestry_of(scenario, t))
        together(t) == check_thread_together(first(t), first(parent_of(scenario, t)))
    IN  {<<"link", t>> : t \in {u \in replies : link(u) = "failed"}}
        \cup {<<"together", t>> : t \in {u \in replies : together(u) = "failed"}}

judge_scenario(scenario, readbacks, modes, expected, readback_failed) ==
    LET absent == {t \in ScenarioTags(scenario) : readbacks[t] = <<>>}
        missing == IF readback_failed THEN {} ELSE absent
    IN  [name        |-> scenario.name,
         missing     |-> missing,
         not_checked |-> IF readback_failed THEN absent ELSE {},
         findings    |-> {<<"missing", t>> : t \in missing}
                         \cup ContentFindings(scenario, readbacks, modes, expected)
                         \cup ThreadFindings(scenario, readbacks)]

(* ledger.classify_strays as redeliver uses it: a listed record is the     *)
(* run's own when its tag was sent or its ticket is one the lookups found; *)
(* of the rest, those under the run's prefixes are extra.  A stray's owner *)
(* is the scenario whose prefix its tag has, "run" for the run's own       *)
(* prefix, "other run", or "untagged".                                     *)
extra(listed, readbacks) ==
    LET own == UNION {{r.ticket : r \in Range(readbacks[t])} : t \in DOMAIN readbacks}
    IN  {s \in listed : s.ticket \notin own /\ s.owner \in Range(SCENARIOS) \cup {"run"}}

(* judge_run: a stray under the prefix of a scenario that ran is a finding *)
(* on it, and any other extra record one on the run.                       *)
judge_run(scenarios, readbacks, listed, modes, expected, readback_failed) ==
    LET names == {s.name : s \in Range(scenarios)}
        found == extra(listed, readbacks)
        judged(s) == judge_scenario(s, readbacks, modes, expected, readback_failed)
        strays(s) == {<<"stray", x.ticket>> : x \in {y \in found : y.owner = s.name}}
    IN  [results |-> [k \in DOMAIN scenarios |->
                        [judged(scenarios[k]) EXCEPT !.findings = @ \cup strays(scenarios[k])]],
         unattributed |-> {x \in found : x.owner \notin names}]

verdict_of(run, unsettled) ==
    LET results == Range(run.results)
        real == run.unattributed # {}
                \/ \E r \in results : Cardinality(r.findings) > Cardinality(r.missing)
    IN  IF real THEN "DELIVERY-BUGS"
        ELSE IF unsettled THEN "UNSETTLED"
        ELSE IF \E r \in results : r.findings # {} THEN "DELIVERY-BUGS"
        ELSE IF \E r \in results : r.not_checked # {} THEN "READBACK FAILED"
        ELSE "DELIVERY-SAFE"
=============================================================================
