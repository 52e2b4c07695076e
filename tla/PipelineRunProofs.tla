-------------------------- MODULE PipelineRunProofs --------------------------
(***************************************************************************)
(* Proofs about PipelineRun: for any command line that argparse lets        *)
(* through and whatever the pipeline under test files, a command of verify, *)
(* redeliver or steady is honest about what it sent, and verify is right    *)
(* about what it read, the first time and when the run is checked again.    *)
(***************************************************************************)
EXTENDS PipelineRun, NaturalsInduction, FiniteSetTheorems, SequenceTheorems, TLAPS

Tools == {"verify", "redeliver", "steady"}

(* The tags a tool makes up. *)
TagsOf(tool) ==
    CASE tool = "verify" -> {"verify"} \X Int
      [] tool = "redeliver" -> Range(SCENARIOS) \X Int
      [] tool = "steady" -> {"variant", "repeat"} \X Int \X Int

(* The type invariant, by the kind of value. *)
CommandOK ==
    /\ DOMAIN command = CommandFields
    /\ command.tool \in Tools /\ command.sub \in {"fire", "check"}
Steps == phase \in {"start", "send", "readback", "stray search", "judge", "reread", "over"}
PlanOK ==
    /\ plan \in Seq(TagsOf(command.tool))
    /\ \E c \in Commands : c.tool = command.tool /\ plan = PlanOf(c)
Counters == posted \in 0..Len(plan) /\ sent \in 0..posted
StoreOK ==
    /\ store \in [Range(plan) -> Seq(Kinds[command.tool])]
    /\ \A t \in Range(plan) : Len(store[t]) <= 2
Filed(tag) == {RecordOf(kind, tag) : kind \in Kinds[command.tool]}
SeenOK ==
    /\ DOMAIN seen \subseteq Range(plan)
    /\ \A t \in DOMAIN seen : seen[t] \in Seq(Filed(t))
Listing == listed \subseteq strays

(* The match modes in force are known by the time something is sent. *)
Sending == {"send", "readback", "stray search"}
ModesOK ==
    /\ modes \in ModesGiven
    /\ phase \in Sending \cup {"judge", "reread"} \/ exit \in {EXIT_OK, EXIT_MISMATCH} =>
            ModesKnown(modes)

(* Whoever gets as far as sending was allowed to. *)
Consent ==
    posted > 0 \/ phase = "send" =>
        /\ command.send
        /\ command.target \in Configured
        /\ command.target.host.name \notin {"reserved", "bare", "private literal"}
           /\ ("public" \in command.target.host.addresses \/ command.target.host.addresses = {})
           => command.allow_public_target
(* What each phase of a command may rely on. *)
Begun ==
    phase = "start" =>
        /\ posted = 0 /\ adapter = "none" /\ saved = NoArtifact
        /\ modes = command.modes /\ (command.tool = "steady" => ModesKnown(modes))
UnderWay ==
    phase \in Sending => adapter = "open" /\ saved = NoArtifact
Fired ==
    /\ phase \in {"start"} \cup Sending => command.sub = "fire"
    /\ phase \in {"readback", "stray search"} => posted = Len(plan) /\ sent = posted
Unjudged ==
    /\ phase # "over" => exit = NoExit /\ verdict = "none"
    /\ phase \in {"stray search", "judge"} => outcome \in {"settled", "unsettled", "failed"}
    /\ phase = "judge" => adapter = "closed"
    /\ phase = "judge" /\ command.sub = "fire" => saved = NoArtifact
Outcomes ==
    outcome \in {"none", "settled", "unsettled", "failed"}
WaysOut ==
    phase = "over" =>
        /\ exit \in {EXIT_OK, EXIT_REFUSED, EXIT_DRY_RUN, EXIT_MISMATCH}
        /\ adapter # "open"
        /\ exit = EXIT_REFUSED /\ command.sub = "fire" => posted \in {0, Len(plan)}
        /\ exit = EXIT_DRY_RUN => posted = 0 /\ adapter = "none" /\ saved = NoArtifact
AdapterOK == adapter \in {"none", "open", "closed"}

(* The artifact, once there is one, is about this run. *)
SavedOK ==
    saved # NoArtifact =>
        /\ phase \in {"over", "reread", "judge"}
        /\ saved.tool = command.tool
        /\ saved.tags \subseteq SentTags
        /\ saved.tool = "steady" => saved.tags = {}
        /\ saved.modes \in ModesGiven /\ ModesKnown(saved.modes)
        /\ saved.verdict = "ABORTED" =>
            /\ saved.sent \in Int /\ saved.sent <= posted
            /\ saved.tool = "verify" => saved.sent \in {Unknown, posted}
            /\ saved.outcome = "none"

(* A check that gets as far as reading is one of a verify run, with its    *)
(* modes unless others were given.                                         *)
Checking ==
    /\ phase = "reread" => command.sub = "check" /\ adapter = "open"
    /\ command.sub = "check" /\ (phase \in {"reread", "judge"} \/ exit \in {EXIT_OK, EXIT_MISMATCH}) =>
        /\ saved # NoArtifact /\ command.tool = "verify"
        /\ command.modes = <<>> => modes = saved.modes

(* verify's verdict as a function of what was read. *)
FailedTags(records, m) ==
    {t \in DOMAIN records : ~Passed(evaluate_sequence(records[t], m, Expected))}
VerdictOf(result, records, m) ==
    IF result = "failed" THEN "READBACK FAILED"
    ELSE IF result = "unsettled" THEN "UNSETTLED"
    ELSE IF Cardinality(DOMAIN records \ FailedTags(records, m))
            + Cardinality(FailedTags(records, m)) = 0 THEN "NOTHING CHECKED"
    ELSE IF Cardinality(FailedTags(records, m)) = 0 THEN "VERIFIED" ELSE "MISMATCHED"

(* What a verify run said, and what its artifact says, is that verdict. *)
Graded ==
    Judged /\ command.tool = "verify" =>
        /\ verdict = VerdictOf(outcome, seen, modes)
        /\ exit = exit_code_for(verdict)
        /\ outcome \in {"settled", "unsettled", "failed"}
SavedGrade ==
    saved # NoArtifact /\ command.tool = "verify" /\ saved.verdict # "ABORTED" =>
        /\ saved.verdict = VerdictOf(saved.outcome, saved.readback, saved.modes)
        /\ saved.exit = exit_code_for(saved.verdict)

RunInv ==
    /\ CommandOK /\ Steps /\ PlanOK /\ Counters /\ StoreOK /\ SeenOK /\ Listing
    /\ ModesOK /\ Consent /\ AdapterOK /\ Outcomes
    /\ Begun /\ UnderWay /\ Fired /\ Unjudged /\ WaysOut
    /\ SavedOK /\ Checking /\ Graded /\ SavedGrade
-----------------------------------------------------------------------------
(* A set of natural numbers that is not empty has a least element. *)
LEMMA LeastNumber ==
    ASSUME NEW S, S \subseteq Nat, S # {}
    PROVE  \E i \in S : \A j \in S : i <= j
  <1>1. PICK i \in S : \A j \in S : ~(<<j, i>> \in OpToRel(<, Nat))
    BY NatLessThanWellFounded, WFMin, Zenon
  <1>2. \A j \in S : ~(j < i)
    BY <1>1 DEF OpToRel
  <1> QED BY <1>2

(* f holds the first n lists of s, one behind the other. *)
Joined(f, s, n, S) ==
    /\ f \in [1..n -> Seq(S)]
    /\ \A i \in 1..n : f[i] = IF i = 1 THEN s[i] ELSE f[i - 1] \o s[i]

(* Lists can be joined as far as they go. *)
LEMMA JoinedExists ==
    ASSUME NEW S, NEW s \in Seq(Seq(S))
    PROVE  \A n \in Nat : n <= Len(s) => \E f : Joined(f, s, n, S)
  <1> DEFINE B == {n \in Nat : n <= Len(s) /\ ~\E f : Joined(f, s, n, S)}
  <1> SUFFICES ASSUME B # {} PROVE FALSE
    OBVIOUS
  <1>1. PICK m \in B : \A j \in B : m <= j
    BY LeastNumber
  <1>2. CASE m = 0
    <2>1. Joined(<<>>, s, 0, S)
      BY DEF Joined
    <2> QED BY <1>1, <1>2, <2>1
  <1>3. CASE m # 0
    <2>0. m \in Nat /\ m - 1 \in Nat /\ m <= Len(s)
      BY <1>1, <1>3
    <2>1. m - 1 \in Nat /\ m \in Nat /\ m <= Len(s) /\ m - 1 \notin B
      <3> HIDE DEF B
      <3>1. m - 1 \in B => m <= m - 1
        BY <1>1
      <3> QED BY <2>0, <3>1
    <2>2. PICK g : Joined(g, s, m - 1, S)
      BY <2>1
    <2> DEFINE last == IF m = 1 THEN s[m] ELSE g[m - 1] \o s[m]
               h == [i \in 1..m |-> IF i = m THEN last ELSE g[i]]
    <2>3. s[m] \in Seq(S)
      BY <1>3, <2>1
    <2>4. m # 1 => g[m - 1] \in Seq(S)
      BY <1>3, <2>1, <2>2 DEF Joined
    <2>5. last \in Seq(S)
      BY <2>3, <2>4
    <2> HIDE DEF last
    <2>6. h \in [1..m -> Seq(S)]
      BY <2>1, <2>2, <2>5 DEF Joined
    <2>7. ASSUME NEW i \in 1..m PROVE h[i] = IF i = 1 THEN s[i] ELSE h[i - 1] \o s[i]
      <3>1. CASE i = m
        <4>1. h[i] = last
          BY <3>1, <2>1
        <4>2. i # 1 => h[i - 1] = g[i - 1]
          BY <3>1, <2>1
        <4> QED BY <3>1, <4>1, <4>2 DEF last
      <3>2. CASE i # m
        <4>1. h[i] = g[i] /\ (i # 1 => h[i - 1] = g[i - 1]) /\ i \in 1..(m - 1)
          BY <3>2, <2>1
        <4> QED BY <4>1, <2>2 DEF Joined
      <3> QED BY <3>1, <3>2
    <2> HIDE DEF h
    <2>8. Joined(h, s, m, S)
      BY <2>6, <2>7 DEF Joined
    <2> QED BY <1>1, <2>8
  <1> QED BY <1>2, <1>3

(* FlattenSeq of lists is a list. *)
LEMMA FlattenType ==
    ASSUME NEW S, NEW s \in Seq(Seq(S))
    PROVE  FlattenSeq(s) \in Seq(S)
  <1>1. CASE Len(s) = 0
    <2>1. s = <<>>
      BY <1>1
    <2> QED BY <1>1, <2>1 DEF FlattenSeq
  <1>2. CASE Len(s) # 0
    <2> DEFINE body(f) == [i \in 1..Len(s) |-> IF i = 1 THEN s[i] ELSE f[i - 1] \o s[i]]
               flatten == CHOOSE f : f = body(f)
    <2>1. Len(s) \in Nat \ {0}
      BY <1>2
    <2>2. PICK g : Joined(g, s, Len(s), S)
      BY <2>1, JoinedExists
    <2>3. g = body(g)
      BY <2>2 DEF Joined
    <2>4. flatten = body(flatten)
      BY <2>3
    <2>5. FlattenSeq(s) = flatten[Len(s)]
      BY <1>2 DEF FlattenSeq
    <2> HIDE DEF flatten
    <2> DEFINE B == {n \in Nat : n \in 1..Len(s) /\ flatten[n] \notin Seq(S)}
    <2>6. B = {}
      <3> SUFFICES ASSUME B # {} PROVE FALSE
        OBVIOUS
      <3>1. PICK m \in B : \A j \in B : m <= j
        BY LeastNumber
      <3>2. flatten[m] = IF m = 1 THEN s[m] ELSE flatten[m - 1] \o s[m]
        BY <2>4, <3>1
      <3>3. s[m] \in Seq(S)
        BY <3>1
      <3>4. m # 1 => flatten[m - 1] \in Seq(S)
        <4>1. m # 1 => m - 1 \in 1..Len(s) /\ m - 1 \in Nat /\ m - 1 \notin B
          BY <3>1
        <4> QED BY <4>1
      <3>5. m # 1 => flatten[m - 1] \o s[m] \in Seq(S)
        BY <3>3, <3>4, ConcatProperties, Zenon
      <3>6. flatten[m] \notin Seq(S)
        BY <3>1
      <3> QED BY <3>2, <3>3, <3>5, <3>6
    <2> QED BY <2>1, <2>5, <2>6
  <1> QED BY <1>1, <1>2
(* A function on 1..n is a list, however small n is. *)
LEMMA ListOf ==
    ASSUME NEW n \in Int, NEW S, NEW f \in [1..n -> S]
    PROVE  f \in Seq(S)
  <1>1. CASE n \in Nat
    BY <1>1
  <1>2. CASE n < 0
    <2>1. 1..n = 1..0
      BY <1>2
    <2> QED BY <2>1
  <1> QED BY <1>1, <1>2

LEMMA RangeOfList ==
    ASSUME NEW S, NEW s \in Seq(S)
    PROVE  Range(s) \subseteq S
  BY DEF Range

(* The tags a tool makes up are the tool's. *)
LEMMA TagsAreTags ==
    /\ \A i \in Int : <<"verify", i>> \in TagsOf("verify")
    /\ \A name \in Range(SCENARIOS), i \in Int : <<name, i>> \in TagsOf("redeliver")
    /\ \A what \in {"variant", "repeat"}, f, v \in Int : <<what, f, v>> \in TagsOf("steady")
  BY DEF TagsOf

LEMMA ScenarioNames ==
    Range(SCENARIOS) = {"duplicate", "slow-retry", "reply-first", "references"}
  BY DEF Range, SCENARIOS

LEMMA RedeliverTags == \A t \in TagsOf("redeliver") : t[1] \in Range(SCENARIOS)
  BY DEF TagsOf

(* A list of deliveries, each with a tag of redeliver. *)
Delivered(list) ==
    \E n \in Int : DOMAIN list = 1..n /\ \A d \in 1..n : list[d].tag \in TagsOf("redeliver")

LEMMA RepeatDelivers ==
    ASSUME NEW name \in Range(SCENARIOS), NEW count \in Int, NEW gap
    PROVE  Delivered(_repeat_twice(name, count, gap))
  <1> DEFINE T == TagsOf("redeliver")
             D == [tag : T, parent : {NoParent}, delay : {0, gap}]
             originals == [i \in 1..count |-> Delivery(<<name, i>>, NoParent, 0)]
  <1>1. \A i \in 1..count : <<name, i>> \in T
    BY TagsAreTags
  <1> HIDE DEF T
  <1>2. originals \in [1..count -> D]
    BY <1>1 DEF Delivery
  <1> HIDE DEF originals
  <1>3. CASE gap <= 0
    <2> DEFINE twice == [k \in 1..2 * count |-> originals[(k + 1) \div 2]]
    <2>1. \A k \in 1..2 * count : (k + 1) \div 2 \in 1..count
      OBVIOUS
    <2>2. 2 * count \in Int /\ DOMAIN twice = 1..2 * count
      OBVIOUS
    <2>3. \A k \in 1..2 * count : twice[k] \in D
      BY <1>2, <2>1
    <2>4. _repeat_twice(name, count, gap) = twice
      BY <1>3 DEF _repeat_twice, originals
    <2> HIDE DEF twice
    <2> QED BY <2>2, <2>3, <2>4 DEF Delivered, T
  <1>4. CASE ~(gap <= 0)
    <2> DEFINE later == [originals EXCEPT ![1].delay = gap]
    <2>1. later \in [1..count -> D]
      BY <1>2
    <2>2. originals \in Seq(D) /\ later \in Seq(D)
      <3> HIDE DEF later, D
      <3> QED BY <1>2, <2>1, ListOf
    <2>3. _repeat_twice(name, count, gap) = originals \o later
      BY <1>4 DEF _repeat_twice, originals
    <2> HIDE DEF later
    <2> DEFINE all == originals \o later
    <2>4. all \in Seq(D)
      <3> HIDE DEF D
      <3> QED BY <2>2, ConcatProperties, Zenon
    <2> HIDE DEF all
    <2>5. Len(all) \in Int /\ DOMAIN all = 1..Len(all) /\ \A d \in 1..Len(all) : all[d] \in D
      <3> HIDE DEF D
      <3> QED BY <2>4
    <2>6. \A d \in 1..Len(all) : all[d].tag \in T
      BY <2>5
    <2>7. Delivered(all)
      BY <2>5, <2>6 DEF Delivered, T
    <2> QED BY <2>3, <2>7 DEF all
  <1> QED BY <1>3, <1>4

LEMMA ScenariosDeliver ==
    ASSUME NEW count \in Int, NEW retry_after, NEW selected \in Seq(Range(SCENARIOS)),
           NEW k \in DOMAIN selected
    PROVE  Delivered(build_scenarios(count, retry_after, selected)[k].deliveries)
  <1> DEFINE b == build_scenarios(count, retry_after, selected)[k]
  <1>1. selected[k] \in {"duplicate", "slow-retry", "reply-first", "references"}
    BY ScenarioNames
  <1>2. CASE selected[k] = "duplicate"
    <2>1. b = build_duplicate(count)
      BY <1>2 DEF build_scenarios
    <2>2. b.deliveries = _repeat_twice("duplicate", count, 0)
      BY <2>1 DEF build_duplicate, Scenario
    <2> QED BY <2>2, RepeatDelivers, ScenarioNames
  <1>3. CASE selected[k] = "slow-retry"
    <2>1. b = build_slow_retry(count, retry_after)
      BY <1>3 DEF build_scenarios
    <2>2. b.deliveries = _repeat_twice("slow-retry", count, retry_after)
      BY <2>1 DEF build_slow_retry, Scenario
    <2> QED BY <2>2, RepeatDelivers, ScenarioNames
  <1>4. CASE selected[k] = "reply-first"
    <2>1. b = build_reply_first
      BY <1>4 DEF build_scenarios
    <2>2. Delivered(build_reply_first.deliveries)
      BY TagsAreTags, ScenarioNames DEF build_reply_first, Scenario, Delivery, Delivered
    <2> QED BY <2>1, <2>2
  <1>5. CASE selected[k] = "references"
    <2>1. b = build_references
      BY <1>5 DEF build_scenarios
    <2>2. Delivered(build_references.deliveries)
      BY TagsAreTags, ScenarioNames DEF build_references, Scenario, Delivery, Delivered
    <2> QED BY <2>1, <2>2
  <1> QED BY <1>1, <1>2, <1>3, <1>4, <1>5

(* Every plan is a list of the tool's tags. *)
LEMMA PlanType ==
    ASSUME NEW c \in Commands
    PROVE  PlanOf(c) \in Seq(TagsOf(c.tool))
  <1>1. CASE c.tool = "verify"
    <2>1. VerifyTags(c.count) \in [1..c.count -> TagsOf("verify")] /\ c.count \in Int
      BY TagsAreTags, CommandAssumption DEF VerifyTags
    <2>2. VerifyTags(c.count) \in Seq(TagsOf("verify"))
      BY <2>1, ListOf
    <2> QED BY <1>1, <2>2 DEF PlanOf
  <1>2. CASE c.tool = "redeliver"
    <2> DEFINE built == build_scenarios(c.count, c.retry_after, c.selected)
               T == TagsOf("redeliver")
               tags(k) == [d \in DOMAIN built[k].deliveries |-> built[k].deliveries[d].tag]
               parts == [k \in DOMAIN built |-> tags(k)]
    <2>1. c.count \in Int /\ c.selected \in Seq(Range(SCENARIOS))
      BY CommandAssumption
    <2>2. DOMAIN built = 1..Len(c.selected) /\ Len(c.selected) \in Nat /\ DOMAIN c.selected = DOMAIN built
      BY <2>1 DEF build_scenarios
    <2>3. ASSUME NEW k \in DOMAIN built PROVE tags(k) \in Seq(T)
      <3>1. Delivered(built[k].deliveries)
        BY <2>1, <2>2, ScenariosDeliver
      <3> HIDE DEF built
      <3>2. PICK n \in Int : DOMAIN built[k].deliveries = 1..n
                             /\ \A d \in 1..n : built[k].deliveries[d].tag \in T
        BY <3>1 DEF Delivered
      <3>3. tags(k) \in [1..n -> T]
        BY <3>2
      <3> QED BY <3>3, ListOf
    <2> HIDE DEF tags
    <2>4. parts \in Seq(Seq(T))
      <3> HIDE DEF built, T
      <3> QED BY <2>2, <2>3
    <2>5. PlanOf(c) = FlattenSeq(parts)
      BY <1>2 DEF PlanOf, tags
    <2> HIDE DEF parts, T
    <2>6. PlanOf(c) \in Seq(T)
      BY <2>4, <2>5, FlattenType
    <2> QED BY <1>2, <2>6 DEF T
  <1>3. CASE c.tool = "steady"
    <2> DEFINE T == TagsOf("steady")
               variants(f) == [v \in DOMAIN c.families[f] |-> <<"variant", f, v>>]
               parts == [f \in DOMAIN c.families |-> variants(f)]
               repeats(f) == [n \in 1..c.repeats |-> <<"repeat", f, n>>]
               again == [f \in DOMAIN c.families |-> repeats(f)]
    <2>1. c.families \in Seq(Seq(STRING)) /\ c.repeats \in Int
      BY CommandAssumption
    <2>2. DOMAIN c.families = 1..Len(c.families) /\ Len(c.families) \in Nat
      BY <2>1
    <2>3. ASSUME NEW f \in DOMAIN c.families PROVE variants(f) \in Seq(T)
      <3>1. f \in Int /\ c.families[f] \in Seq(STRING)
        BY <2>1, <2>2
      <3>2. DOMAIN c.families[f] = 1..Len(c.families[f]) /\ Len(c.families[f]) \in Int
        BY <3>1
      <3>3. variants(f) \in [1..Len(c.families[f]) -> T]
        BY <3>1, <3>2, TagsAreTags
      <3> QED BY <3>2, <3>3, ListOf
    <2>4. ASSUME NEW f \in DOMAIN c.families PROVE repeats(f) \in Seq(T)
      <3>1. f \in Int
        BY <2>2
      <3>2. repeats(f) \in [1..c.repeats -> T]
        BY <3>1, TagsAreTags
      <3> QED BY <2>1, <3>2, ListOf
    <2>5. PlanOf(c) = FlattenSeq(parts) \o (IF c.repeats = 1 THEN <<>> ELSE FlattenSeq(again))
      BY <1>3 DEF PlanOf, VariantTags, RepeatTags
    <2> HIDE DEF variants, repeats, T
    <2>6. parts \in Seq(Seq(T)) /\ again \in Seq(Seq(T))
      BY <2>2, <2>3, <2>4
    <2> HIDE DEF parts, again
    <2>7. FlattenSeq(parts) \in Seq(T) /\ FlattenSeq(again) \in Seq(T) /\ <<>> \in Seq(T)
      BY <2>6, FlattenType
    <2>8. PlanOf(c) \in Seq(T)
      BY <2>5, <2>7
    <2> QED BY <1>3, <2>8 DEF T
  <1> QED BY <1>1, <1>2, <1>3, CommandAssumption
-----------------------------------------------------------------------------
(* The exit codes are different numbers. *)
LEMMA Codes ==
    /\ NoExit \notin {EXIT_OK, EXIT_REFUSED, EXIT_DRY_RUN, EXIT_MISMATCH}
    /\ EXIT_REFUSED \notin {EXIT_OK, EXIT_DRY_RUN, EXIT_MISMATCH}
    /\ EXIT_DRY_RUN \notin {EXIT_OK, EXIT_MISMATCH}
    /\ EXIT_OK # EXIT_MISMATCH
  BY DEF NoExit, EXIT_OK, EXIT_REFUSED, EXIT_DRY_RUN, EXIT_MISMATCH

(* What does not depend on how far the command is. *)
LEMMA DataStands ==
    ASSUME RunInv, UNCHANGED <<command, plan, fileVars, posted, sent>>
    PROVE  /\ CommandOK' /\ PlanOK' /\ Counters' /\ StoreOK'
           /\ UNCHANGED seen => SeenOK'
           /\ UNCHANGED listed => Listing'
           /\ phase' # "send" \/ phase = "send" => Consent'
           /\ UNCHANGED saved => SavedGrade'
  <1>1. CommandOK' /\ PlanOK' /\ Counters' /\ StoreOK'
    BY DEF RunInv, CommandOK, PlanOK, Counters, StoreOK, fileVars
  <1>2. UNCHANGED seen => SeenOK'
    BY DEF RunInv, SeenOK, Filed
  <1>3. UNCHANGED listed => Listing'
    BY DEF RunInv, Listing, fileVars
  <1>4. phase' # "send" \/ phase = "send" => Consent'
    BY DEF RunInv, Consent
  <1>5. UNCHANGED saved => SavedGrade'
    BY DEF RunInv, SavedGrade
  <1> QED BY <1>1, <1>2, <1>3, <1>4, <1>5

(* A command that ends unjudged: refused, a dry run, or interrupted. *)
UnjudgedEnd(code, word) ==
    \/ /\ code = EXIT_REFUSED /\ word = "none"
       /\ command.sub = "fire" => posted \in {0, Len(plan)}
    \/ /\ code = EXIT_DRY_RUN /\ word = "none"
       /\ posted = 0 /\ adapter = "none" /\ saved = NoArtifact /\ saved' = saved
    \/ /\ code = EXIT_MISMATCH /\ word = "ABORTED" /\ phase \in Sending \cup {"reread"}

LEMMA EndsFrame ==
    ASSUME RunInv, phase # "over", NEW code, NEW word, Ends(code, word), UnjudgedEnd(code, word),
           UNCHANGED <<command, plan, fileVars, posted, sent, seen, outcome, listed, modes>>,
           SavedOK', SavedGrade',
           phase \in {"reread", "judge"} => UNCHANGED saved
    PROVE  RunInv'
  <1>1. CommandOK' /\ PlanOK' /\ Counters' /\ StoreOK' /\ SeenOK' /\ Listing' /\ Consent'
    BY DataStands DEF Ends
  <1>2. phase' = "over" /\ exit' = code /\ verdict' = word
    BY DEF Ends
  <1>3. Steps' /\ Begun' /\ UnderWay' /\ Fired' /\ Unjudged' /\ Outcomes'
    BY <1>2 DEF RunInv, Steps, Begun, UnderWay, Fired, Unjudged, Sending, Outcomes
  <1>4. AdapterOK' /\ adapter' # "open" /\ (adapter = "none" => adapter' = "none")
    BY DEF RunInv, AdapterOK, Ends
  <1>5. ModesOK'
    BY <1>2, Codes DEF RunInv, ModesOK, UnjudgedEnd, Sending
  <1>6. WaysOut'
    <2>1. code = EXIT_REFUSED /\ command'.sub = "fire" => posted' \in {0, Len(plan')}
      BY Codes DEF UnjudgedEnd
    <2>2. code = EXIT_DRY_RUN => posted' = 0 /\ adapter' = "none" /\ saved' = NoArtifact
      BY Codes, <1>4 DEF UnjudgedEnd
    <2>3. code \in {EXIT_OK, EXIT_REFUSED, EXIT_DRY_RUN, EXIT_MISMATCH}
      BY DEF UnjudgedEnd
    <2> QED BY <1>2, <1>4, <2>1, <2>2, <2>3 DEF WaysOut
  <1>7. Checking'
    <2>1. code \in {EXIT_OK, EXIT_MISMATCH} => phase \in Sending \cup {"reread"}
      BY Codes DEF UnjudgedEnd
    <2>2. phase \in Sending => command.sub = "fire"
      BY DEF RunInv, Fired
    <2> QED BY <1>2, <2>1, <2>2 DEF RunInv, Checking
  <1>8. Graded'
    BY <1>2, Codes DEF Graded, Judged, UnjudgedEnd
  <1> QED BY <1>1, <1>3, <1>4, <1>5, <1>6, <1>7, <1>8 DEF RunInv

LEMMA EndsStep ==
    ASSUME RunInv, phase # "over", NEW code, NEW word, Ends(code, word), UnjudgedEnd(code, word),
           UNCHANGED <<command, plan, fileVars, posted, sent, seen, outcome, listed, modes, saved>>
    PROVE  RunInv'
  <1>1. SavedOK'
    BY DEF RunInv, SavedOK, SentTags, Ends
  <1>2. SavedGrade'
    BY DataStands
  <1> QED BY <1>1, <1>2, EndsFrame

(* Every refusal of the command line, and the dry run. *)
LEMMA RefusalStep ==
    ASSUME RunInv, RefuseUsage \/ DryRun \/ RefuseRun \/ ReadBackRaises \/ RereadFails
    PROVE  RunInv'
  <1>1. UNCHANGED <<command, plan, fileVars, posted, sent, seen, outcome, listed, modes, saved>>
        /\ phase # "over"
    BY DEF RefuseUsage, DryRun, RefuseRun, ReadBackRaises, RereadFails
  <1>2. phase = "start" => posted = 0 /\ adapter = "none" /\ saved = NoArtifact
    BY DEF RunInv, Begun
  <1>3. phase = "readback" => posted = Len(plan)
    BY DEF RunInv, Fired
  <1>4. phase = "reread" => command.sub = "check"
    BY DEF RunInv, Checking
  <1>5. CASE RefuseUsage \/ RefuseRun \/ ReadBackRaises
    <2>1. Ends(EXIT_REFUSED, "none") /\ UnjudgedEnd(EXIT_REFUSED, "none")
      BY <1>2, <1>3, <1>5 DEF RefuseUsage, RefuseRun, ReadBackRaises, UnjudgedEnd
    <2> QED BY <1>1, <2>1, EndsStep
  <1>6. CASE DryRun
    <2>1. Ends(EXIT_DRY_RUN, "none") /\ UnjudgedEnd(EXIT_DRY_RUN, "none")
      BY <1>1, <1>2, <1>6 DEF DryRun, UnjudgedEnd
    <2> QED BY <1>1, <2>1, EndsStep
  <1>7. CASE RereadFails
    <2>1. \/ Ends(EXIT_REFUSED, "none") /\ UnjudgedEnd(EXIT_REFUSED, "none")
          \/ Ends(EXIT_MISMATCH, "ABORTED") /\ UnjudgedEnd(EXIT_MISMATCH, "ABORTED")
      BY <1>4, <1>7 DEF RereadFails, UnjudgedEnd
    <2> QED BY <1>1, <2>1, EndsStep
  <1> QED BY <1>5, <1>6, <1>7

(* What resolve_target lets pass. *)
LEMMA TargetAllowed ==
    ASSUME MayFire
    PROVE  /\ command.target \in Configured
           /\ command.target.host.name \notin {"reserved", "bare", "private literal"}
              /\ ("public" \in command.target.host.addresses \/ command.target.host.addresses = {})
              => command.allow_public_target
           /\ command.tool # "steady" => ModesKnown(command.modes)
  BY DEF MayFire, resolve_target, is_private_host, _is_reserved_or_private_host
-----------------------------------------------------------------------------
(* A command begins with nothing posted and nothing filed. *)
LEMMA RunInit == Init => RunInv
  <1> SUFFICES ASSUME Init PROVE RunInv
    OBVIOUS
  <1> USE DEF Init, Fresh
  <1>1. CommandOK /\ command.sub = "fire" /\ modes = command.modes /\ modes \in ModesGiven
        /\ (command.tool = "steady" => ModesKnown(modes))
    BY CommandAssumption DEF CommandOK, Tools
  <1>2. PlanOK
    BY PlanType DEF PlanOK
  <1>3. Counters
    <2>1. Len(plan) \in Nat
      BY <1>2 DEF PlanOK
    <2> QED BY <2>1 DEF Counters
  <1>4. StoreOK
    <2>1. \A S : <<>> \in Seq(S) /\ Len(<<>>) = 0
      OBVIOUS
    <2> QED BY <2>1 DEF StoreOK
  <1>5. SeenOK
    <2>1. \A S : <<>> \in Seq(S)
      OBVIOUS
    <2> QED BY <2>1 DEF SeenOK
  <1>6. Steps /\ Listing /\ AdapterOK /\ Outcomes
    BY DEF Steps, Listing, AdapterOK, Outcomes
  <1>7. ModesOK /\ Consent
    BY <1>1, Codes DEF ModesOK, Consent, Sending
  <1>8. Begun /\ UnderWay /\ Fired /\ Unjudged /\ WaysOut
    BY <1>1 DEF Begun, UnderWay, Fired, Unjudged, WaysOut, Sending
  <1>9. SavedOK /\ Checking /\ Graded /\ SavedGrade
    BY Codes DEF SavedOK, Checking, Graded, SavedGrade, Judged
  <1> QED BY <1>1, <1>2, <1>3, <1>4, <1>5, <1>6, <1>7, <1>8, <1>9 DEF RunInv

(* prepare_readback: broken, or the way to the first send is free. *)
LEMMA PrepareReadbackStep ==
    ASSUME RunInv, PrepareReadback
    PROVE  RunInv'
  <1>1. phase = "start" /\ command.send /\ MayFire
        /\ UNCHANGED <<command, plan, fileVars, posted, sent, seen, outcome, listed, modes, saved>>
    BY DEF PrepareReadback, evaluate_send
  <1>2. posted = 0 /\ saved = NoArtifact /\ command.sub = "fire"
    BY <1>1 DEF RunInv, Begun, Fired
  <1>3. CASE Ends(EXIT_REFUSED, "none")
    <2>1. UnjudgedEnd(EXIT_REFUSED, "none")
      BY <1>2 DEF UnjudgedEnd
    <2> QED BY <1>1, <1>3, <2>1, EndsStep
  <1>4. CASE phase' = "send" /\ adapter' = "open" /\ UNCHANGED <<exit, verdict>>
    <2>1. CommandOK' /\ PlanOK' /\ Counters' /\ StoreOK' /\ SeenOK' /\ Listing' /\ SavedGrade'
      BY <1>1, DataStands
    <2>2. Consent'
      BY <1>1, TargetAllowed DEF Consent
    <2>3. Steps' /\ AdapterOK' /\ Outcomes' /\ Begun' /\ UnderWay' /\ Fired' /\ Unjudged' /\ WaysOut'
      BY <1>1, <1>2, <1>4 DEF RunInv, Steps, AdapterOK, Outcomes, Begun, UnderWay, Fired, Unjudged,
                              WaysOut, Sending
    <2>4. ModesKnown(modes)
      BY <1>1, TargetAllowed DEF RunInv, Begun
    <2>5. ModesOK'
      BY <1>1, <2>4 DEF RunInv, ModesOK, ModesKnown
    <2>6. SavedOK' /\ Checking' /\ Graded'
      BY <1>1, <1>2, <1>4 DEF SavedOK, Checking, Graded, Judged
    <2> QED BY <2>1, <2>2, <2>3, <2>5, <2>6 DEF RunInv
  <1> QED BY <1>3, <1>4 DEF PrepareReadback

(* One more delivery, or the end of a send call. *)
LEMMA SendStep ==
    ASSUME RunInv, SendNext \/ SendReturns
    PROVE  RunInv'
  <1>1. phase = "send" /\ phase' \in {"send", "readback"}
        /\ UNCHANGED <<command, plan, fileVars, seen, outcome, listed, modes, adapter, verdict,
                       exit, saved>>
    BY DEF SendNext, SendReturns
  <1>2. Len(plan) \in Nat
    BY DEF RunInv, PlanOK
  <1>3. Counters' /\ (phase' = "readback" => posted' = Len(plan) /\ sent' = posted')
    BY <1>1, <1>2 DEF RunInv, Counters, SendNext, SendReturns
  <1>4. saved = NoArtifact /\ command.sub = "fire" /\ adapter = "open"
    BY <1>1 DEF RunInv, UnderWay, Fired, Sending
  <1>5. CommandOK' /\ PlanOK' /\ StoreOK' /\ SeenOK' /\ Listing' /\ SavedGrade'
    BY <1>1 DEF RunInv, CommandOK, PlanOK, StoreOK, fileVars, SeenOK, Filed, Listing, SavedGrade
  <1>6. Consent' /\ ModesOK'
    BY <1>1 DEF RunInv, Consent, ModesOK, Sending
  <1>7. Steps' /\ AdapterOK' /\ Outcomes' /\ Begun' /\ UnderWay' /\ Fired' /\ Unjudged' /\ WaysOut'
    BY <1>1, <1>3, <1>4 DEF RunInv, Steps, AdapterOK, Outcomes, Begun, UnderWay, Fired, Unjudged,
                            WaysOut, Sending
  <1>8. SavedOK' /\ Checking' /\ Graded'
    BY <1>1, <1>4 DEF RunInv, SavedOK, Checking, Graded, Judged
  <1> QED BY <1>3, <1>5, <1>6, <1>7, <1>8 DEF RunInv
-----------------------------------------------------------------------------
(* What was sent was posted, and what was posted is planned. *)
LEMMA SentIsPlanned ==
    ASSUME RunInv
    PROVE  SentTags \subseteq Posted /\ Posted \subseteq Range(plan)
  <1>1. Len(plan) \in Nat /\ DOMAIN plan = 1..Len(plan)
    BY DEF RunInv, PlanOK
  <1>2. posted \in 0..Len(plan) /\ sent \in 0..posted
    BY DEF RunInv, Counters
  <1>3. Range(plan) = {plan[i] : i \in 1..Len(plan)}
    BY <1>1 DEF Range
  <1>4. 1..sent \subseteq 1..posted /\ 1..posted \subseteq 1..Len(plan)
    BY <1>1, <1>2
  <1> QED BY <1>3, <1>4 DEF SentTags, Posted

(* A lookup returns what the pipeline filed under the tag. *)
LEMMA LookupType ==
    ASSUME RunInv, NEW t \in Range(plan)
    PROVE  Lookup(t) \in Seq(Filed(t))
  <1>1. store[t] \in Seq(Kinds[command.tool])
    BY DEF RunInv, StoreOK
  <1>2. DOMAIN store[t] = 1..Len(store[t]) /\ Len(store[t]) \in Int
        /\ \A i \in DOMAIN store[t] : store[t][i] \in Kinds[command.tool]
    BY <1>1
  <1>3. \A i \in DOMAIN store[t] : RecordOf(store[t][i], t) \in Filed(t)
    BY <1>2 DEF Filed
  <1>4. Lookup(t) \in [1..Len(store[t]) -> Filed(t)]
    BY <1>2, <1>3 DEF Lookup
  <1> QED BY <1>2, <1>4, ListOf

(* Whatever the readback returns is about tags of the plan, and was filed. *)
LEMMA ReadsType ==
    ASSUME RunInv, Reads, UNCHANGED <<command, plan>>, phase \in {"readback", "reread"}
    PROVE  SeenOK' /\ outcome' \in {"settled", "unsettled", "failed"}
  <1>1. Asked \subseteq Range(plan)
    <2>1. phase = "readback" => command.sub = "fire"
      BY DEF RunInv, Fired, Sending
    <2>2. phase = "reread" => saved.tags \subseteq Range(plan)
      BY SentIsPlanned DEF RunInv, Checking, SavedOK
    <2> QED BY <2>1, <2>2 DEF Asked
  <1>2. DOMAIN seen' = Asked /\ \A t \in Asked : seen'[t] = <<>> \/ seen'[t] = Lookup(t)
    BY DEF Reads, Sees
  <1>3. \A t \in Asked : seen'[t] \in Seq(Filed(t))
    <2>1. \A S : <<>> \in Seq(S)
      OBVIOUS
    <2> QED BY <1>1, <1>2, <2>1, LookupType
  <1>4. SeenOK'
    BY <1>1, <1>2, <1>3 DEF SeenOK, Filed
  <1>5. outcome' \in {"settled", "unsettled", "failed"}
    BY DEF Reads, Sees
  <1> QED BY <1>4, <1>5

LEMMA ReadBackStep ==
    ASSUME RunInv, ReadBack \/ Reread
    PROVE  RunInv'
  <1>1. phase \in {"readback", "reread"} /\ phase' \in {"stray search", "judge"} /\ Reads
        /\ (phase' = "judge" => adapter' = "closed")
        /\ (phase' = "stray search" => adapter' = adapter /\ phase = "readback")
        /\ UNCHANGED <<command, plan, fileVars, posted, sent, listed, modes, verdict, exit, saved>>
    BY DEF ReadBack, Reread
  <1>2. CommandOK' /\ PlanOK' /\ Counters' /\ StoreOK' /\ Listing' /\ Consent' /\ SavedGrade'
    BY <1>1, DataStands
  <1>3. SeenOK' /\ outcome' \in {"settled", "unsettled", "failed"}
    BY <1>1, ReadsType
  <1>4. phase = "readback" => saved = NoArtifact /\ command.sub = "fire" /\ adapter = "open"
    BY DEF RunInv, UnderWay, Fired, Sending
  <1>5. phase = "reread" => command.sub = "check"
    BY DEF RunInv, Checking
  <1>6. Steps' /\ AdapterOK' /\ Outcomes' /\ Begun' /\ UnderWay' /\ WaysOut'
    BY <1>1, <1>3, <1>4 DEF RunInv, Steps, AdapterOK, Outcomes, Begun, UnderWay, WaysOut, Sending
  <1>7. Fired' /\ Unjudged'
    BY <1>1, <1>3, <1>4, <1>5 DEF RunInv, Fired, Unjudged, Sending
  <1>8. ModesOK'
    BY <1>1 DEF RunInv, ModesOK, Sending
  <1>9. SavedOK'
    BY <1>1, <1>4 DEF RunInv, SavedOK, SentTags
  <1>10. Checking' /\ Graded'
    BY <1>1, <1>4, <1>5 DEF RunInv, Checking, Graded, Judged, Unjudged
  <1> QED BY <1>2, <1>3, <1>6, <1>7, <1>8, <1>9, <1>10 DEF RunInv

LEMMA EnumerateStoreStep ==
    ASSUME RunInv, EnumerateStore
    PROVE  RunInv'
  <1>1. phase = "stray search" /\ phase' = "judge" /\ adapter' = "closed" /\ listed' \subseteq strays
        /\ UNCHANGED <<command, plan, fileVars, posted, sent, seen, outcome, modes, verdict, exit,
                       saved>>
    BY DEF EnumerateStore
  <1>2. CommandOK' /\ PlanOK' /\ Counters' /\ StoreOK' /\ SeenOK' /\ Consent' /\ SavedGrade'
    BY <1>1, DataStands
  <1>3. saved = NoArtifact /\ command.sub = "fire"
    BY <1>1 DEF RunInv, UnderWay, Fired, Sending
  <1>4. Listing' /\ Steps' /\ AdapterOK' /\ Outcomes' /\ Begun' /\ UnderWay' /\ WaysOut' /\ Fired'
    BY <1>1, <1>3 DEF RunInv, Listing, fileVars, Steps, AdapterOK, Outcomes, Begun, UnderWay,
                      WaysOut, Fired, Sending
  <1>5. Unjudged'
    BY <1>1, <1>3 DEF RunInv, Unjudged
  <1>6. ModesOK'
    BY <1>1 DEF RunInv, ModesOK, Sending
  <1>7. SavedOK' /\ Checking' /\ Graded'
    BY <1>1, <1>3 DEF RunInv, SavedOK, Checking, Graded, Judged
  <1> QED BY <1>2, <1>4, <1>5, <1>6, <1>7 DEF RunInv
(* Ctrl-C: the aborted artifact says no more than was sent. *)
LEMMA InterruptStep ==
    ASSUME RunInv, Interrupt
    PROVE  RunInv'
  <1>1. phase \in Sending /\ Ends(EXIT_MISMATCH, "ABORTED")
        /\ UNCHANGED <<command, plan, fileVars, posted, sent, seen, outcome, listed, modes>>
        /\ (saved' = AbortedArtifact \/ saved' = saved)
    BY DEF Interrupt, Saved, Sending
  <1>2. saved = NoArtifact /\ phase' = "over" /\ UnjudgedEnd(EXIT_MISMATCH, "ABORTED")
    BY <1>1 DEF RunInv, UnderWay, Ends, UnjudgedEnd
  <1>3. CASE saved' = saved
    BY <1>1, <1>2, <1>3, EndsStep DEF Sending
  <1>4. CASE saved' = AbortedArtifact
    <2>1. modes \in ModesGiven /\ ModesKnown(modes)
      BY <1>1 DEF RunInv, ModesOK, ModesKnown
    <2>2. sent \in Int /\ sent <= posted /\ posted \in Nat
      <3>1. Len(plan) \in Nat
        BY DEF RunInv, PlanOK
      <3> QED BY <3>1 DEF RunInv, Counters
    <2>3. phase # "send" => sent = posted
      BY <1>1 DEF RunInv, Fired, Sending
    <2>4. SentTags' = SentTags
      BY <1>1 DEF SentTags
    <2>5. /\ saved'.tool = command.tool /\ saved'.verdict = "ABORTED" /\ saved'.outcome = "none"
          /\ saved'.modes = modes
          /\ saved'.tags = IF command.tool = "steady" THEN {} ELSE SentTags
          /\ saved'.sent = IF command.tool = "verify" /\ phase = "send" THEN Unknown ELSE sent
      BY <1>4 DEF AbortedArtifact
    <2>6. SavedOK'
      BY <1>1, <1>2, <2>1, <2>2, <2>3, <2>4, <2>5 DEF SavedOK, Unknown, ModesKnown
    <2>7. SavedGrade'
      BY <2>5 DEF SavedGrade
    <2> QED BY <1>1, <1>2, <2>6, <2>7, EndsFrame DEF Sending
  <1> QED BY <1>1, <1>3, <1>4

-----------------------------------------------------------------------------
(* verify's verdict depends on what was read and on nothing else. *)
LEMMA VerdictIsOf ==
    ASSUME command.tool = "verify"
    PROVE  Verdict = VerdictOf(outcome, seen, modes)
  <1>1. {t \in DOMAIN seen : ~Passed(grade[t])} = FailedTags(seen, modes)
    BY DEF grade, FailedTags
  <1>2. VerifyVerdict = VerdictOf(outcome, seen, modes)
    <2>1. CASE outcome = "failed"
      BY <2>1 DEF VerifyVerdict, VerdictOf, readback_failed
    <2>2. CASE outcome # "failed"
      <3>1. /\ summarize.failed = Cardinality(FailedTags(seen, modes))
            /\ summarize.verified = Cardinality(DOMAIN seen \ FailedTags(seen, modes))
        BY <1>1, <2>2 DEF summarize, readback_failed
      <3> QED BY <2>2, <3>1 DEF VerifyVerdict, VerdictOf, readback_failed, unsettled
    <2> QED BY <2>1, <2>2
  <1>3. readback_verdict(VerifyVerdict) = VerifyVerdict
    BY <1>2 DEF readback_verdict, VerdictOf, readback_failed, unsettled
  <1>4. Verdict = readback_verdict(VerifyVerdict)
    BY DEF Verdict
  <1> QED BY <1>2, <1>3, <1>4

(* A judged command exits 0 or 3. *)
LEMMA ExitIsACode ==
    ASSUME command.tool \in Tools, NEW word
    PROVE  /\ ExitCode(word) \in {EXIT_OK, EXIT_MISMATCH}
           /\ command.tool = "verify" => ExitCode(word) = exit_code_for(word)
  BY DEF Tools, ExitCode, exit_code_for

(* No verdict that was judged reads like an interrupted run's. *)
LEMMA JudgedIsNotAborted ==
    ASSUME command.tool \in Tools
    PROVE  Verdict # "ABORTED"
  <1>1. \A word : word # "ABORTED" => readback_verdict(word) # "ABORTED"
    BY DEF readback_verdict
  <1>2. VerifyVerdict # "ABORTED"
    BY DEF VerifyVerdict
  <1>3. \A run, slow : verdict_of(run, slow) # "ABORTED"
    BY DEF verdict_of
  <1>4. \A families : verdict_for(families) # "ABORTED"
    BY DEF verdict_for
  <1>5. RedeliverVerdict # "ABORTED"
    BY <1>1, <1>3 DEF RedeliverVerdict
  <1>6. readback_verdict(VerifyVerdict) # "ABORTED" /\ readback_verdict(verdict_for(read_labels)) # "ABORTED"
    BY <1>1, <1>2, <1>4
  <1> QED BY <1>5, <1>6 DEF Verdict, Tools

(* The command says what it found. *)
LEMMA ReportStep ==
    ASSUME RunInv, Report
    PROVE  RunInv'
  <1> DEFINE word == Verdict
             code == ExitCode(word)
  <1>1. phase = "judge" /\ phase' = "over" /\ exit' = code /\ verdict' = word
        /\ adapter' = (IF adapter = "none" THEN "none" ELSE "closed")
        /\ UNCHANGED <<command, plan, fileVars, posted, sent, seen, outcome, listed, modes>>
    BY DEF Report, Ends
  <1>2. saved' = saved \/ (command.sub = "fire" /\ saved' = Artifact(word, code))
    BY DEF RunInv, CommandOK, Report, Saved
  <1>3. command.sub # "fire" => saved' = saved
    BY DEF RunInv, CommandOK, Report
  <1>4. /\ code \in {EXIT_OK, EXIT_MISMATCH}
        /\ command.tool = "verify" => word = VerdictOf(outcome, seen, modes) /\ code = exit_code_for(word)
    BY ExitIsACode, VerdictIsOf DEF RunInv, CommandOK
  <1>14. word # "ABORTED"
    BY JudgedIsNotAborted DEF RunInv, CommandOK
  <1> HIDE DEF word, code
  <1>5. CommandOK' /\ PlanOK' /\ Counters' /\ StoreOK' /\ SeenOK' /\ Listing' /\ Consent'
    BY <1>1, DataStands
  <1>6. adapter = "closed" /\ outcome \in {"settled", "unsettled", "failed"}
        /\ (command.sub = "fire" => saved = NoArtifact)
    BY <1>1 DEF RunInv, Unjudged
  <1>7. Steps' /\ AdapterOK' /\ Outcomes' /\ Begun' /\ UnderWay' /\ Fired' /\ Unjudged'
    BY <1>1, <1>6 DEF RunInv, Steps, AdapterOK, Outcomes, Begun, UnderWay, Fired, Unjudged, Sending
  <1>8. WaysOut'
    BY <1>1, <1>4, <1>6, Codes DEF WaysOut
  <1>9. modes \in ModesGiven /\ ModesKnown(modes)
    BY <1>1 DEF RunInv, ModesOK, ModesKnown
  <1>10. ModesOK'
    BY <1>1, <1>9 DEF ModesOK, ModesKnown
  <1>11. Graded'
    BY <1>1, <1>4, <1>6 DEF Graded, VerdictOf, FailedTags
  <1>12. Checking'
    BY <1>1, <1>3 DEF RunInv, Checking
  <1>13. SavedOK' /\ SavedGrade'
    <2>1. SentTags' = SentTags
      BY <1>1 DEF SentTags
    <2>2. CASE saved' = saved
      <3>1. SavedGrade'
        BY <1>1, <2>2, DataStands
      <3>2. SavedOK'
        BY <1>1, <2>1, <2>2 DEF RunInv, SavedOK
      <3> QED BY <3>1, <3>2
    <2>3. CASE saved' = Artifact(word, code)
      <3>1. /\ saved'.tool = command.tool /\ saved'.verdict = word /\ saved'.exit = code
            /\ saved'.modes = modes /\ saved'.outcome = outcome /\ saved'.readback = seen
            /\ saved'.tags = IF command.tool = "verify" THEN SentTags ELSE {}
        BY <2>3 DEF Artifact
      <3>2. word # "ABORTED"
        BY <1>14
      <3>3. SavedOK'
        BY <1>1, <1>9, <2>1, <3>1, <3>2 DEF SavedOK, ModesKnown
      <3>4. SavedGrade'
        BY <1>1, <1>4, <3>1 DEF SavedGrade
      <3> QED BY <3>3, <3>4
    <2> QED BY <1>2, <2>2, <2>3
  <1> QED BY <1>5, <1>7, <1>8, <1>10, <1>11, <1>12, <1>13 DEF RunInv
-----------------------------------------------------------------------------
(* The modes of a check: what is given, and what the run recorded for the  *)
(* rest; both are known, so the outcome is.                                *)
LEMMA ModesOfACheck ==
    ASSUME NEW given \in GivenModes, saved.modes \in ModesGiven, ModesKnown(saved.modes)
    PROVE  /\ _recorded_match_modes(given) \in ModesGiven
           /\ ModesKnown(_recorded_match_modes(given))
           /\ given = <<>> => _recorded_match_modes(given) = saved.modes
  <1> DEFINE names == {"subject_match", "attachment_match", "body_exact", "route"}
             m == _recorded_match_modes(given)
             d == Filled(given, DefaultModes)
  <1>1. DOMAIN given \subseteq names /\ d \in ModesGiven /\ ModesKnown(d)
    BY CommandAssumption DEF DefaultModes
  <1>2. DOMAIN saved.modes = names /\ DOMAIN DefaultModes = names
    BY DEF ModesGiven, DefaultModes
  <1>3. m = [x \in names |-> IF x \in DOMAIN given THEN given[x] ELSE saved.modes[x]]
    <2> DEFINE r == Filled(saved.modes, DefaultModes)
    <2>1. r = [x \in names |-> saved.modes[x]]
      <3> HIDE DEF names
      <3> QED BY <1>2 DEF Filled
    <2>2. DOMAIN given \cup DOMAIN r = names
      <3> HIDE DEF names
      <3> QED BY <1>1, <2>1
    <2>3. m = [x \in DOMAIN given \cup DOMAIN r |-> IF x \in DOMAIN given THEN given[x] ELSE r[x]]
      BY DEF _recorded_match_modes, Filled
    <2> HIDE DEF names, r, m
    <2> QED BY <2>1, <2>2, <2>3
  <1>4. d = [x \in names |-> IF x \in DOMAIN given THEN given[x] ELSE DefaultModes[x]]
    <2>1. DOMAIN given \cup DOMAIN DefaultModes = names
      <3> HIDE DEF names
      <3> QED BY <1>1, <1>2
    <2>2. d = [x \in DOMAIN given \cup DOMAIN DefaultModes |->
                    IF x \in DOMAIN given THEN given[x] ELSE DefaultModes[x]]
      BY DEF Filled
    <2> HIDE DEF names, d
    <2> QED BY <2>1, <2>2
  <1> HIDE DEF m, d
  <1>5. \A x \in names : m[x] = d[x] \/ m[x] = saved.modes[x]
    BY <1>3, <1>4
  <1>6. m \in ModesGiven
    <2>1. \A x \in names : m[x] = d[x] \/ m[x] = saved.modes[x]
      BY <1>5
    <2>2. m.subject_match \in STRING /\ m.attachment_match \in STRING /\ m.body_exact \in BOOLEAN
          /\ m.route \in STRING
      BY <1>1, <2>1 DEF ModesGiven
    <2>3. m = [subject_match |-> m.subject_match, attachment_match |-> m.attachment_match,
               body_exact |-> m.body_exact, route |-> m.route]
      BY <1>3
    <2> QED BY <2>2, <2>3 DEF ModesGiven
  <1>7. ModesKnown(m)
    BY <1>1, <1>5 DEF ModesKnown
  <1>8. ASSUME given = <<>> PROVE m = saved.modes
    <2>1. DOMAIN given = {}
      BY <1>8
    <2>2. \A x \in names : m[x] = saved.modes[x]
      BY <1>3, <2>1
    <2>3. m = [x \in names |-> m[x]]
      BY <1>3
    <2>4. saved.modes = [x \in names |-> saved.modes[x]]
      BY DEF ModesGiven
    <2> QED BY <2>2, <2>3, <2>4
  <1> QED BY <1>6, <1>7, <1>8 DEF m

(* Only verify's artifact names tags that a check can rebuild. *)
LEMMA RebuiltIsVerify ==
    ASSUME RunInv, CanRebuild("the run's")
    PROVE  saved # NoArtifact /\ command.tool = "verify"
  <1>1. saved # NoArtifact /\ saved.tags # {} /\ saved.tags \subseteq Range(VerifyTags(saved.count))
    BY DEF CanRebuild
  <1>2. saved.tool = command.tool /\ saved.tags \subseteq Range(plan)
        /\ (saved.tool = "steady" => saved.tags = {})
    BY <1>1, SentIsPlanned DEF RunInv, SavedOK
  <1>3. PICK t \in saved.tags : TRUE
    BY <1>1
  <1>4. t[1] = "verify"
    <2>1. \A i \in DOMAIN VerifyTags(saved.count) : VerifyTags(saved.count)[i] = <<"verify", i>>
      BY DEF VerifyTags
    <2>2. PICK i \in DOMAIN VerifyTags(saved.count) : t = VerifyTags(saved.count)[i]
      BY <1>1, <1>3 DEF Range
    <2>3. t = <<"verify", i>>
      BY <2>1, <2>2
    <2> QED BY <2>3
  <1>5. t \in TagsOf(command.tool)
    <2>1. plan \in Seq(TagsOf(command.tool))
      BY DEF RunInv, PlanOK
    <2>2. Range(plan) \subseteq TagsOf(command.tool)
      BY <2>1, RangeOfList
    <2> QED BY <1>2, <1>3, <2>2
  <1>6. ASSUME command.tool = "redeliver" PROVE FALSE
    BY <1>4, <1>5, <1>6, RedeliverTags, ScenarioNames
  <1> QED BY <1>1, <1>2, <1>6 DEF RunInv, CommandOK, Tools

(* A check of what cannot be checked. *)
LEMMA CheckRefusedStep ==
    ASSUME RunInv, CheckRefused
    PROVE  RunInv'
  <1>1. phase = "over" /\ command.sub = "fire" /\ command' = [command EXCEPT !.sub = "check"]
        /\ adapter' = "none" /\ exit' = EXIT_REFUSED /\ verdict' = "none" /\ outcome' = "none"
        /\ UNCHANGED <<plan, phase, fileVars, posted, sent, seen, listed, modes, saved>>
    BY DEF CheckRefused
  <1>2. CommandOK /\ CommandOK' /\ command'.sub = "check"
        /\ \A field \in CommandFields \ {"sub"} : command'[field] = command[field]
    BY <1>1 DEF RunInv, CommandOK, CommandFields
  <1>3. command'.tool = command.tool /\ command'.send = command.send
        /\ command'.target = command.target
        /\ command'.allow_public_target = command.allow_public_target
    BY <1>2 DEF CommandFields
  <1>4. PlanOK' /\ Counters' /\ StoreOK' /\ SeenOK' /\ Listing'
    BY <1>1, <1>3 DEF RunInv, PlanOK, Counters, StoreOK, SeenOK, Filed, Listing, fileVars
  <1>5. Consent'
    BY <1>1, <1>3 DEF RunInv, Consent
  <1>6. Steps' /\ AdapterOK' /\ Outcomes' /\ Begun' /\ UnderWay' /\ Fired' /\ Unjudged'
    BY <1>1 DEF RunInv, Steps, AdapterOK, Outcomes, Begun, UnderWay, Fired, Unjudged, Sending
  <1>7. WaysOut' /\ ModesOK'
    BY <1>1, <1>2, Codes DEF RunInv, WaysOut, ModesOK, Sending
  <1>8. SavedOK'
    BY <1>1, <1>3 DEF RunInv, SavedOK, SentTags
  <1>9. SavedGrade'
    BY <1>1, <1>3 DEF RunInv, SavedGrade
  <1>10. Checking' /\ Graded'
    BY <1>1, Codes DEF Checking, Graded, Judged
  <1> QED BY <1>2, <1>4, <1>5, <1>6, <1>7, <1>8, <1>9, <1>10 DEF RunInv

(* A check that goes ahead is one of a verify run, and says how it grades. *)
LEMMA CheckSavedRunStep ==
    ASSUME RunInv, CheckSavedRun
    PROVE  RunInv'
  <1>1. PICK given \in GivenModes :
            /\ command' = [command EXCEPT !.sub = "check", !.modes = given]
            /\ modes' = _recorded_match_modes(given)
    BY DEF CheckSavedRun
  <1>2. phase = "over" /\ command.sub = "fire" /\ phase' = "reread" /\ CanRebuild("the run's")
        /\ adapter' = "open" /\ exit' = NoExit /\ verdict' = "none" /\ outcome' = "none"
        /\ UNCHANGED <<plan, fileVars, posted, sent, seen, listed, saved>>
    BY DEF CheckSavedRun
  <1>3. saved # NoArtifact /\ command.tool = "verify"
    BY <1>2, RebuiltIsVerify
  <1>4. CommandOK /\ CommandOK' /\ command'.sub = "check" /\ command'.modes = given
        /\ \A field \in CommandFields \ {"sub", "modes"} : command'[field] = command[field]
    BY <1>1 DEF RunInv, CommandOK, CommandFields
  <1>5. command'.tool = command.tool /\ command'.send = command.send
        /\ command'.target = command.target
        /\ command'.allow_public_target = command.allow_public_target
    BY <1>4 DEF CommandFields
  <1>6. PlanOK' /\ Counters' /\ StoreOK' /\ SeenOK' /\ Listing'
    BY <1>2, <1>5 DEF RunInv, PlanOK, Counters, StoreOK, SeenOK, Filed, Listing, fileVars
  <1>7. Consent'
    BY <1>2, <1>5 DEF RunInv, Consent
  <1>8. Steps' /\ AdapterOK' /\ Outcomes' /\ Begun' /\ UnderWay' /\ Fired' /\ Unjudged' /\ WaysOut'
    BY <1>2 DEF RunInv, Steps, AdapterOK, Outcomes, Begun, UnderWay, Fired, Unjudged, WaysOut, Sending
  <1>9. saved.modes \in ModesGiven /\ ModesKnown(saved.modes)
    BY <1>3 DEF RunInv, SavedOK
  <1>10. modes' \in ModesGiven /\ ModesKnown(modes)' /\ (given = <<>> => modes' = saved.modes)
    BY <1>1, <1>9, ModesOfACheck DEF ModesKnown
  <1>11. ModesOK'
    BY <1>10 DEF ModesOK
  <1>12. SavedOK'
    BY <1>2, <1>5 DEF RunInv, SavedOK, SentTags
  <1>13. SavedGrade'
    BY <1>2, <1>5 DEF RunInv, SavedGrade
  <1>14. Checking' /\ Graded'
    BY <1>2, <1>3, <1>4, <1>5, <1>10 DEF Checking, Graded, Judged
  <1> QED BY <1>4, <1>6, <1>7, <1>8, <1>11, <1>12, <1>13, <1>14 DEF RunInv

(* The pipeline files a record and touches nothing of the command. *)
LEMMA PipelineFilesStep ==
    ASSUME RunInv, PipelineFiles
    PROVE  RunInv'
  <1>1. UNCHANGED <<command, plan, phase, strays, runVars>>
    BY DEF PipelineFiles
  <1>2. UNCHANGED <<posted, sent, seen, outcome, listed, modes, adapter, verdict, exit, saved>>
    BY <1>1 DEF runVars
  <1>3. StoreOK'
    <2> DEFINE K == Kinds[command.tool]
    <2>1. PICK t \in Posted, kind \in K :
            Len(store[t]) < 2 /\ store' = [store EXCEPT ![t] = Append(@, kind)]
      BY DEF PipelineFiles
    <2>2. t \in Range(plan)
      BY <2>1, SentIsPlanned
    <2>3. store \in [Range(plan) -> Seq(K)] /\ \A u \in Range(plan) : Len(store[u]) <= 2
      BY DEF RunInv, StoreOK
    <2> HIDE DEF K
    <2>4. Append(store[t], kind) \in Seq(K) /\ Len(Append(store[t], kind)) <= 2
      <3>1. store[t] \in Seq(K)
        BY <2>2, <2>3
      <3> QED BY <2>1, <3>1
    <2>5. store' \in [Range(plan) -> Seq(K)]
      BY <2>1, <2>2, <2>3, <2>4
    <2>6. \A u \in Range(plan) : store'[u] = IF u = t THEN Append(store[t], kind) ELSE store[u]
      BY <2>1, <2>3
    <2>7. \A u \in Range(plan) : Len(store'[u]) <= 2
      BY <2>3, <2>4, <2>6
    <2> QED BY <1>1, <2>5, <2>7 DEF StoreOK, K
  <1>4. CommandOK' /\ Steps' /\ PlanOK' /\ Counters' /\ SeenOK' /\ Listing' /\ ModesOK' /\ Consent'
        /\ AdapterOK' /\ Outcomes'
    BY <1>1, <1>2 DEF RunInv, CommandOK, Steps, PlanOK, Counters, SeenOK, Filed, Listing, ModesOK,
                      Consent, AdapterOK, Outcomes
  <1>5. Begun' /\ UnderWay' /\ Fired' /\ Unjudged' /\ WaysOut'
    BY <1>1, <1>2 DEF RunInv, Begun, UnderWay, Fired, Unjudged, WaysOut
  <1>6. SavedOK' /\ Checking' /\ Graded' /\ SavedGrade'
    BY <1>1, <1>2 DEF RunInv, SavedOK, SentTags, Checking, Graded, Judged, SavedGrade
  <1> QED BY <1>3, <1>4, <1>5, <1>6 DEF RunInv

LEMMA StutterStep ==
    ASSUME RunInv, UNCHANGED vars
    PROVE  RunInv'
  <1>1. UNCHANGED <<command, plan, phase, store, strays, posted, sent, seen, outcome, listed, modes,
                    adapter, verdict, exit, saved>>
    BY DEF vars, fileVars, runVars
  <1>2. CommandOK' /\ Steps' /\ PlanOK' /\ Counters' /\ StoreOK' /\ SeenOK' /\ Listing' /\ ModesOK'
        /\ Consent' /\ AdapterOK' /\ Outcomes'
    BY <1>1 DEF RunInv, CommandOK, Steps, PlanOK, Counters, StoreOK, SeenOK, Filed, Listing, ModesOK,
                Consent, AdapterOK, Outcomes
  <1>3. Begun' /\ UnderWay' /\ Fired' /\ Unjudged' /\ WaysOut'
    BY <1>1 DEF RunInv, Begun, UnderWay, Fired, Unjudged, WaysOut
  <1>4. SavedOK' /\ Checking' /\ Graded' /\ SavedGrade'
    BY <1>1 DEF RunInv, SavedOK, SentTags, Checking, Graded, Judged, SavedGrade
  <1> QED BY <1>2, <1>3, <1>4 DEF RunInv

LEMMA RunStep ==
    ASSUME RunInv, [Next]_vars
    PROVE  RunInv'
  <1>1. CASE RefuseUsage \/ DryRun \/ RefuseRun \/ ReadBackRaises \/ RereadFails
    BY <1>1, RefusalStep
  <1>2. CASE PrepareReadback
    BY <1>2, PrepareReadbackStep
  <1>3. CASE SendNext \/ SendReturns
    BY <1>3, SendStep
  <1>4. CASE ReadBack \/ Reread
    BY <1>4, ReadBackStep
  <1>5. CASE EnumerateStore
    BY <1>5, EnumerateStoreStep
  <1>6. CASE Interrupt
    BY <1>6, InterruptStep
  <1>7. CASE Report
    BY <1>7, ReportStep
  <1>8. CASE CheckRefused
    BY <1>8, CheckRefusedStep
  <1>9. CASE CheckSavedRun
    BY <1>9, CheckSavedRunStep
  <1>10. CASE PipelineFiles
    BY <1>10, PipelineFilesStep
  <1>11. CASE Ended \/ UNCHANGED vars
    BY <1>11, StutterStep DEF Ended
  <1> QED BY <1>1, <1>2, <1>3, <1>4, <1>5, <1>6, <1>7, <1>8, <1>9, <1>10, <1>11 DEF Next, Tool

(* RunInv is an invariant: init, the checks and the store included. *)
THEOREM RunInvariant == Spec => []RunInv
  BY RunInit, RunStep, PTL DEF Spec
-----------------------------------------------------------------------------
(* What the invariant says of a state: the types, the consent behind every *)
(* post, a clean end and an honest abort.                                  *)
LEMMA RunIsHonestFollows == RunInv => RunIsHonest
  <1> SUFFICES ASSUME RunInv PROVE RunIsHonest
    OBVIOUS
  <1>1. TypeOK
    <2>1. \A t \in Range(plan) : store[t] \in Seq(Kinds[command.tool]) /\ Len(store[t]) <= 2
      BY DEF RunInv, StoreOK
    <2>2. exit \in {NoExit, EXIT_OK, EXIT_REFUSED, EXIT_DRY_RUN, EXIT_MISMATCH}
      BY DEF RunInv, Unjudged, WaysOut
    <2>3. ModesKnown(modes) \/ exit \in {NoExit, EXIT_REFUSED, EXIT_DRY_RUN}
      BY <2>2 DEF RunInv, ModesOK
    <2> QED BY <2>1, <2>2, <2>3
            DEF RunInv, TypeOK, Steps, Counters, SeenOK, Outcomes, Listing, AdapterOK
  <1>2. SendsAreConsented
    <2>1. posted > 0 => Consent
      BY DEF RunInv
    <2> QED BY <2>1 DEF SendsAreConsented, Consent
  <1>3. EndsCleanly
    BY Codes DEF RunInv, WaysOut, EndsCleanly
  <1>4. AbortIsHonest
    BY SentIsPlanned DEF RunInv, SavedOK, AbortIsHonest
  <1> QED BY <1>1, <1>2, <1>3, <1>4 DEF RunIsHonest

(* RunIsHonest, for every command line: a run posts only where and when it *)
(* was allowed to, ends with an exit code and a closed adapter, refuses    *)
(* before the first post or after the last, and says no more than the      *)
(* truth about what was sent when Ctrl-C ends it.                          *)
THEOREM RunIsHonestHolds == Spec => []RunIsHonest
  BY RunInvariant, RunIsHonestFollows, PTL
-----------------------------------------------------------------------------
(* What verify reads.                                                      *)
VerifyKinds == {"right", "wrapped", "quoted", "renamed", "misrouted", "wrong", "blind"}
Renamed == <<[name |-> "a_.pdf", key |-> "a"]>>
Visible == {"from_addr", "subject", "body", "attachment_names", "route",
            "in_reply_to", "references", "label"}

(* What the record of each kind holds. *)
Holds(record, kind) ==
    /\ record.exists = TRUE
    /\ record.kind = kind
    /\ record.fields = IF kind = "blind" THEN {} ELSE Visible
    /\ record.sender = IF kind = "wrong" THEN "other" ELSE "equal"
    /\ record.subject = IF kind = "wrapped" THEN "ends with it"
                        ELSE IF kind = "quoted" THEN "contains it" ELSE "equal"
    /\ record.body = IF kind = "wrapped" THEN "contains it" ELSE "equal"
    /\ record.names = IF kind = "renamed" THEN Renamed ELSE Attachment
    /\ record.route = IF kind = "misrouted" THEN "sales" ELSE "support"

LEMMA RecordHolds ==
    ASSUME NEW kind \in VerifyKinds, NEW t, t[1] = "verify"
    PROVE  Holds(RecordOf(kind, t), kind)
  <1> DEFINE r == RecordOf(kind, t)
  <1>1. Threaded(t) = Right(t)
    BY DEF Threaded
  <1>2. CASE kind = "right"
    <2>1. r = [Right(t) EXCEPT !.kind = kind]
      BY <1>1, <1>2 DEF RecordOf, Parsed
    <2> QED BY <1>2, <2>1 DEF Holds, Right, Visible
  <1>3. CASE kind = "wrapped"
    <2>1. r = [[Right(t) EXCEPT !.subject = "ends with it", !.body = "contains it"] EXCEPT !.kind = kind]
      BY <1>3 DEF RecordOf, Parsed
    <2> QED BY <1>3, <2>1 DEF Holds, Right, Visible
  <1>4. CASE kind = "quoted"
    <2>1. r = [[Right(t) EXCEPT !.subject = "contains it"] EXCEPT !.kind = kind]
      BY <1>4 DEF RecordOf, Parsed
    <2> QED BY <1>4, <2>1 DEF Holds, Right, Visible
  <1>5. CASE kind = "renamed"
    <2>1. r = [[Right(t) EXCEPT !.names = Renamed] EXCEPT !.kind = kind]
      BY <1>5 DEF RecordOf, Parsed, Renamed
    <2> QED BY <1>5, <2>1 DEF Holds, Right, Visible
  <1>6. CASE kind = "misrouted"
    <2>1. r = [[Right(t) EXCEPT !.route = "sales"] EXCEPT !.kind = kind]
      BY <1>6 DEF RecordOf, Parsed
    <2> QED BY <1>6, <2>1 DEF Holds, Right, Visible
  <1>7. CASE kind = "wrong"
    <2>1. r = [[Right(t) EXCEPT !.sender = "other"] EXCEPT !.kind = kind]
      BY <1>7 DEF RecordOf, Parsed
    <2> QED BY <1>7, <2>1 DEF Holds, Right, Visible
  <1>8. CASE kind = "blind"
    <2>1. r = [[Right(t) EXCEPT !.fields = {}] EXCEPT !.kind = kind]
      BY <1>8 DEF RecordOf, Parsed
    <2> QED BY <1>8, <2>1 DEF Holds, Right, Visible
  <1> QED BY <1>2, <1>3, <1>4, <1>5, <1>6, <1>7, <1>8 DEF VerifyKinds

(* A name that was changed on the way differs, unless it is only compared  *)
(* by what the loose comparison keeps of it.                               *)
LEMMA NamesDiffer ==
    ASSUME NEW mode
    PROVE  /\ SameNames(mode, Attachment, Attachment)
           /\ SameNames(mode, Attachment, Renamed) <=> mode = "loose"
  <1>1. SameNames(mode, Attachment, Attachment)
    BY DEF SameNames
  <1>2. ASSUME mode = "loose" PROVE SameNames(mode, Attachment, Renamed)
    <2>1. [i \in DOMAIN Attachment |-> Attachment[i].key] = [i \in DOMAIN Renamed |-> Renamed[i].key]
      BY DEF Attachment, Renamed
    <2> QED BY <1>2, <2>1 DEF SameNames
  <1>3. ASSUME mode # "loose" PROVE ~SameNames(mode, Attachment, Renamed)
    <2>1. Range(Attachment) = {[name |-> "a.pdf", key |-> "a"]}
      BY DEF Range, Attachment
    <2>2. Range(Renamed) = {[name |-> "a_.pdf", key |-> "a"]}
      BY DEF Range, Renamed
    <2>3. {n.name : n \in Range(Attachment)} = {"a.pdf"}
      BY <2>1
    <2>4. {n.name : n \in Range(Renamed)} = {"a_.pdf"}
      BY <2>2
    <2> QED BY <1>3, <2>3, <2>4 DEF SameNames
  <1> QED BY <1>1, <1>2, <1>3

(* Each of the six checks, over a record of a kind. *)
LEMMA ChecksOfKind ==
    ASSUME NEW kind \in VerifyKinds, NEW r, r # NoRecord, Holds(r, kind), ModesKnown(modes)
    PROVE  /\ _check_ticket_created(r) # "failed"
           /\ _check_sender(r) # "failed" <=> kind # "wrong"
           /\ _check_subject(r, modes) # "failed" <=>
                /\ kind = "wrapped" => modes.subject_match # "exact"
                /\ kind = "quoted" => modes.subject_match = "contains"
           /\ _check_body(r, modes, Expected) # "failed" <=> (kind = "wrapped" => ~modes.body_exact)
           /\ _check_attachments(r, modes, Expected) # "failed" <=>
                (kind = "renamed" => modes.attachment_match = "loose")
           /\ _check_routing(r, modes) # "failed" <=>
                (kind # "blind" => modes.route \in {"", IF kind = "misrouted" THEN "sales" ELSE "support"})
  <1> USE DEF Has, OfField, Passes, Same
  <1>1. \A field \in Visible : Has(r, field) <=> kind # "blind"
    BY DEF Holds
  <1>2. _check_ticket_created(r) # "failed"
    BY DEF Holds, _check_ticket_created
  <1>3. _check_sender(r) # "failed" <=> kind # "wrong"
    BY <1>1 DEF Holds, Visible, _check_sender
  <1>4. _check_subject(r, modes) # "failed" <=>
            /\ kind = "wrapped" => modes.subject_match # "exact"
            /\ kind = "quoted" => modes.subject_match = "contains"
    BY <1>1 DEF Holds, Visible, _check_subject, SubjectOk
  <1>5. _check_body(r, modes, Expected) # "failed" <=> (kind = "wrapped" => ~modes.body_exact)
    BY <1>1 DEF Holds, Visible, _check_body, Expected
  <1>6. _check_attachments(r, modes, Expected) # "failed" <=>
            (kind = "renamed" => modes.attachment_match = "loose")
    <2>1. Expected.names = Attachment /\ Attachment # <<>>
      BY DEF Expected, Attachment
    <2> QED BY <1>1, <2>1, NamesDiffer DEF Holds, Visible, _check_attachments
  <1>7. _check_routing(r, modes) # "failed" <=>
            (kind # "blind" => modes.route \in {"", IF kind = "misrouted" THEN "sales" ELSE "support"})
    BY <1>1 DEF Holds, Visible, _check_routing
  <1> QED BY <1>2, <1>3, <1>4, <1>5, <1>6, <1>7

(* The checks together are the promise of the flags. *)
LEMMA EvaluateIsTolerated ==
    ASSUME NEW kind \in VerifyKinds, NEW r, r # NoRecord, Holds(r, kind), ModesKnown(modes)
    PROVE  Passed(evaluate(r, modes, Expected)) <=> Tolerated(kind)
  <1> DEFINE v == evaluate(r, modes, Expected)
  <1>1. /\ v["ticket_created"] = _check_ticket_created(r)
        /\ v["sender"] = _check_sender(r)
        /\ v["subject"] = _check_subject(r, modes)
        /\ v["body"] = _check_body(r, modes, Expected)
        /\ v["attachments"] = _check_attachments(r, modes, Expected)
        /\ v["routing"] = _check_routing(r, modes)
    BY DEF evaluate
  <1> HIDE DEF v
  <1>2. Passed(v) <=>
            /\ v["ticket_created"] # "failed" /\ v["sender"] # "failed" /\ v["subject"] # "failed"
            /\ v["body"] # "failed" /\ v["attachments"] # "failed" /\ v["routing"] # "failed"
    BY DEF Passed, Failures, Checks
  <1>3. Tolerated(kind) <=>
            /\ kind # "wrong"
            /\ kind = "wrapped" => modes.subject_match # "exact"
            /\ kind = "quoted" => modes.subject_match = "contains"
            /\ kind = "wrapped" => ~modes.body_exact
            /\ kind = "renamed" => modes.attachment_match = "loose"
            /\ kind # "blind" => modes.route \in {"", IF kind = "misrouted" THEN "sales" ELSE "support"}
    BY DEF Tolerated
  <1> QED BY <1>1, <1>2, <1>3, ChecksOfKind DEF v

(* A tag passes exactly when it has one record and the flags tolerate it. *)
LEMMA TagPasses ==
    ASSUME RunInv, command.tool = "verify", ModesKnown(modes), NEW t \in DOMAIN seen
    PROVE  Passed(evaluate_sequence(seen[t], modes, Expected)) <=>
                Len(seen[t]) = 1 /\ Tolerated(seen[t][1].kind)
  <1> DEFINE records == seen[t]
             first == evaluate(IF records = <<>> THEN NoRecord ELSE records[1], modes, Expected)
             v == evaluate_sequence(records, modes, Expected)
  <1>1. records \in Seq(Filed(t)) /\ t \in Range(plan)
    BY DEF RunInv, SeenOK
  <1>2. Len(records) \in Nat /\ (Len(records) = 0 <=> records = <<>>)
        /\ (Len(records) # 0 => records[1] \in Filed(t))
    <2> HIDE DEF records
    <2> QED BY <1>1
  <1>3. t[1] = "verify"
    <2>1. Range(plan) \subseteq TagsOf("verify")
      BY RangeOfList DEF RunInv, PlanOK
    <2> QED BY <1>1, <2>1 DEF TagsOf
  <1>4. \A kind \in Kinds["verify"] : kind \in VerifyKinds /\ RecordOf(kind, t) # NoRecord
    <2>1. PICK c \in Commands : c.tool = "verify" /\ plan = PlanOf(c)
      BY DEF RunInv, PlanOK
    <2> QED BY <1>1, <2>1, KindsAssumption DEF VerifyKinds
  <1>5. DOMAIN first = {"ticket_created", "sender", "subject", "body", "attachments", "routing"}
    BY DEF evaluate
  <1>6. v = IF Len(records) > 1 THEN [first EXCEPT !.ticket_created = "failed"] ELSE first
    BY DEF evaluate_sequence
  <1>10. \A n \in Nat : (n = 0 \/ n = 1 \/ n > 1) /\ (n > 1 => n # 1)
    OBVIOUS
  <1>7. CASE Len(records) = 0
    <2>1. v = evaluate(NoRecord, modes, Expected)
      BY <1>2, <1>6, <1>7
    <2>2. v["ticket_created"] = "failed"
      BY <2>1 DEF evaluate, _check_ticket_created, Passes
    <2>3. ~Passed(v)
      <3> HIDE DEF v
      <3> QED BY <2>2 DEF Passed, Failures, Checks
    <2> QED BY <1>7, <2>3
  <1>8. CASE Len(records) > 1
    <2>1. v["ticket_created"] = "failed"
      <3> HIDE DEF first
      <3> QED BY <1>5, <1>6, <1>8
    <2>2. ~Passed(v)
      <3> HIDE DEF v
      <3> QED BY <2>1 DEF Passed, Failures, Checks
    <2>3. Len(records) # 1
      BY <1>2, <1>8, <1>10, Zenon
    <2> QED BY <2>2, <2>3, Zenon
  <1>9. CASE Len(records) = 1
    <2>1. v = evaluate(records[1], modes, Expected)
      BY <1>2, <1>6, <1>9
    <2>2. PICK kind \in Kinds["verify"] : records[1] = RecordOf(kind, t)
      BY <1>2, <1>9 DEF Filed
    <2>3. kind \in VerifyKinds /\ records[1] # NoRecord /\ Holds(records[1], kind)
      BY <1>3, <1>4, <2>2, RecordHolds
    <2>4. records[1].kind = kind
      BY <2>3 DEF Holds
    <2>5. Passed(evaluate(records[1], modes, Expected)) <=> Tolerated(kind)
      BY <2>3, EvaluateIsTolerated
    <2> QED BY <1>9, <2>1, <2>4, <2>5
  <1> QED BY <1>2, <1>7, <1>8, <1>9, <1>10, Zenon

(* The tags asked about are finitely many. *)
LEMMA SeenIsFinite ==
    ASSUME RunInv
    PROVE  IsFiniteSet(DOMAIN seen)
  <1>1. Len(plan) \in Nat /\ DOMAIN plan = 1..Len(plan)
    BY DEF RunInv, PlanOK
  <1>2. IsFiniteSet(1..Len(plan))
    BY <1>1, FS_Interval
  <1>3. plan \in Surjection(1..Len(plan), Range(plan))
    <2>1. plan \in [1..Len(plan) -> Range(plan)]
      <3>1. plan = [i \in 1..Len(plan) |-> plan[i]]
        BY <1>1 DEF RunInv, PlanOK
      <3> QED BY <1>1, <3>1 DEF Range
    <2>2. \A t \in Range(plan) : \E i \in 1..Len(plan) : plan[i] = t
      BY <1>1 DEF Range
    <2> QED BY <2>1, <2>2 DEF Surjection
  <1>4. IsFiniteSet(Range(plan))
    BY <1>2, <1>3, FS_Surjection
  <1>5. DOMAIN seen \subseteq Range(plan)
    BY DEF RunInv, SeenOK
  <1> QED BY <1>4, <1>5, FS_Subset

(* verify exits 0 exactly when the readback settled and no tag failed. *)
LEMMA VerifiedIsNoFailure ==
    ASSUME RunInv, Judged, command.tool = "verify"
    PROVE  exit = EXIT_OK <=> outcome = "settled" /\ FailedTags(seen, modes) = {}
  <1> DEFINE F == FailedTags(seen, modes)
             D == DOMAIN seen \ F
  <1>1. IsFiniteSet(F) /\ IsFiniteSet(D)
    BY SeenIsFinite, FS_Subset DEF FailedTags
  <1>2. verdict = VerdictOf(outcome, seen, modes) /\ exit = exit_code_for(verdict)
        /\ outcome \in {"settled", "unsettled", "failed"}
    BY DEF RunInv, Graded
  <1>3. Cardinality(F) \in Nat /\ Cardinality(D) \in Nat /\ (Cardinality(F) = 0 <=> F = {})
    BY <1>1, FS_CardinalityType, FS_EmptySet
  <1>4. exit = EXIT_OK <=> verdict \in {"VERIFIED", "NOTHING CHECKED"}
    BY <1>2, Codes DEF exit_code_for
  <1>5. VerdictOf(outcome, seen, modes) =
            IF outcome = "failed" THEN "READBACK FAILED"
            ELSE IF outcome = "unsettled" THEN "UNSETTLED"
            ELSE IF Cardinality(D) + Cardinality(F) = 0 THEN "NOTHING CHECKED"
            ELSE IF Cardinality(F) = 0 THEN "VERIFIED" ELSE "MISMATCHED"
    BY DEF VerdictOf
  <1> HIDE DEF F, D
  <1>6. Cardinality(D) + Cardinality(F) = 0 => Cardinality(F) = 0
    BY <1>3
  <1>7. exit = EXIT_OK <=> outcome = "settled" /\ F = {}
    BY <1>2, <1>3, <1>4, <1>5, <1>6
  <1> QED BY <1>7 DEF F

(* What the invariant says of a verdict: it is right about what was read,  *)
(* and saying it again about the same records says the same.               *)
LEMMA VerifyIsRightFollows == RunInv => VerifyIsRight
  <1> SUFFICES ASSUME RunInv PROVE VerifyIsRight
    OBVIOUS
  <1>1. ExitIsRight
    <2> SUFFICES ASSUME Judged, command.tool = "verify"
                 PROVE  exit = EXIT_OK <=>
                            /\ outcome = "settled"
                            /\ \A t \in DOMAIN seen : Len(seen[t]) = 1 /\ Tolerated(seen[t][1].kind)
      BY DEF ExitIsRight
    <2>1. ModesKnown(modes)
      BY DEF RunInv, ModesOK, Judged
    <2>2. FailedTags(seen, modes) = {} <=>
            \A t \in DOMAIN seen : Passed(evaluate_sequence(seen[t], modes, Expected))
      BY DEF FailedTags
    <2>3. \A t \in DOMAIN seen :
            Passed(evaluate_sequence(seen[t], modes, Expected)) <=>
                Len(seen[t]) = 1 /\ Tolerated(seen[t][1].kind)
      BY <2>1, TagPasses
    <2> QED BY <2>2, <2>3, VerifiedIsNoFailure
  <1>2. RecheckAgrees
    <2> SUFFICES ASSUME command.sub = "check", Judged, command.modes = <<>>,
                        outcome = saved.outcome, seen = saved.readback
                 PROVE  verdict = saved.verdict /\ exit = saved.exit
      BY DEF RecheckAgrees
    <2>1. saved # NoArtifact /\ command.tool = "verify" /\ modes = saved.modes
      BY DEF RunInv, Checking, Judged
    <2>2. verdict = VerdictOf(outcome, seen, modes) /\ exit = exit_code_for(verdict)
          /\ outcome \in {"settled", "unsettled", "failed"}
      BY <2>1 DEF RunInv, Graded
    <2>3. saved.verdict # "ABORTED"
      BY <2>1, <2>2 DEF RunInv, SavedOK
    <2>4. saved.verdict = VerdictOf(saved.outcome, saved.readback, saved.modes)
          /\ saved.exit = exit_code_for(saved.verdict)
      BY <2>1, <2>3 DEF RunInv, SavedGrade
    <2>5. verdict = saved.verdict
      BY <2>1, <2>2, <2>4
    <2> QED BY <2>2, <2>4, <2>5
  <1> QED BY <1>1, <1>2 DEF VerifyIsRight

(* VerifyIsRight, for every command line and every store: a verify run, or *)
(* a check of one, exits 0 exactly when its readback settled and every     *)
(* message it asked about has one record that the match flags tolerate;    *)
(* and a check without flags that reads the same says the same.            *)
THEOREM VerifyIsRightHolds == Spec => []VerifyIsRight
  BY RunInvariant, VerifyIsRightFollows, PTL
=============================================================================
