----------------------------- MODULE PipelineRun -----------------------------
(***************************************************************************)
(* One command of verify, redeliver or steady, from the command line to the *)
(* exit code, and `verify check` over what a command saved.  The pipeline   *)
(* under test files messages while the tool sends and reads, and Ctrl-C can *)
(* land in any phase.                                                       *)
(*                                                                          *)
(* Reading back is one step here with the outcomes read_back_all returns:   *)
(* settled, and then it saw the store; unsettled, and then it may have      *)
(* missed some; every lookup a 404; or an error.  ReadbackPoll has it poll by poll.  *)
(* A stored record is a kind, and RecordOf says what its fields hold.       *)
(***************************************************************************)
EXTENDS Redelivery, Stability, Guardrails, TLC

CONSTANTS
    Commands,      \* the command lines: tool, flags, target and options
    GivenModes,    \* the match flags `verify check` may be given
    Kinds,         \* tool |-> what the pipeline may make of a message
    Configured,    \* the targets in the config file
    Strays(_),     \* the sets of records nobody sent that the store may hold,
                   \* per command
    StoreLimit     \* tool |-> how many records the pipeline files

EXIT_OK == 0
EXIT_REFUSED == 1
EXIT_DRY_RUN == 2
EXIT_MISMATCH == 3
NoExit == -1

(* How many messages a run says it sent, when it cannot tell. *)
Unknown == -1

NoArtifact == [tool |-> "none"]

DefaultModes ==
    [subject_match |-> "contains", attachment_match |-> "exact", body_exact |-> FALSE, route |-> ""]
ModesGiven ==
    [subject_match : STRING, attachment_match : STRING, body_exact : BOOLEAN, route : STRING]

(* What is given, and the rest for the flags that are not. *)
Filled(given, rest) ==
    [m \in DOMAIN given \cup DOMAIN rest |-> IF m \in DOMAIN given THEN given[m] ELSE rest[m]]

CommandFields ==
    {"tool", "sub", "send", "target", "allow_public_target", "readback", "out", "modes", "count",
     "selected", "retry_after", "families", "repeats", "label_given", "max_dissent", "max_flips"}

(* What argparse lets through: scenarios by name, and match modes by name  *)
(* when a run is checked; steady has no match flags.                       *)
ASSUME CommandAssumption ==
    /\ \A c \in Commands :
        /\ DOMAIN c = CommandFields
        /\ c.tool \in {"verify", "redeliver", "steady"} /\ c.sub = "fire"
        /\ c.modes \in ModesGiven
        /\ c.tool = "steady" => ModesKnown(c.modes)
        /\ c.count \in Int /\ c.repeats \in Int
        /\ c.selected \in Seq(Range(SCENARIOS))
        /\ c.families \in Seq(Seq(STRING))
    /\ \A given \in GivenModes :
        /\ DOMAIN given \subseteq DOMAIN DefaultModes
        /\ Filled(given, DefaultModes) \in ModesGiven /\ ModesKnown(Filled(given, DefaultModes))

VARIABLES
    command,   \* the command line
    plan,      \* the tags it posts, in order
    phase,     \* where it is; "over" once it returned
    posted,    \* how many deliveries were posted
    sent,      \* how many of them the tool holds a result for
    store,     \* what the system under test filed, per tag
    strays,    \* what else it holds
    seen,      \* what the readback returned
    outcome,   \* how the readback ended
    listed,    \* what the stray search returned
    modes,     \* the match modes in force
    adapter,   \* "none", "open" or "closed"
    verdict,
    exit,
    saved      \* the artifact on disk

fileVars == <<store, strays>>
runVars == <<posted, sent, seen, outcome, listed, modes, adapter, verdict, exit, saved>>
vars == <<command, plan, phase, fileVars, runVars>>

-----------------------------------------------------------------------------
(* The plans. *)

(* build_tagged_corpus *)
VerifyTags(count) == [i \in 1..count |-> <<"verify", i>>]

(* build_items and repeat_items: every variant of every family, then the   *)
(* first variant of each again.                                            *)
VariantTags(families) ==
    FlattenSeq([f \in DOMAIN families |->
        [v \in DOMAIN families[f] |-> <<"variant", f, v>>]])
RepeatTags(families, repeats) ==
    IF repeats = 1 THEN <<>>
    ELSE FlattenSeq([f \in DOMAIN families |-> [n \in 1..repeats |-> <<"repeat", f, n>>]])

scenarios == build_scenarios(command.count, command.retry_after, command.selected)

(* The tags posted, in order. *)
PlanOf(c) ==
    CASE c.tool = "verify" -> VerifyTags(c.count)
      [] c.tool = "redeliver" ->
            LET built == build_scenarios(c.count, c.retry_after, c.selected)
            IN  FlattenSeq([k \in DOMAIN built |->
                    [d \in DOMAIN built[k].deliveries |-> built[k].deliveries[d].tag]])
      [] c.tool = "steady" ->
            VariantTags(c.families) \o RepeatTags(c.families, c.repeats)
(* Where each send call of the tool ends: send_all sends everything,       *)
(* send_scenario one scenario.                                             *)
SendEnds ==
    IF command.tool = "redeliver"
    THEN {FoldSet(LAMBDA j, n : n + Len(scenarios[j].deliveries), 0, 1..k) : k \in DOMAIN scenarios}
    ELSE {Len(plan)}

(* What the file of a kind holds: the payload's parse, exact or not. *)
Attachment == <<[name |-> "a.pdf", key |-> "a"]>>
Right(tag) ==
    [exists |-> TRUE,
     fields |-> {"from_addr", "subject", "body", "attachment_names", "route",
                 "in_reply_to", "references", "label"},
     sender |-> "equal", subject |-> "equal", body |-> "equal",
     names |-> Attachment, route |-> "support",
     in_reply_to |-> NoParent, references |-> {}, ticket |-> tag, label |-> NoLabel,
     kind |-> "right"]

(* The threading headers as they were posted. *)
Parent(tag) ==
    IF tag[2] = 1 THEN NoParent
    ELSE IF tag = <<"references", 3>> THEN <<"references", 2>> ELSE <<tag[1], 1>>
Chain(tag) == ({Parent(tag)} \ {NoParent}) \cup (IF tag[2] = 3 THEN {<<tag[1], 1>>} ELSE {})

Threaded(tag) ==
    IF tag[1] \notin {"reply-first", "references"} THEN Right(tag)
    ELSE [Right(tag) EXCEPT !.in_reply_to = Parent(tag), !.references = Chain(tag),
                            !.ticket = <<tag[1], 0>>]

Parsed(kind, tag) ==
    CASE kind = "right"     -> Threaded(tag)
      [] kind = "wrapped"   -> [Right(tag) EXCEPT !.subject = "ends with it", !.body = "contains it"]
      [] kind = "quoted"    -> [Right(tag) EXCEPT !.subject = "contains it"]
      [] kind = "renamed"   -> [Right(tag) EXCEPT !.names = <<[name |-> "a_.pdf", key |-> "a"]>>]
      [] kind = "misrouted" -> [Right(tag) EXCEPT !.route = "sales"]
      [] kind = "wrong"     -> [Right(tag) EXCEPT !.sender = "other"]
      [] kind = "blind"     -> [Right(tag) EXCEPT !.fields = {}]
      [] kind = "shallow"   -> [Threaded(tag) EXCEPT !.references = @ \cap {Threaded(tag).in_reply_to}]
      [] kind = "apart"     -> [Threaded(tag) EXCEPT !.ticket = tag]
      [] kind = "first label"  -> [Right(tag) EXCEPT !.label = 1]
      [] kind = "second label" -> [Right(tag) EXCEPT !.label = 2]
      [] kind = "null label"   -> Right(tag)

(* The kind is kept in the record for the properties to name it. *)
RecordOf(kind, tag) == [Parsed(kind, tag) EXCEPT !.kind = kind]

(* What verify's pipeline makes of a message is one of the kinds that the  *)
(* flags speak of, and no record is the absence of one.                    *)
ASSUME KindsAssumption ==
    /\ Kinds["verify"] \subseteq
            {"right", "wrapped", "quoted", "renamed", "misrouted", "wrong", "blind"}
    /\ \A c \in Commands : \A t \in Range(PlanOf(c)), kind \in Kinds[c.tool] :
            RecordOf(kind, t) # NoRecord

(* What a lookup of a tag returns. *)
Lookup(tag) == [i \in DOMAIN store[tag] |-> RecordOf(store[tag][i], tag)]

(* What the payload's own ground truth says. *)
Expected == [body |-> "text", names |-> Attachment]

-----------------------------------------------------------------------------
Fresh(c) ==
    /\ posted = 0
    /\ sent = 0
    /\ seen = [t \in Range(plan) |-> <<>>]
    /\ outcome = "none"
    /\ listed = {}
    /\ modes = c.modes
    /\ adapter = "none"
    /\ verdict = "none"
    /\ exit = NoExit

Init ==
    /\ command \in Commands
    /\ plan = PlanOf(command)
    /\ phase = "start"
    /\ store = [t \in Range(plan) |-> <<>>]
    /\ strays \in Strays(command)
    /\ saved = NoArtifact
    /\ Fresh(command)

(* The command ends; no way out of it leaves the adapter open. *)
Ends(code, word) ==
    /\ phase' = "over"
    /\ exit' = code
    /\ verdict' = word
    /\ adapter' = IF adapter = "none" THEN "none" ELSE "closed"

Saved(artifact) == IF command.out THEN artifact ELSE saved

-----------------------------------------------------------------------------
(* The command line.  verify and redeliver ask for a readback even for a   *)
(* dry run, steady only for a real one.                                    *)

(* steady: what would read the same for every family is refused unless it  *)
(* was asked for by name.                                                  *)
constant_label_risk(families) == Len(families) >= 2

SteadyAccepts ==
    /\ command.families # <<>>
    /\ command.send => /\ command.max_dissent[1] >= 0
                       /\ command.max_flips # <<>> => command.max_flips[1] >= 0
                       /\ command.repeats >= 1
                       /\ command.label_given \/ ~constant_label_risk(command.families)

Usable ==
    /\ command.readback # "missing" \/ (command.tool = "steady" /\ ~command.send)
    /\ command.tool = "redeliver" =>
            CanBuild(command.count, command.retry_after, command.selected)
    /\ command.tool = "steady" => SteadyAccepts

RefuseUsage ==
    /\ phase = "start"
    /\ ~Usable
    /\ Ends(EXIT_REFUSED, "none")
    /\ UNCHANGED <<command, plan, fileVars, posted, sent, seen, outcome, listed, modes, saved>>

DryRun ==
    /\ phase = "start"
    /\ Usable
    /\ ~evaluate_send(command.send)
    /\ Ends(EXIT_DRY_RUN, "none")
    /\ UNCHANGED <<command, plan, fileVars, posted, sent, seen, outcome, listed, modes, saved>>

(* The address fields of the payloads, all of them made up here. *)
AddressFields == FlattenSeq([i \in DOMAIN plan |-> [f \in 1..4 |-> <<"synthetic">>]])

MayFire ==
    /\ require_synthetic_content(AddressFields)
    /\ command.tool # "steady" => ModesKnown(command.modes)
    /\ resolve_target(command.target, Configured, command.allow_public_target, FALSE)

RefuseRun ==
    /\ phase = "start"
    /\ Usable /\ evaluate_send(command.send)
    /\ ~MayFire
    /\ Ends(EXIT_REFUSED, "none")
    /\ UNCHANGED <<command, plan, fileVars, posted, sent, seen, outcome, listed, modes, saved>>

(* prepare_readback, before the first send. *)
PrepareReadback ==
    /\ phase = "start"
    /\ Usable /\ evaluate_send(command.send) /\ MayFire
    /\ \/ /\ command.readback = "broken"
          /\ Ends(EXIT_REFUSED, "none")
       \/ /\ command.readback # "broken"
          /\ phase' = "send"
          /\ adapter' = "open"
          /\ UNCHANGED <<exit, verdict>>
    /\ UNCHANGED <<command, plan, fileVars, posted, sent, seen, outcome, listed, modes, saved>>

-----------------------------------------------------------------------------
(* Sending, one delivery after the other. *)
SendNext ==
    /\ phase = "send"
    /\ posted < Len(plan)
    /\ posted \in SendEnds => sent = posted
    /\ posted' = posted + 1
    /\ UNCHANGED <<command, plan, phase, fileVars, sent, seen, outcome, listed, modes, adapter,
                   verdict, exit, saved>>

(* Mutant: only the last send call of the run returns. *)
ReturnsAtTheEndOnly ==
    /\ phase = "send"
    /\ posted = Len(plan)
    /\ sent' = posted
    /\ phase' = "readback"
    /\ UNCHANGED <<command, plan, fileVars, posted, seen, outcome, listed, modes, adapter,
                   verdict, exit, saved>>

SendReturns ==
    /\ phase = "send"
    /\ posted \in SendEnds
    /\ sent # posted
    /\ sent' = posted
    /\ phase' = IF posted = Len(plan) THEN "readback" ELSE "send"
    /\ UNCHANGED <<command, plan, fileVars, posted, seen, outcome, listed, modes, adapter,
                   verdict, exit, saved>>

Posted == {plan[i] : i \in 1..posted}

-----------------------------------------------------------------------------
(* What read_back_all may return for the tags asked about. *)
Asked == IF command.sub = "check" THEN saved.tags ELSE Range(plan)

Sees(result, records) ==
    /\ outcome' = result
    /\ seen' = records

Reads ==
    \/ Sees("settled", [t \in Asked |-> Lookup(t)])
    \/ \E late \in {{}} \cup {{t} : t \in Asked} :
            Sees("unsettled", [t \in Asked |-> IF t \in late THEN <<>> ELSE Lookup(t)])
    \/ Sees("failed", [t \in Asked |-> <<>>])

ReadBack ==
    /\ phase = "readback"
    /\ Reads
    /\ IF command.tool = "redeliver"
       THEN phase' = "stray search" /\ UNCHANGED adapter
       ELSE phase' = "judge" /\ adapter' = "closed"
    /\ UNCHANGED <<command, plan, fileVars, posted, sent, listed, modes, verdict, exit, saved>>

(* Mutant: a send that fails ends the run the same way. *)
RaisesAnywhere ==
    /\ phase \in {"send", "readback"}
    /\ Ends(EXIT_REFUSED, "none")
    /\ UNCHANGED <<command, plan, fileVars, posted, sent, seen, outcome, listed, modes, saved>>

(* "could not complete the run" *)
ReadBackRaises ==
    /\ phase = "readback"
    /\ Ends(EXIT_REFUSED, "none")
    /\ UNCHANGED <<command, plan, fileVars, posted, sent, seen, outcome, listed, modes, saved>>

(* enumerate_store: a listing that fails or stops short finds less. *)
EnumerateStore ==
    /\ phase = "stray search"
    /\ listed' \in SUBSET strays
    /\ phase' = "judge"
    /\ adapter' = "closed"
    /\ UNCHANGED <<command, plan, fileVars, posted, sent, seen, outcome, modes, verdict, exit, saved>>

(* Mutant: the artifact lists the whole plan. *)
WholePlan == Range(plan)

(* What the tool holds a result for: verify and steady have nothing before *)
(* send_all returned.                                                      *)
SentTags == {plan[i] : i \in 1..sent}

(* What the aborted artifact says: abort_run's records, and how many were  *)
(* sent.  steady writes its own, without records.                          *)
AbortedArtifact ==
    [tool |-> command.tool, verdict |-> "ABORTED", exit |-> EXIT_MISMATCH,
     count |-> command.count, modes |-> modes, outcome |-> "none", readback |-> <<>>,
     tags |-> IF command.tool = "steady" THEN {} ELSE SentTags,
     sent |-> IF command.tool = "verify" /\ phase = "send" THEN Unknown ELSE sent]

(* Ctrl-C: nothing is graded. *)
Interrupt ==
    /\ phase \in {"send", "readback", "stray search"}
    /\ Ends(EXIT_MISMATCH, "ABORTED")
    /\ saved' = Saved(AbortedArtifact)
    /\ UNCHANGED <<command, plan, fileVars, posted, sent, seen, outcome, listed, modes>>

-----------------------------------------------------------------------------
(* Judging. *)

readback_failed == outcome = "failed"
unsettled == outcome = "unsettled"

(* common.readback_verdict *)
readback_verdict(word) ==
    IF readback_failed THEN "READBACK FAILED" ELSE IF unsettled THEN "UNSETTLED" ELSE word

(* verify.grade *)
grade == [t \in DOMAIN seen |-> evaluate_sequence(seen[t], modes, Expected)]

(* verify.summarize: nothing is counted when every lookup was a 404. *)
summarize ==
    LET failed == {t \in DOMAIN seen : ~Passed(grade[t])}
    IN  [failed   |-> IF readback_failed THEN 0 ELSE Cardinality(failed),
         verified |-> IF readback_failed THEN 0 ELSE Cardinality(DOMAIN seen \ failed)]

(* verify.verdict_of *)
VerifyVerdict ==
    LET summary == summarize
    IN  IF readback_failed THEN "READBACK FAILED"
        ELSE IF unsettled THEN "UNSETTLED"
        ELSE IF summary.verified + summary.failed = 0 THEN "NOTHING CHECKED"
        ELSE IF summary.failed = 0 THEN "VERIFIED" ELSE "MISMATCHED"

(* verify.exit_code_for *)
exit_code_for(word) == IF word \in {"VERIFIED", "NOTHING CHECKED"} THEN EXIT_OK ELSE EXIT_MISMATCH

RedeliverVerdict ==
    readback_verdict(verdict_of(
        judge_run(scenarios, seen, listed, modes, Expected, readback_failed), unsettled))

(* steady.read_labels and _repeat_labels *)
read_labels ==
    [f \in DOMAIN command.families |-> [v \in DOMAIN command.families[f] |->
        [language |-> command.families[f][v],
         label    |-> read_label(seen[<<"variant", f, v>>]).label]]]
_repeat_labels(f) ==
    [n \in 1..command.repeats |-> read_label(seen[<<"repeat", f, n>>]).label]

(* A readback that failed or did not settle fails the gate unjudged. *)
SteadyFails ==
    \/ outcome # "settled"
    \/ gate(read_labels, command.max_dissent, command.max_flips)

Verdict ==
    CASE command.tool = "verify" -> readback_verdict(VerifyVerdict)
      [] command.tool = "redeliver" -> RedeliverVerdict
      [] command.tool = "steady" -> readback_verdict(verdict_for(read_labels))

ExitCode(word) ==
    CASE command.tool = "verify" -> exit_code_for(word)
      [] command.tool = "redeliver" -> IF word = "DELIVERY-SAFE" THEN EXIT_OK ELSE EXIT_MISMATCH
      [] command.tool = "steady" -> IF SteadyFails THEN EXIT_MISMATCH ELSE EXIT_OK

(* redeliver's artifact lists scenarios and steady's families, not records. *)
Artifact(word, code) ==
    [tool |-> command.tool, verdict |-> word, exit |-> code, count |-> command.count,
     modes |-> modes, outcome |-> outcome, readback |-> seen,
     tags |-> IF command.tool = "verify" THEN SentTags ELSE {}, sent |-> sent]

Report ==
    /\ phase = "judge"
    /\ LET word == Verdict
           code == ExitCode(word)
       IN  /\ Ends(code, word)
           /\ saved' = IF command.sub = "check" THEN saved ELSE Saved(Artifact(word, code))
    /\ UNCHANGED <<command, plan, fileVars, posted, sent, seen, outcome, listed, modes>>

-----------------------------------------------------------------------------
(* `verify check`: a saved run is read back again, sending nothing. *)

RunFiles == {"the run's", "unreadable", "blast", "newer schema", "no seed"}

CanRebuild(file) ==
    /\ file = "the run's"
    /\ saved # NoArtifact
    /\ saved.tags # {}
    /\ saved.tags \subseteq Range(VerifyTags(saved.count))

(* Mutant: a flag not given takes the default. *)
DefaultsForTheRest(given) == Filled(given, DefaultModes)

(* A given value wins, then the recorded one, then the default. *)
_recorded_match_modes(given) == Filled(given, Filled(saved.modes, DefaultModes))

CheckRefused ==
    /\ phase = "over"
    /\ command.sub = "fire"
    /\ \E file \in RunFiles : ~CanRebuild(file)
    /\ command' = [command EXCEPT !.sub = "check"]
    /\ adapter' = "none"
    /\ exit' = EXIT_REFUSED
    /\ verdict' = "none"
    /\ outcome' = "none"
    /\ UNCHANGED <<plan, phase, fileVars, posted, sent, seen, listed, modes, saved>>

CheckSavedRun ==
    /\ phase = "over"
    /\ command.sub = "fire"
    /\ CanRebuild("the run's")
    /\ \E given \in GivenModes :
        /\ command' = [command EXCEPT !.sub = "check", !.modes = given]
        /\ modes' = _recorded_match_modes(given)
    /\ phase' = "reread"
    /\ adapter' = "open"
    /\ exit' = NoExit
    /\ verdict' = "none"
    /\ outcome' = "none"
    /\ UNCHANGED <<plan, fileVars, posted, sent, seen, listed, saved>>

Reread ==
    /\ phase = "reread"
    /\ Reads
    /\ phase' = "judge"
    /\ adapter' = "closed"
    /\ UNCHANGED <<command, plan, fileVars, posted, sent, listed, modes, verdict, exit, saved>>

RereadFails ==
    /\ phase = "reread"
    /\ \/ Ends(EXIT_REFUSED, "none")
       \/ Ends(EXIT_MISMATCH, "ABORTED")
    /\ UNCHANGED <<command, plan, fileVars, posted, sent, seen, outcome, listed, modes, saved>>

-----------------------------------------------------------------------------
Records == FoldSet(LAMBDA t, n : n + Len(store[t]), 0, DOMAIN store)

(* What is filed after the command only matters to a check to come. *)
CheckWaits == command.sub = "fire" /\ saved # NoArtifact /\ saved.tool = "verify"

(* The pipeline files a message once it was posted, and may file it again. *)
PipelineFiles ==
    /\ phase \in {"send", "readback", "over"}
    /\ phase = "over" => CheckWaits
    /\ Records < StoreLimit[command.tool]
    /\ \E t \in Posted, kind \in Kinds[command.tool] :
        /\ Len(store[t]) < 2
        /\ store' = [store EXCEPT ![t] = Append(@, kind)]
    /\ UNCHANGED <<command, plan, phase, strays, runVars>>

Tool ==
    \/ RefuseUsage
    \/ DryRun
    \/ RefuseRun
    \/ PrepareReadback
    \/ SendNext
    \/ SendReturns
    \/ ReadBack
    \/ EnumerateStore
    \/ Report
    \/ Reread

Ended == phase = "over" /\ UNCHANGED vars

Next ==
    \/ Tool
    \/ ReadBackRaises
    \/ RereadFails
    \/ Interrupt
    \/ CheckRefused
    \/ CheckSavedRun
    \/ PipelineFiles
    \/ Ended

(* The process goes on, and read_back_all returns; no read has to fail,     *)
(* and nobody has to press Ctrl-C or run a check.                          *)
Spec == Init /\ [][Next]_vars /\ WF_vars(Tool)

-----------------------------------------------------------------------------
(* Every variable holds a value of its type. *)
TypeOK ==
    /\ phase \in {"start", "send", "readback", "stray search", "judge", "reread", "over"}
    /\ posted \in 0..Len(plan)
    /\ sent \in 0..posted
    /\ \A t \in Range(plan) : store[t] \in Seq(Kinds[command.tool]) /\ Len(store[t]) <= 2
    /\ DOMAIN seen \subseteq Range(plan)
    /\ outcome \in {"none", "settled", "unsettled", "failed"}
    /\ listed \subseteq strays
    /\ ModesKnown(modes) \/ exit \in {NoExit, EXIT_REFUSED, EXIT_DRY_RUN}
    /\ adapter \in {"none", "open", "closed"}
    /\ exit \in {NoExit, EXIT_OK, EXIT_REFUSED, EXIT_DRY_RUN, EXIT_MISMATCH}

(* What a verify run may overlook in a record, mode by mode: this is the   *)
(* promise of the match flags, stated without the checks.                  *)
Tolerated(kind) ==
    /\ kind # "wrong"
    /\ kind = "wrapped" => modes.subject_match # "exact" /\ ~modes.body_exact
    /\ kind = "quoted" => modes.subject_match = "contains"
    /\ kind = "renamed" => modes.attachment_match = "loose"
    /\ kind # "blind" => modes.route \in {"", IF kind = "misrouted" THEN "sales" ELSE "support"}

Judged == phase = "over" /\ exit \in {EXIT_OK, EXIT_MISMATCH} /\ verdict # "ABORTED"

(* A verify run, fired or checked, whose readback settled exits 0 exactly  *)
(* when every message it asked about has one record and the flags in force *)
(* tolerate it; one that did not settle never does.                        *)
ExitIsRight ==
    Judged /\ command.tool = "verify" =>
        (exit = EXIT_OK <=>
            /\ outcome = "settled"
            /\ \A t \in DOMAIN seen : Len(seen[t]) = 1 /\ Tolerated(seen[t][1].kind))

(* Checking a saved run again, without flags, over a store that reads the  *)
(* same gives the verdict and the exit code the run gave.                  *)
RecheckAgrees ==
    /\ command.sub = "check" /\ Judged
    /\ command.modes = <<>>
    /\ outcome = saved.outcome /\ seen = saved.readback
    => verdict = saved.verdict /\ exit = saved.exit

(* verify is right about the store, the first time and when a saved run is *)
(* checked again.                                                          *)
VerifyIsRight == ExitIsRight /\ RecheckAgrees

(* A redelivered message must leave one record, a thread one ticket and a  *)
(* full chain of references; and nothing else may carry the run's tags.    *)
(* A settled run is DELIVERY-SAFE exactly then.                            *)
RedeliverIsRight ==
    verdict \in {"DELIVERY-SAFE", "DELIVERY-BUGS"} =>
        /\ outcome = "settled"
        /\ exit = EXIT_OK <=> verdict = "DELIVERY-SAFE"
        /\ verdict = "DELIVERY-SAFE" <=>
            /\ \A t \in Range(plan) : Len(seen[t]) = 1
            /\ \A t \in Range(plan) : seen[t][1].kind = "shallow" => t # <<"references", 3>>
            /\ \A t \in Range(plan) : seen[t][1].kind = "apart" => t[1] \notin {"reply-first", "references"}
            /\ \A t \in Range(plan) : seen[t][1].kind # "wrong"
            /\ \A s \in listed : \/ s.owner = "other run"
                                 \/ s.ticket \in {<<name, 0>> : name \in Range(command.selected)}

(* The labels a steady run read, and what they amount to, counted pair by  *)
(* pair and against every possible majority.                               *)
LabelRead(f, v) ==
    LET records == seen[<<"variant", f, v>>]
    IN  IF records = <<>> THEN NoLabel
        ELSE CASE records[1].kind = "first label" -> 1
               [] records[1].kind = "second label" -> 2
               [] OTHER -> NoLabel

(* A steady run exits 0 exactly when its readback settled, every variant   *)
(* was labelled, no family strays from its best label by more than the     *)
(* gate allows, and no more pairs flip than the other gate allows.         *)
SteadyIsRight ==
    Judged /\ command.tool = "steady" =>
        LET families == command.families
            variants(f) == DOMAIN families[f]
            votes(f, l) == Cardinality({v \in variants(f) : LabelRead(f, v) = l})
            all == MapThenSumSet(LAMBDA f : Len(families[f]), DOMAIN families)
            dissent == MapThenSumSet(LAMBDA f : Len(families[f]) - Max({votes(f, 1), votes(f, 2)}),
                                     DOMAIN families)
            pairs(f) == {p \in variants(f) \X variants(f) : p[1] < p[2]}
            allPairs == UNION {{<<f, p>> : p \in pairs(f)} : f \in DOMAIN families}
            flips == {q \in allPairs : LabelRead(q[1], q[2][1]) # LabelRead(q[1], q[2][2])}
        IN  exit = EXIT_OK <=>
                /\ outcome = "settled"
                /\ \A f \in DOMAIN families : \A v \in variants(f) : LabelRead(f, v) # NoLabel
                /\ dissent * command.max_dissent[2] <= command.max_dissent[1] * all
                /\ \/ command.max_flips = <<>> \/ allPairs = {}
                   \/ Cardinality(flips) * command.max_flips[2] <=
                        command.max_flips[1] * Cardinality(allPairs)

(* The numbers of a steady report fit together: the flips computed from    *)
(* label counts are the pairs found different one by one, within and       *)
(* across languages; there are dissenters exactly when there are flips;    *)
(* one constant label means no flips; and a payload sent again is unsteady *)
(* exactly when its labels differ.                                         *)
SteadyReportAgrees ==
    Judged /\ command.tool = "steady" =>
        LET families == read_labels
            split(f) == _pair_split(families[f])
            flips == MapThenSumSet(LAMBDA f : split(f).same_flips + split(f).cross_flips, DOMAIN families)
            pairs == MapThenSumSet(LAMBDA f : split(f).same + split(f).cross, DOMAIN families)
        IN  /\ flip_rate(families) = <<flips, pairs>>
            /\ dissent_rate(families)[1] = 0 <=> flips = 0
            /\ constant_label(families) # NoLabel => flips = 0
            /\ command.repeats > 1 => \A f \in DOMAIN families :
                    LET labels == _repeat_labels(f)
                        unsteady == repeat_instability(labels, command.repeats)
                    IN  IF NoLabel \in Range(labels) THEN ~Defined(unsteady)
                        ELSE unsteady[1] > 0 <=> Cardinality(Range(labels)) > 1

(* A steady run's exit code is what its labels deserve, and the numbers it *)
(* reports for it fit together.                                            *)
SteadyRunsAreRight == SteadyIsRight /\ SteadyReportAgrees

(* Nothing is posted without --send, at a target the config file does not  *)
(* name, or unless that was allowed at a host with a public address, or    *)
(* without any.  A reserved or a bare name counts as internal unresolved.  *)
SendsAreConsented ==
    posted > 0 =>
        /\ command.send
        /\ command.target \in Configured
        /\ LET host == command.target.host
           IN  /\ host.name \notin {"reserved", "bare", "private literal"}
               /\ "public" \in host.addresses \/ host.addresses = {}
               => command.allow_public_target

(* A refusal never cuts a send short: exit 1 means nothing was posted, or  *)
(* everything was and could not be read back.  A dry run posts nothing and *)
(* opens nothing, and no way out leaves the adapter open.                  *)
EndsCleanly ==
    phase = "over" =>
        /\ exit # NoExit
        /\ adapter # "open"
        /\ exit = EXIT_REFUSED /\ command.sub = "fire" => posted \in {0, Len(plan)}
        /\ exit = EXIT_DRY_RUN => posted = 0 /\ adapter = "none" /\ saved = NoArtifact

(* What an aborted run lists as sent was posted, and a number it gives is  *)
(* not too high.                                                           *)
AbortIsHonest ==
    saved # NoArtifact /\ saved.verdict = "ABORTED" =>
        /\ saved.tags \subseteq Posted
        /\ saved.sent <= posted
        /\ saved.tool = "verify" => saved.sent \in {Unknown, posted}

(* What all three tools promise: they send what they were told to where    *)
(* they were allowed to, say truly what was sent when they are interrupted, *)
(* and whatever happens end with an exit code and a closed adapter.        *)
RunIsHonest ==
    /\ TypeOK
    /\ SendsAreConsented
    /\ EndsCleanly
    /\ AbortIsHonest

(* Every command ends. *)
RunEnds == <>(phase = "over")

-----------------------------------------------------------------------------
(* What a comment claims and the code does not keep: a run interrupted     *)
(* before its send phase returned does not put a number on what went out.  *)
AbortCountIsTrue ==
    saved # NoArtifact /\ saved.verdict = "ABORTED" => saved.sent \in {Unknown, posted}
=============================================================================
