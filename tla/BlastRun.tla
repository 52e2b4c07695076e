------------------------------ MODULE BlastRun ------------------------------
(***************************************************************************)
(* cli/blast.py's fire and replay and cli/barrage.py's compare, as a user  *)
(* runs them one after the other: a run that writes the first artifact, a  *)
(* second run or a replay of the first that writes the second, and a       *)
(* comparison of the two.  Artifacts that older, newer or other tools      *)
(* wrote may be there instead, and two of barrage's.                       *)
(*                                                                         *)
(* The endpoint answers a request as it likes, or not at all before the    *)
(* request times out.  Ctrl-C lands between two requests or in one.        *)
(***************************************************************************)
EXTENDS BlastReport, Guardrails, LoadReport

CONSTANTS
    DEFAULT_COUNT, \* the size of a corpus that names none
    DEFAULT_MIX,   \* the weights of a corpus that names none, by category
    CaseCategory,  \* the category of each case of the catalog
    Requests,      \* what a user may ask of fire: the corpus options
    Configured,    \* the targets of the config file
    Answers,       \* what the endpoint may answer
    OldFiles,      \* first artifacts that this build's fire did not write
    LoadFiles      \* barrage artifacts

ASSUME AnswersAssumption == Answers \subseteq [status : STATUS_CLASSES, sorry : BOOLEAN]

(* The weights of corrupt.py's DEFAULT_MIX are whole percentages: they add *)
(* up, and an artifact has a place for each.                               *)
ASSUME DefaultMixAssumption ==
    parse_mix(DEFAULT_MIX) # CorpusError /\ \A i \in DOMAIN DEFAULT_MIX : DEFAULT_MIX[i] % Place = 0

(* An artifact of blast that this session did not write has the records    *)
(* build_record makes: in order, and graded by their responses.            *)
ASSUME FilesAssumption ==
    /\ \A file \in LoadFiles : file.tool = "barrage"
    /\ \A file \in OldFiles : file.tool = "blast" =>
        /\ file.records \in Seq(Range(file.records))
        /\ \A i \in DOMAIN file.records :
              LET record == file.records[i]
              IN  /\ record.id[3] = i
                  /\ record.response \in [status : STATUS_CLASSES, body_failure : BOOLEAN]
                  /\ record.response.body_failure => record.response.status = "2xx"
                  /\ record.passed \in BOOLEAN
                  /\ record.passed <=> StatusOnlyMatcher(record.response) /\ ~flagged(record)

VARIABLES
    step,     \* which command of the session is next or running: 1, 2, 3
    pc,       \* "idle", "send" or "in flight"
    cmd,      \* the running command's arguments and what it made of them
    records,  \* the records of the running command
    wire,     \* history: the payloads the running command sent
    files,    \* the two artifacts
    code,     \* the exit code of the last command
    diff      \* what compare reported: <<>> or <<report>>

blastVars == <<step, pc, cmd, records, wire, files, code, diff>>

EXIT_OK == 0
EXIT_REFUSED == 1
EXIT_DRY_RUN == 2
EXIT_FINDING == 3
NoCode == 9

NoFile == [tool |-> "none"]
NoCommand == [name |-> "none"]

BlastOff ==
    /\ step = 4
    /\ pc = "idle"
    /\ cmd = NoCommand
    /\ records = <<>>
    /\ wire = <<>>
    /\ files = <<NoFile, NoFile>>
    /\ code = NoCode
    /\ diff = <<>>

BlastInit ==
    /\ \/ step = 1 /\ files = <<NoFile, NoFile>>
       \/ step = 2 /\ \E old \in OldFiles : files = <<old, NoFile>>
       \/ step = 3 /\ \E a, b \in LoadFiles : files = <<a, b>>
       \/ step = 3 /\ \E a \in OldFiles, b \in OldFiles \cup LoadFiles : files = <<a, b>>
    /\ pc = "idle"
    /\ cmd = NoCommand
    /\ records = <<>>
    /\ wire = <<>>
    /\ code = NoCode
    /\ diff = <<>>

Returns(c) ==
    /\ code' = c
    /\ step' = step + 1
    /\ pc' = "idle"

-----------------------------------------------------------------------------
(* _plan_from_args: the plan, or CorpusError.  A catalog goes with no other *)
(* option.                                                                 *)
_plan_from_args(r) ==
    LET mix == IF r.mix = NoMix THEN <<NoMix>> ELSE parse_mix(r.mix)
    IN  IF r.catalog # <<>>
        THEN IF r.count # None \/ r.mix # NoMix \/ r.attachments # "unset" THEN CorpusError
             ELSE CorpusPlan([seed |-> r.seed, count |-> Len(r.catalog), mix |-> NoMix,
                              attachments |-> "seeded", catalog |-> r.catalog])
        ELSE IF mix = CorpusError THEN CorpusError
        ELSE CorpusPlan([seed |-> r.seed, mix |-> mix[1], catalog |-> <<>>,
                         count |-> IF r.count = None THEN DEFAULT_COUNT ELSE r.count,
                         attachments |-> IF r.attachments = "unset" THEN "seeded" ELSE r.attachments])

(* What the artifact says of the run. *)
RunConfig(plan, dry_run, target, fail_on_body) ==
    LET asked == [dry_run |-> dry_run, target |-> target, fail_on_body |-> fail_on_body]
        corpus == config_of(plan, DEFAULT_MIX)
    IN  [key \in DOMAIN asked \cup DOMAIN corpus |->
            IF key \in DOMAIN asked THEN asked[key] ELSE corpus[key]]

(* Mutant: what was allowed for the saved run is allowed for its replay. *)
ResolvedBefore(target, allow_public_target) == target \in Configured

(* resolve_for_send, before anything is announced, and again in _run_fire. *)
Permitted(target, allow_public_target) ==
    resolve_target(target, Configured, allow_public_target, FALSE)

(* Every address of a generated payload is on a reserved domain, but a     *)
(* corpus of no payloads has none to show.                                 *)
_require_synthetic_corpus(pairs) ==
    require_synthetic_content([i \in DOMAIN pairs |-> <<"synthetic">>])

(* _cmd_fire and _cmd_replay from the plan on.  A pattern that is no       *)
(* regular expression, and a send that is not permitted, refuse; a dry run *)
(* of fire leaves an artifact, one of replay leaves none.                  *)
FireOrReplay(name, plan, send, target, allow, fail_on_body) ==
    LET pairs == build(plan, DEFAULT_MIX, CaseCategory)
        config(dry) == RunConfig(plan, dry, IF dry THEN <<>> ELSE target, fail_on_body)
        going == /\ fail_on_body # "invalid"
                 /\ send => _require_synthetic_corpus(pairs) /\ Permitted(target, allow)
    IN  /\ cmd' = [name |-> name, send |-> send, target |-> target, allow |-> allow,
                   pairs |-> pairs, config |-> config(FALSE), corpus |-> TRUE]
        /\ records' = <<>>
        /\ wire' = <<>>
        /\ UNCHANGED diff
        /\ \/ ~going /\ Returns(EXIT_REFUSED) /\ UNCHANGED files
           \/ /\ going
              /\ ~evaluate_send(send)
              /\ Returns(EXIT_DRY_RUN)
              /\ files' = IF name = "replay" THEN files
                          ELSE [files EXCEPT ![step] = build_dry_run_artifact(config(TRUE), pairs)]
           \/ /\ going
              /\ evaluate_send(send)
              /\ pc' = "send"
              /\ UNCHANGED <<step, files, code>>

Declined(name) ==
    /\ Returns(EXIT_REFUSED)
    /\ cmd' = [name |-> name, send |-> FALSE, corpus |-> FALSE]
    /\ records' = <<>>
    /\ wire' = <<>>
    /\ UNCHANGED <<files, diff>>

Fire(r, send, target, allow, fail_on_body) ==
    /\ pc = "idle"
    /\ step \in {1, 2}
    /\ IF _plan_from_args(r) = CorpusError THEN Declined("fire")
       ELSE FireOrReplay("fire", _plan_from_args(r)[1], send, target, allow, fail_on_body)

(* What a record has that was saved without its payload's hash. *)
NoHash == <<>>

(* Mutant: what is rebuilt is taken for what was sent. *)
Trusted(pairs, saved) == TRUE

(* The rebuilt corpus agrees with every hash that the saved run has. *)
ByteIdentical(pairs, saved) ==
    \A i \in DOMAIN pairs \cap DOMAIN saved : saved[i].payload_sha256 \in {NoHash, pairs[i].payload}

(* The plan of a saved run, or CorpusError. *)
Rebuilt(file) ==
    LET plan == from_config(file.seed, file.config)
    IN  IF plan = CorpusError THEN CorpusError
        ELSE IF ByteIdentical(build(plan[1], DEFAULT_MIX, CaseCategory), file.records) THEN plan
        ELSE CorpusError

(* The target and, unless the flag overrides it, the pattern are those of  *)
(* the saved run.  Which tool wrote it is not asked: a seed and a count    *)
(* are.                                                                    *)
Replay(send, allow, flag) ==
    /\ pc = "idle"
    /\ step = 2
    /\ LET saved == files[1]
       IN  IF \/ saved = NoFile
              \/ saved.schema_version > SCHEMA_VERSION
              \/ saved.config.count = None
              \/ Rebuilt(saved) = CorpusError
           THEN Declined("replay")
           ELSE FireOrReplay("replay", Rebuilt(saved)[1], send, saved.config.target, allow,
                             IF flag = "none" THEN saved.config.fail_on_body ELSE flag)

(* _fire_corpus: the next request goes out... *)
Post ==
    /\ pc = "send"
    /\ Len(records) < Len(cmd.pairs)
    /\ wire' = Append(wire, cmd.pairs[Len(records) + 1].payload)
    /\ pc' = "in flight"
    /\ UNCHANGED <<step, cmd, records, files, code, diff>>

(* Mutant: every answer is recorded as that to the first payload. *)
RecordsTheFirst(answer) ==
    /\ records' = Append(records,
                    build_record(cmd.pairs[1], cmd.config.seed, Len(records) + 1,
                                 response_from_transport(answer, cmd.config.fail_on_body)))
    /\ pc' = "send"

(* ... and its answer, or the lack of one, is recorded. *)
Recorded(answer) ==
    /\ records' = Append(records,
                    build_record(cmd.pairs[Len(records) + 1], cmd.config.seed, Len(records) + 1,
                                 response_from_transport(answer, cmd.config.fail_on_body)))
    /\ pc' = "send"

Respond ==
    /\ pc = "in flight"
    /\ \E answer \in Answers : Recorded(answer)
    /\ UNCHANGED <<step, cmd, wire, files, code, diff>>

(* Mutant: an interrupted run exits by its flags. *)
ExitByFlags(artifact) == IF artifact.summary.flags # {} THEN EXIT_FINDING ELSE EXIT_OK

ExitOf(artifact) ==
    IF artifact.aborted \/ artifact.summary.flags # {} THEN EXIT_FINDING ELSE EXIT_OK

(* The end of _run_fire. *)
EndRun(aborted) ==
    LET artifact == build_artifact(cmd.config, records, aborted)
    IN  /\ files' = [files EXCEPT ![step] = artifact]
        /\ Returns(ExitOf(artifact))
        /\ UNCHANGED <<cmd, records, wire, diff>>

RunComplete == pc = "send" /\ Len(records) = Len(cmd.pairs) /\ EndRun(FALSE)

BlastInterrupt == pc \in {"send", "in flight"} /\ EndRun(TRUE)

-----------------------------------------------------------------------------
(* compare_paths: the report, or <<>> when the pair is refused. *)
compare_paths(a, b) ==
    IF a.tool # b.tool \/ a.tool \notin {"blast", "barrage"} THEN <<>>
    ELSE IF a.tool = "barrage"
    THEN IF validate(a) /\ validate(b) THEN load_compare(a, b) ELSE <<>>
    ELSE IF validate_artifact(a) /\ validate_artifact(b) THEN compare(a, b) ELSE <<>>

(* record_exit_code *)
record_exit_code(report, fail_on_regression) ==
    IF fail_on_regression /\ report.regressions # {} THEN EXIT_FINDING ELSE EXIT_OK

Compare(fail_on_regression) ==
    /\ pc = "idle"
    /\ step = 3
    /\ LET report == compare_paths(files[1], files[2])
       IN  /\ diff' = report
           /\ Returns(IF report = <<>> THEN EXIT_REFUSED
                      ELSE record_exit_code(report[1], fail_on_regression))
    /\ cmd' = [name |-> "compare", fail_on_regression |-> fail_on_regression]
    /\ UNCHANGED <<records, wire, files>>

FireAny ==
    \E r \in Requests, send, allow \in BOOLEAN, target \in Configured \cup {<<>>},
       pattern \in {"none", "pattern", "invalid"} : Fire(r, send, target, allow, pattern)

ReplayAny ==
    \E send, allow \in BOOLEAN, flag \in {"none", "pattern", "invalid"} : Replay(send, allow, flag)

CompareAny == \E fail_on_regression \in BOOLEAN : Compare(fail_on_regression)

BlastCommand == FireAny \/ ReplayAny \/ CompareAny

BlastTool == Post \/ Respond \/ RunComplete

BlastNext == BlastCommand \/ BlastTool \/ BlastInterrupt
=============================================================================
