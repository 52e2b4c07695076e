---------------------------- MODULE BlastReport ----------------------------
(***************************************************************************)
(* core/report.py, which grades the records of a blast run, and            *)
(* compare/runs.py, which compares two run artifacts.                      *)
(*                                                                         *)
(* A response is its status class and whether its body is the one the      *)
(* run's --fail-on-body pattern is there to find.  Flags and warnings are  *)
(* sets of what they are about; their wording is left out.                 *)
(***************************************************************************)
EXTENDS Corpus

STATUS_CLASSES == {"1xx", "2xx", "3xx", "4xx", "5xx", "other", "no_response"}
SCHEMA_VERSION == 1

(* response_from_transport *)
response_from_transport(answer, fail_on_body) ==
    [status       |-> answer.status,
     body_failure |-> answer.status = "2xx" /\ fail_on_body = "pattern" /\ answer.sorry]

classify_record(record) ==
    LET status == record.response.status
    IN  IF record.category = "clean" /\ status # "2xx" THEN "clean_failed"
        ELSE IF status \in {"5xx", "no_response"}
        THEN IF record.category = "degenerate" THEN "degenerate_failed"
             ELSE IF status = "5xx" THEN "server_error" ELSE "no_response"
        ELSE IF record.response.body_failure THEN "body_failed"
        ELSE IF ~record.passed THEN "assertion_failed"
        ELSE "ok"

FLAGGED_OUTCOMES ==
    {"clean_failed", "degenerate_failed", "server_error", "no_response", "body_failed"}

(* flag_for_record: whether the record has one. *)
flagged(record) == classify_record(record) \in FLAGGED_OUTCOMES

(* StatusOnlyMatcher.match *)
StatusOnlyMatcher(response) == response.status \notin {"5xx", "no_response"}

(* build_record: the matcher's word, unless the record is flagged. *)
build_record(item, seed, index, response) ==
    LET record == [id       |-> <<item.category, seed, index>>,
                   category |-> item.category,
                   payload_sha256 |-> item.payload,
                   response |-> response,
                   passed   |-> StatusOnlyMatcher(response)]
    IN  IF flagged(record) THEN [record EXCEPT !.passed = FALSE] ELSE record

(* compute_summary *)
compute_summary(records) ==
    [by_status_class |->
        [name \in STATUS_CLASSES |->
            Cardinality({i \in DOMAIN records : records[i].response.status = name})],
     by_category |->
        [name \in Range(CATEGORIES) |->
            Cardinality({i \in DOMAIN records : records[i].category = name})],
     flags |-> {i \in DOMAIN records : flagged(records[i])}]

(* build_artifact *)
build_artifact(config, records, aborted) ==
    [tool |-> "blast", schema_version |-> SCHEMA_VERSION, seed |-> config.seed,
     config |-> config, summary |-> compute_summary(records), records |-> records,
     aborted |-> aborted]

(* _dry_run_artifact and build_dry_run_artifact: the records of a run that *)
(* asked nobody have no verdict, and its summary no flags.                 *)
build_dry_run_artifact(config, pairs) ==
    LET record(i) ==
            [build_record(pairs[i], config.seed, i,
                          [status |-> "no_response", body_failure |-> FALSE])
             EXCEPT !.passed = TRUE]
        records == [i \in DOMAIN pairs |-> record(i)]
    IN  [tool |-> "blast", schema_version |-> SCHEMA_VERSION, seed |-> config.seed,
         config |-> config, records |-> records, aborted |-> FALSE,
         summary |->
            [by_status_class |-> [name \in STATUS_CLASSES |-> 0],
             by_category |-> compute_summary(records).by_category,
             flags |-> {}]]

-----------------------------------------------------------------------------
(* compare/runs.py *)

(* Mutant: an artifact that sent nothing is as good as another. *)
AnyReadable(file) == file.schema_version <= SCHEMA_VERSION

validate_artifact(file) ==
    file.schema_version <= SCHEMA_VERSION /\ ~file.config.dry_run

(* By id, which every record blast writes has; of two with the same id the *)
(* later one is kept.                                                      *)
_align(records) ==
    [id \in {records[i].id : i \in DOMAIN records} |->
        records[Max({i \in DOMAIN records : records[i].id = id})]]

(* Mutant: an older artifact's attachments count as different ones. *)
AttachmentsAsWritten(a, b) ==
    {key \in {"seed", "count", "mix", "target", "attachments"} : a.config[key] # b.config[key]}

(* What keeps two runs from being a clean A/B of one change. *)
_comparable(a, b) ==
    {key \in {"seed", "count", "mix", "target"} : a.config[key] # b.config[key]}
    \cup {key \in {"attachments"} : recorded_attachments(a.config) # recorded_attachments(b.config)}

(* compare: the difference report, or <<>> when no record aligns. *)
compare(a, b) ==
    LET base == _align(a.records)
        cand == _align(b.records)
        shared == DOMAIN base \cap DOMAIN cand
        before(key) == classify_record(base[key])
        after(key) == classify_record(cand[key])
        moved == {key \in shared : before(key) # after(key)}
    IN  IF shared = {} THEN <<>>
        ELSE <<[warnings    |-> _comparable(a, b)
                                \cup {w \in {"shape"} : DOMAIN base # DOMAIN cand},
                compared    |-> Cardinality(shared),
                unchanged   |-> Cardinality(shared \ moved),
                regressions |-> {key \in moved : before(key) = "ok"},
                fixes       |-> {key \in moved : after(key) = "ok"},
                changes     |-> {key \in moved : "ok" \notin {before(key), after(key)}}]>>
=============================================================================
