---------------------------- MODULE Expectations ----------------------------
(***************************************************************************)
(* The content checks of pipeline/expectations.py: what a stored record is  *)
(* graded against, and the six checks over it.                              *)
(*                                                                          *)
(* A text field of a record is kept as its relation to the expected text    *)
(* after normalisation, which is all a check looks at.  An attachment name  *)
(* is its folded basename and the key the loose comparison reduces it to.   *)
(***************************************************************************)
EXTENDS Naturals, Sequences, SequencesExt, Bags

CONSTANT NoRecord

Checks == {"ticket_created", "sender", "subject", "body", "attachments", "routing"}
SkipReasons == {"no record", "not visible", "nothing to check", "no expected route"}
Results == {"passed", "failed"} \cup SkipReasons

SubjectModes == {"exact", "contains", "suffix"}
AttachmentModes == {"exact", "loose"}

(* What is in a text field, as the expected text sees it. *)
Texts == {"equal", "ends with it", "contains it", "other"}

(* validate_match_modes *)
ModesKnown(modes) ==
    modes.subject_match \in SubjectModes /\ modes.attachment_match \in AttachmentModes

(* Readback.has: a field counts when the adapter could see it. *)
Has(record, field) == field \in record.fields

Same(a, b) == IF a = b THEN "passed" ELSE "failed"
Passes(ok) == IF ok THEN "passed" ELSE "failed"

-----------------------------------------------------------------------------
_check_ticket_created(record) == Passes(record # NoRecord /\ record.exists)

(* A check of one field: skipped without a record or without the field. *)
OfField(record, field, outcome) ==
    IF record = NoRecord THEN "no record"
    ELSE IF ~Has(record, field) THEN "not visible"
    ELSE outcome

_check_sender(record) ==
    IF record = NoRecord THEN "no record"
    ELSE OfField(record, "from_addr", Same(record.sender, "equal"))

(* How far a stored subject may differ from the expected one. *)
SubjectOk(mode, text) ==
    \/ text = "equal"
    \/ mode # "exact" /\ text = "ends with it"
    \/ mode = "contains" /\ text = "contains it"

_check_subject(record, modes) ==
    IF record = NoRecord THEN "no record"
    ELSE OfField(record, "subject", Passes(SubjectOk(modes.subject_match, record.subject)))

(* A payload without a body is skipped: nothing is contained in anything.  *)
(* Tags are stripped from a stored body first, so markup alone is no       *)
(* difference.                                                             *)
_check_body(record, modes, expected) ==
    IF record = NoRecord THEN "no record"
    ELSE OfField(record, "body",
            IF expected.body = "empty" THEN "nothing to check"
            ELSE Passes(record.body = "equal" \/ (~modes.body_exact /\ record.body # "other")))

(* Folded basenames as a set, or loose keys as a multiset. *)
BagOf(keys) ==
    [k \in Range(keys) |-> Len(SelectSeq(keys, LAMBDA x : x = k))]
SameNames(mode, expected, actual) ==
    IF mode = "loose"
    THEN BagOf([i \in DOMAIN expected |-> expected[i].key])
            = BagOf([i \in DOMAIN actual |-> actual[i].key])
    ELSE {n.name : n \in Range(expected)} = {n.name : n \in Range(actual)}

_check_attachments(record, modes, expected) ==
    IF record = NoRecord THEN "no record"
    ELSE OfField(record, "attachment_names",
            IF expected.names = <<>> THEN "nothing to check"
            ELSE Passes(SameNames(modes.attachment_match, expected.names, record.names)))

_check_routing(record, modes) ==
    IF modes.route = "" THEN "no expected route"
    ELSE IF record = NoRecord THEN "no record"
    ELSE OfField(record, "route", Same(record.route, modes.route))

-----------------------------------------------------------------------------
(* evaluate: one message against one record, or none. *)
evaluate(record, modes, expected) ==
    [ticket_created |-> _check_ticket_created(record),
     sender         |-> _check_sender(record),
     subject        |-> _check_subject(record, modes),
     body           |-> _check_body(record, modes, expected),
     attachments    |-> _check_attachments(record, modes, expected),
     routing        |-> _check_routing(record, modes)]

(* Mutant: of several records only the first is graded. *)
FirstRecordOnly(records, modes, expected) ==
    evaluate(IF records = <<>> THEN NoRecord ELSE records[1], modes, expected)

(* evaluate_sequence: several records are a failure, whatever the first    *)
(* one looks like.                                                         *)
evaluate_sequence(records, modes, expected) ==
    LET first == evaluate(IF records = <<>> THEN NoRecord ELSE records[1], modes, expected)
    IN  IF Len(records) > 1 THEN [first EXCEPT !.ticket_created = "failed"] ELSE first

(* Verification.failures, .passed, .found *)
Failures(v) == {c \in Checks : v[c] = "failed"}
Passed(v) == Failures(v) = {}

-----------------------------------------------------------------------------
(* The threading checks of redeliver.  A record's in_reply_to is one       *)
(* message id, its references a set of them.                               *)

check_thread_link(record, parent, ancestry) ==
    IF record = NoRecord THEN "no record"
    ELSE IF ~Has(record, "in_reply_to") /\ ~Has(record, "references") THEN "not visible"
    ELSE Passes(/\ Has(record, "in_reply_to") => record.in_reply_to = parent
                /\ Has(record, "references") => {parent} \cup ancestry \subseteq record.references)

check_thread_together(reply, root) ==
    IF reply = NoRecord \/ root = NoRecord THEN "no record"
    ELSE Same(reply.ticket, root.ticket)
=============================================================================
