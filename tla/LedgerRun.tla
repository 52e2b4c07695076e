------------------------------ MODULE LedgerRun ------------------------------
(***************************************************************************)
(* One `ledger fire` run, testinghq/pipeline/ledger.py execute: the        *)
(* adapter is prepared, every message is sent, the store is read back      *)
(* (ReadbackPoll), enumerated for records nobody sent, and what was found  *)
(* is reconciled into a verdict and an exit code.  Ctrl-C can land in any  *)
(* phase, and the pipeline under test goes on filing tickets throughout.   *)
(*                                                                         *)
(* Message t is the one carrying tag t.  Sending takes no time here: the   *)
(* clock is the readback's.                                                *)
(***************************************************************************)
EXTENDS ReadbackPoll

CONSTANTS
    Correct,       \* the records whose content passes every check
    CanEnumerate   \* whether the adapter can list the whole store

ASSUME LedgerAssumption ==
    /\ Correct \subseteq Records
    /\ CanEnumerate \in BOOLEAN

(* The store holds a ticket with the right content. *)
HoldsCorrect(s) == \E i \in DOMAIN s : s[i] \in Correct

(* The pipeline files tickets, fills them in and files copies; a tag that  *)
(* has a correct ticket is not left without one while the run lasts.       *)
ASSUME PipelineAssumption ==
    \A before, after \in Contents :
        <<before, after>> \in Evolves /\ HoldsCorrect(before) => HoldsCorrect(after)

EXIT_OK == 0
EXIT_REFUSED == 1
EXIT_MISMATCH == 3

VARIABLES
    phase,     \* where execute is; "over" once it returned
    sent,      \* how many messages were posted
    adapter,   \* the readback adapter: "none", "open" or "closed"
    stray,     \* what else the store holds: a record under this run's tag
               \* prefix that it never sent, one of another run, or nothing
    listing,   \* what enumerate_store returned: "none", or unsearched,
               \* partial or full
    extra,     \* the listing holds a record under this run's prefix that the
               \* run never sent
    verdict,   \* the artifact's verdict; "none" before there is one
    exit,      \* the exit code; None before there is one
    \* History: what the listing held for a sent tag and the lookups did not.
    late

ledgerVars == <<phase, sent, adapter, stray, listing, extra, verdict, exit, late>>
allVars == <<vars, ledgerVars>>

LedgerInit ==
    /\ Init
    /\ store = [t \in Tags |-> <<>>]
    /\ phase = "prepare"
    /\ sent = 0
    /\ adapter = "none"
    /\ stray \in {"none", "extra", "other_run"}
    /\ listing = "none"
    /\ extra = FALSE
    /\ verdict = "none"
    /\ exit = None
    /\ late = {}

-----------------------------------------------------------------------------
(* Whatever is refused is refused before the first send: a corpus that is  *)
(* not synthetic, a target that does not resolve, an adapter that cannot   *)
(* be built.  An adapter whose preflight fails is closed.                  *)
Refuse ==
    /\ phase = "prepare"
    /\ phase' = "over"
    /\ exit' = EXIT_REFUSED
    /\ adapter' \in {"none", "closed"}
    /\ UNCHANGED <<vars, sent, stray, listing, extra, verdict, late>>

PrepareReadback ==
    /\ phase = "prepare"
    /\ phase' = "send"
    /\ adapter' = "open"
    /\ UNCHANGED <<vars, sent, stray, listing, extra, verdict, exit, late>>

(* send_all: one message after the other; an error is a result like any    *)
(* other, so whether the target answered makes no difference here.         *)
SendMessage ==
    /\ phase = "send"
    /\ sent < NTags
    /\ sent' = sent + 1
    /\ UNCHANGED <<vars, phase, adapter, stray, listing, extra, verdict, exit, late>>

StartReadback ==
    /\ phase = "send"
    /\ sent = NTags
    /\ phase' = "readback"
    /\ UNCHANGED <<vars, sent, adapter, stray, listing, extra, verdict, exit, late>>

(* read_back_all takes a step. *)
Readback ==
    /\ phase = "readback"
    /\ Tool
    /\ UNCHANGED ledgerVars

TimePasses ==
    /\ phase = "readback"
    /\ Tick
    /\ UNCHANGED ledgerVars

(* Mutant: a readback that did not settle is waited for. *)
WaitsForASettledRead ==
    /\ phase = "readback"
    /\ pc = "done" /\ stable
    /\ phase' = "stray search"
    /\ UNCHANGED <<vars, sent, adapter, stray, listing, extra, verdict, exit, late>>

ReadbackReturns ==
    /\ phase = "readback"
    /\ pc = "done"
    /\ phase' = "stray search"
    /\ UNCHANGED <<vars, sent, adapter, stray, listing, extra, verdict, exit, late>>

(* Mutant: the adapter is closed only when the run completes. *)
LeavesAdapterOpen ==
    /\ phase = "readback"
    /\ pc = "failed"
    /\ phase' = "over"
    /\ exit' = EXIT_REFUSED
    /\ UNCHANGED <<vars, sent, adapter, stray, listing, extra, verdict, late>>

(* "ledger: could not complete the run". *)
ReadbackRaises ==
    /\ phase = "readback"
    /\ pc = "failed"
    /\ phase' = "over"
    /\ exit' = EXIT_REFUSED
    /\ adapter' = "closed"
    /\ UNCHANGED <<vars, sent, stray, listing, extra, verdict, late>>

(* enumerate_store.  A listing that fails is not a refusal; one that       *)
(* stopped short may or may not have reached the stray record.             *)
EnumerateStore ==
    /\ phase = "stray search"
    /\ listing' \in IF CanEnumerate THEN {"unsearched", "partial", "full"}
                                   ELSE {"unsearched"}
    /\ \/ listing' = "full" /\ extra' = (stray = "extra")
       \/ listing' = "partial" /\ extra' \in {FALSE, stray = "extra"}
       \/ listing' = "unsearched" /\ extra' = FALSE
    /\ late' = IF listing' = "full"
               THEN {t \in Tags : \E r \in Records :
                        Signature(store[t])[r] > Observed[t][r]}
               ELSE {}
    /\ phase' = "report"
    /\ adapter' = "closed"
    /\ UNCHANGED <<vars, sent, stray, verdict, exit>>

(* Ctrl-C: abort_run grades nothing. *)
Interrupt ==
    /\ phase \in {"send", "readback", "stray search"}
    /\ phase' = "over"
    /\ verdict' = "ABORTED"
    /\ exit' = EXIT_MISMATCH
    /\ adapter' = "closed"
    /\ UNCHANGED <<vars, sent, stray, listing, extra, late>>

-----------------------------------------------------------------------------
(* ledger.account *)

readback_failed == all_404

lost == IF readback_failed THEN {} ELSE missing

duplicated == {t \in Tags : Len(found(t)) > 1}

wrong == {t \in Tags : Len(found(t)) = 1 /\ found(t)[1] \notin Correct}

(* Mutant: a listing that stopped short counts as a search. *)
listed == listing \in {"partial", "full"}

searched == listing = "full"

(* Mutant: balanced forgets that the readback did not settle. *)
AllThere ==
    /\ lost = {}
    /\ duplicated = {}
    /\ wrong = {}
    /\ searched
    /\ ~extra
    /\ ~readback_failed

balanced ==
    /\ lost = {}
    /\ duplicated = {}
    /\ wrong = {}
    /\ searched
    /\ ~extra
    /\ ~unsettled
    /\ ~readback_failed

(* ledger.verdict *)
ToolVerdict ==
    IF readback_failed THEN "READBACK FAILED"
    ELSE IF duplicated # {} \/ extra THEN "UNACCOUNTED"
    ELSE IF unsettled /\ lost # {} THEN "UNSETTLED"
    ELSE IF lost # {} THEN "UNACCOUNTED"
    ELSE IF wrong # {} THEN "MISPARSED"
    ELSE IF unsettled THEN "UNSETTLED"
    ELSE IF ~searched THEN "UNVERIFIED STRAYS"
    ELSE "BALANCED"

(* common.readback_verdict: what the artifact says. *)
ReadbackVerdict ==
    IF readback_failed THEN "READBACK FAILED"
    ELSE IF unsettled THEN "UNSETTLED"
    ELSE ToolVerdict

Report ==
    /\ phase = "report"
    /\ verdict' = ReadbackVerdict
    /\ exit' = IF balanced THEN EXIT_OK ELSE EXIT_MISMATCH
    /\ phase' = "over"
    /\ UNCHANGED <<vars, sent, adapter, stray, listing, extra, late>>

-----------------------------------------------------------------------------
(* The pipeline files a message once it was posted, and may file it again. *)
PipelineFiles(t) ==
    /\ phase \in {"send", "readback", "stray search"}
    /\ t <= sent
    /\ PipelineWrites(t)
    /\ UNCHANGED ledgerVars

LedgerTool ==
    \/ Refuse
    \/ PrepareReadback
    \/ SendMessage
    \/ StartReadback
    \/ Readback
    \/ ReadbackReturns
    \/ ReadbackRaises
    \/ EnumerateStore
    \/ Report

Over == phase = "over" /\ UNCHANGED allVars

LedgerNext ==
    \/ LedgerTool
    \/ TimePasses
    \/ Interrupt
    \/ \E t \in Tags : PipelineFiles(t)
    \/ Over

LedgerSpec == LedgerInit /\ [][LedgerNext]_allVars

(* The process runs and the clock goes on; nobody has to press Ctrl-C. *)
FairLedgerSpec ==
    LedgerSpec /\ WF_allVars(LedgerTool) /\ WF_allVars(TimePasses)

-----------------------------------------------------------------------------
(* Every variable holds a value of its type. *)
LedgerTypeOK ==
    /\ TypeOK
    /\ phase \in {"prepare", "send", "readback", "stray search", "report", "over"}
    /\ sent \in 0..NTags
    /\ adapter \in {"none", "open", "closed"}
    /\ stray \in {"none", "extra", "other_run"}
    /\ listing \in {"none", "unsearched", "partial", "full"}
    /\ extra \in BOOLEAN
    /\ exit \in {None, EXIT_OK, EXIT_REFUSED, EXIT_MISMATCH}
    /\ late \subseteq Tags

(* The exit code, computed from account's `balanced`, and the word in the  *)
(* artifact, computed by verdict and readback_verdict, tell the same story. *)
ExitAgreesWithVerdict ==
    exit = EXIT_OK <=> verdict = "BALANCED"

(* A run exits 0 only when every message it sent is really in the store    *)
(* with correct content, over a store that went quiet, and the store holds *)
(* nothing else under the run's prefix.                                    *)
BalancedIsEarned ==
    exit = EXIT_OK =>
        /\ sent = NTags
        /\ url = "right" \/ NTags = 0
        /\ stray # "extra"
        /\ stable
        /\ \A t \in Tags : HoldsCorrect(store[t])

(* When the last poll that asked every tag began: one the budget cut short *)
(* does not count.                                                         *)
LastCompletePoll == IF exhausted THEN previousStart ELSE pollStart

(* Unseen is not lost: a message is reported as unaccounted for because it *)
(* was not found only after every tag was looked up in two complete polls  *)
(* a quiet window apart that agreed, at a url that is not a plain 404, and *)
(* the store really did not hold it when the last complete poll began -    *)
(* unless its own lookup stopped at max_pages, which account does not ask. *)
UnseenIsNotLost ==
    verdict = "UNACCOUNTED" /\ duplicated = {} /\ ~extra =>
        /\ stable
        /\ complete = 2
        /\ now - quietSince >= QuietWindow
        /\ url = "right"
        /\ \A t \in lost :
              ~answer[t].partial =>
                  store[t] = <<>> \/ changedAt[t] >= LastCompletePoll

(* Exit 1 "only happens before anything is sent or when the per-tag        *)
(* readback itself fails", and no way out of the run leaves the adapter    *)
(* open.                                                                   *)
EndsCleanly ==
    phase = "over" =>
        /\ exit # None
        /\ adapter # "open"
        /\ exit = EXIT_REFUSED => sent = 0 \/ pc = "failed"

(* What a ledger run says at its end is true: exit code, artifact and      *)
(* store agree, a 0 is earned, a refusal sent nothing it could read back,  *)
(* and the adapter is closed.                                              *)
ExitIsEarned ==
    /\ LedgerTypeOK
    /\ ExitAgreesWithVerdict
    /\ BalancedIsEarned
    /\ EndsCleanly

(* Every run ends. *)
RunEnds == <>(phase = "over")

-----------------------------------------------------------------------------
(* Claims of the source's comments that the code does not keep.            *)

(* "every message this run sent was accounted for exactly once, with       *)
(* correct content, and nothing else was found": the listing of a balanced *)
(* run holds no further copy of a message.                                 *)
NothingElseWasFound ==
    exit = EXIT_OK => late = {}

(* "1: refused: guardrail, bad config or bad usage; nothing was sent". *)
RefusedSentNothing ==
    exit = EXIT_REFUSED => sent = 0
=============================================================================
