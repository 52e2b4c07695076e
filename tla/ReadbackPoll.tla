---------------------------- MODULE ReadbackPoll ----------------------------
(***************************************************************************)
(* The readback phase every pipeline tool shares:                          *)
(* testinghq/pipeline/common.py, read_back_all and _why_unsettled.         *)
(*                                                                         *)
(* One thread (the tool) polls the system under test, asking for every tag *)
(* in order, until what it sees has held still for the quiet window or the *)
(* --max-wait budget is gone.  Meanwhile the pipeline under test, which is *)
(* not part of the repository, keeps writing its store.                    *)
(*                                                                         *)
(* Time is an integer clock that starts at 0 when read_back_all reads      *)
(* `started`, so the deadline is MaxWait.  It advances only while a lookup *)
(* is in flight or the tool sleeps: the code between two waits takes no    *)
(* time.  A tag's readbacks are a sequence of abstract records, compared   *)
(* the way _signature compares them: as a multiset.                        *)
(***************************************************************************)
EXTENDS Integers, Sequences, FiniteSets

CONSTANTS
    NTags,         \* how many distinct tags are asked for
    Records,       \* the readbacks a lookup can hold, all field values included
    Answers,       \* the lookup results an adapter can return
    Contents,      \* what the store can hold for one tag (sequences of records)
    Evolves,       \* the writes of the pipeline: pairs <<before, after>>
    QuietWindow,   \* --quiet-window
    MaxWait,       \* --max-wait
    PollInterval,  \* the pause between two polls
    Horizon        \* bound: no lookup is answered later than this

Tags == 1..NTags

(* A lookup's HTTP status as FetchResult carries it; "none" for a mailbox  *)
(* or a custom adapter, which has no status.                               *)
Statuses == {"none", "ok", "404"}

ASSUME ConstantsAssumption ==
    /\ NTags \in Nat
    /\ QuietWindow \in Nat
    /\ MaxWait \in Nat
    /\ PollInterval \in Nat \ {0}
    /\ Horizon \in Nat
    /\ Horizon >= MaxWait
    /\ Contents \subseteq Seq(Records)
    /\ <<>> \in Contents
    /\ Evolves \subseteq Contents \X Contents
    /\ Answers \subseteq [records : Seq(Records), partial : BOOLEAN, status : Statuses]

(* Python's None for a clock reading. *)
None == -1

CAUSE_CHANGING == "changing"
CAUSE_NO_TIME == "no_time"

VARIABLES
    now,            \* the clock
    store,          \* what the system under test holds for each tag
    url,            \* "right", or "wrong" when the readback url is a 404 for all
    pc,             \* where read_back_all is
    cursor,         \* the tag being asked
    answer,         \* found / partial: the latest answer for each tag
    statuses,       \* the statuses seen for each tag
    complete,       \* complete polls, saturating at 2: no test of the code
                    \* tells more of them apart
    pollStart,      \* poll_start
    previous,       \* the signature of the last complete poll
    previousStart,  \* when that poll started
    quietSince,     \* quiet_since
    changed,        \* changed
    wakeAt,         \* when the current sleep ends
    exhausted,      \* exhausted
    stable,         \* stable
    cause,          \* cause; "none" while undecided or settled
    \* History variables: no guard and no assignment of the code reads them.
    changedAt,      \* when the store last changed for each tag
    lastDiff,       \* when a lookup last saw something else than the one before
    previousEnd,    \* when the last complete poll ended
    quietEnd        \* when the poll that started at quietSince ended

storeVars == <<store, changedAt>>
toolVars == <<pc, cursor, answer, statuses, complete, pollStart, previous,
              previousStart, quietSince, changed, wakeAt, exhausted, stable,
              cause, lastDiff, previousEnd, quietEnd>>
vars == <<now, url, storeVars, toolVars>>

-----------------------------------------------------------------------------
(* common._signature: the readbacks of one tag, order forgotten. *)
Signature(s) == [r \in Records |-> Cardinality({i \in DOMAIN s : s[i] = r})]

(* The whole observed state, one signature per tag. *)
Observed == [t \in Tags |-> Signature(answer[t].records)]

(* A lookup has been made before (`lookups` is not 0), and a poll has.  A  *)
(* poll that does not complete ends the loop, so `polls` is not 0 at the   *)
(* top of the loop exactly when a poll has completed.                      *)
AskedBefore == complete > 0 \/ cursor > 1

(* Mutant: the run stops when the next pause would reach the deadline. *)
PauseReachesDeadline == now + PollInterval >= MaxWait

(* Mutant: the deadline is never looked at. *)
NoDeadline == FALSE

(* clock() >= deadline *)
BudgetGone == now >= MaxWait

(* The for loop over the tags has another one to ask. *)
MoreTags == cursor <= NTags

(* What an adapter may answer about tag t: the records the store holds, in *)
(* any order; some of them when pagination stopped short; nothing, with a  *)
(* 404, when the url is wrong.                                             *)
Sees(a, t) ==
    IF url = "wrong"
    THEN a.status = "404" /\ a.records = <<>> /\ ~a.partial
    ELSE LET held == Signature(store[t])
             seen == Signature(a.records)
         IN  /\ a.status = "404" => a.records = <<>>
             /\ IF a.partial
                THEN \A r \in Records : seen[r] <= held[r]
                ELSE seen = held

NoAnswer == [records |-> <<>>, partial |-> FALSE, status |-> "none"]

Init ==
    /\ now = 0
    /\ store \in [Tags -> Contents]
    /\ url \in {"right", "wrong"}
    /\ pc = "loop"
    /\ cursor = 1
    /\ answer = [t \in Tags |-> NoAnswer]
    /\ statuses = [t \in Tags |-> {}]
    /\ complete = 0
    /\ pollStart = None
    /\ previous = [t \in Tags |-> Signature(<<>>)]
    /\ previousStart = None
    /\ quietSince = None
    /\ changed = FALSE
    /\ wakeAt = 0
    /\ exhausted = FALSE
    /\ stable = FALSE
    /\ cause = "none"
    /\ changedAt = [t \in Tags |-> None]
    /\ lastDiff = None
    /\ previousEnd = None
    /\ quietEnd = None

-----------------------------------------------------------------------------
(* The pipeline under test writes: a record appears, a field is filled, a  *)
(* second copy lands.                                                      *)
PipelineWrites(t) ==
    /\ \E c \in Contents :
          /\ <<store[t], c>> \in Evolves
          /\ store' = [store EXCEPT ![t] = c]
    /\ changedAt' = [changedAt EXCEPT ![t] = now]
    /\ UNCHANGED <<now, url, toolVars>>

(* read_back_all has returned or raised. *)
Returned == pc \in {"done", "failed"}

StoreWrites(t) == ~Returned /\ PipelineWrites(t)

(* Time passes while a lookup is in flight or the tool sleeps. *)
Tick ==
    /\ now < Horizon
    /\ \/ pc = "fetch"
       \/ pc = "sleep" /\ now < wakeAt
    /\ now' = now + 1
    /\ UNCHANGED <<url, storeVars, toolVars>>

-----------------------------------------------------------------------------
(* The top of the loop: stop when the budget is gone, never before the     *)
(* first poll.                                                             *)
LoopHead ==
    /\ pc = "loop"
    /\ IF complete > 0 /\ BudgetGone
       THEN pc' = "ended" /\ UNCHANGED <<cursor, pollStart>>
       ELSE pc' = "lookup" /\ cursor' = 1 /\ pollStart' = now
    /\ UNCHANGED <<now, url, storeVars, answer, statuses, complete, previous,
                   previousStart, quietSince, changed, wakeAt, exhausted,
                   stable, cause, lastDiff, previousEnd, quietEnd>>

(* The budget is checked before every lookup but the very first. *)
BeginLookup ==
    /\ pc = "lookup"
    /\ MoreTags
    /\ IF AskedBefore /\ BudgetGone
       THEN pc' = "ended" /\ exhausted' = TRUE
       ELSE pc' = "fetch" /\ UNCHANGED exhausted
    /\ UNCHANGED <<now, url, storeVars, cursor, answer, statuses, complete,
                   pollStart, previous, previousStart, quietSince, changed,
                   wakeAt, stable, cause, lastDiff, previousEnd, quietEnd>>

(* adapter.fetch returns. *)
FetchAnswers ==
    /\ pc = "fetch"
    /\ \E a \in Answers :
          /\ Sees(a, cursor)
          /\ answer' = [answer EXCEPT ![cursor] = a]
          /\ statuses' = [statuses EXCEPT ![cursor] = @ \cup {a.status}]
          /\ lastDiff' = IF complete > 0 /\ Signature(a.records) # previous[cursor]
                         THEN now ELSE lastDiff
    /\ cursor' = cursor + 1
    /\ pc' = "lookup"
    /\ UNCHANGED <<now, url, storeVars, complete, pollStart, previous,
                   previousStart, quietSince, changed, wakeAt, exhausted,
                   stable, cause, previousEnd, quietEnd>>

(* The adapter gives up inside a lookup: waiting out a retry or its rate   *)
(* limit would run past the deadline it was bound to.                      *)
FetchRunsOut ==
    /\ pc = "fetch"
    /\ pc' = "ended"
    /\ exhausted' = TRUE
    /\ UNCHANGED <<now, url, storeVars, cursor, answer, statuses, complete,
                   pollStart, previous, previousStart, quietSince, changed,
                   wakeAt, stable, cause, lastDiff, previousEnd, quietEnd>>

(* Any other exception of the adapter is not swallowed. *)
FetchRaises ==
    /\ pc = "fetch"
    /\ pc' = "failed"
    /\ UNCHANGED <<now, url, storeVars, cursor, answer, statuses, complete,
                   pollStart, previous, previousStart, quietSince, changed,
                   wakeAt, exhausted, stable, cause, lastDiff, previousEnd,
                   quietEnd>>

OneMorePoll == IF complete < 2 THEN complete + 1 ELSE 2

(* This complete poll saw what the one before it saw. *)
SameAsPrevious == complete > 0 /\ Observed = previous

(* The start, and the end, of the first of the identical polls. *)
QuietStart == IF quietSince = None THEN previousStart ELSE quietSince
QuietStartEnd == IF quietSince = None THEN previousEnd ELSE quietEnd

HeldForTheWindow == SameAsPrevious /\ now - QuietStart >= QuietWindow

(* Every tag was asked and the state has held for the window: settled. *)
PollSettles ==
    /\ pc = "lookup"
    /\ ~MoreTags
    /\ HeldForTheWindow
    /\ complete' = OneMorePoll
    /\ quietSince' = QuietStart
    /\ quietEnd' = QuietStartEnd
    /\ stable' = TRUE
    /\ pc' = "ended"
    /\ UNCHANGED <<now, url, storeVars, cursor, answer, statuses, pollStart,
                   previous, previousStart, changed, wakeAt, exhausted, cause,
                   lastDiff, previousEnd>>

(* Every tag was asked and the run goes on: the window keeps running when  *)
(* the poll saw nothing new, and is reset when it did.  Then either the    *)
(* budget is gone or the tool sleeps, never past the deadline.             *)
PollContinues ==
    /\ pc = "lookup"
    /\ ~MoreTags
    /\ ~HeldForTheWindow
    /\ complete' = OneMorePoll
    /\ quietSince' = IF SameAsPrevious THEN QuietStart ELSE None
    /\ quietEnd' = IF SameAsPrevious THEN QuietStartEnd ELSE None
    /\ changed' = (changed \/ (complete > 0 /\ Observed # previous))
    /\ previous' = Observed
    /\ previousStart' = pollStart
    /\ previousEnd' = now
    /\ IF BudgetGone
       THEN pc' = "ended" /\ UNCHANGED wakeAt
       ELSE /\ pc' = "sleep"
            /\ wakeAt' = IF now + PollInterval < MaxWait
                         THEN now + PollInterval ELSE MaxWait
    /\ UNCHANGED <<now, url, storeVars, cursor, answer, statuses, pollStart,
                   exhausted, stable, cause, lastDiff>>

Wake ==
    /\ pc = "sleep"
    /\ now >= wakeAt
    /\ pc' = "loop"
    /\ UNCHANGED <<now, url, storeVars, cursor, answer, statuses, complete,
                   pollStart, previous, previousStart, quietSince, changed,
                   wakeAt, exhausted, stable, cause, lastDiff, previousEnd,
                   quietEnd>>

(* Mutant: a poll the budget cut short is thrown away. *)
CutShortIgnored == FALSE

(* A poll the budget cut short still is evidence of a change. *)
CutShortChanged == complete > 0 /\ Observed # previous

(* Mutant: two polls are not asked for before a change is claimed. *)
ChangingAfterOnePoll ==
    IF quietSince = None \/ changed \/ CutShortChanged THEN CAUSE_CHANGING
    ELSE CAUSE_NO_TIME

(* common._why_unsettled *)
WhyUnsettled ==
    IF complete < 2 THEN CAUSE_NO_TIME
    ELSE IF quietSince = None THEN CAUSE_CHANGING
    ELSE IF changed \/ CutShortChanged THEN CAUSE_CHANGING
    ELSE CAUSE_NO_TIME

(* After the loop: a store still quiet when the budget ran out settles. *)
Finish ==
    /\ pc = "ended"
    /\ pc' = "done"
    /\ stable' = (stable \/ (/\ quietSince # None
                             /\ ~CutShortChanged
                             /\ now - quietSince >= QuietWindow))
    /\ cause' = IF stable' THEN "none" ELSE WhyUnsettled
    /\ UNCHANGED <<now, url, storeVars, cursor, answer, statuses, complete,
                   pollStart, previous, previousStart, quietSince, changed,
                   wakeAt, exhausted, lastDiff, previousEnd, quietEnd>>

Tool ==
    \/ LoopHead
    \/ BeginLookup
    \/ FetchAnswers
    \/ FetchRunsOut
    \/ FetchRaises
    \/ PollSettles
    \/ PollContinues
    \/ Wake
    \/ Finish

Terminating == Returned /\ UNCHANGED vars

Next ==
    \/ Tool
    \/ Tick
    \/ \E t \in Tags : StoreWrites(t)
    \/ Terminating

Spec == Init /\ [][Next]_vars

(* The tool's thread runs whenever it can, and time goes on.  That a       *)
(* lookup in flight ends is part of Tool's fairness: every request of the  *)
(* adapters carries a timeout.                                             *)
FairSpec == Spec /\ WF_vars(Tool) /\ WF_vars(Tick)

-----------------------------------------------------------------------------
(* ReadbackOutcome, as the tools read it once pc is "done". *)

found(t) == answer[t].records

missing == {t \in Tags : found(t) = <<>>}

(* Mutant: one 404 per tag is enough. *)
any_404 ==
    /\ NTags > 0
    /\ \A t \in Tags : "404" \in statuses[t]

all_404 ==
    /\ NTags > 0
    /\ \A t \in Tags : statuses[t] = {"404"}

(* Mutant: only a poll cut short makes a run unsettled. *)
budget_exhausted == exhausted

unsettled == ~stable

-----------------------------------------------------------------------------
Times == Nat \cup {None}
Signatures == [Records -> Nat]

(* Every variable holds a value of its type. *)
TypeOK ==
    /\ now \in Nat
    /\ store \in [Tags -> Contents]
    /\ url \in {"right", "wrong"}
    /\ pc \in {"loop", "lookup", "fetch", "sleep", "ended", "done", "failed"}
    /\ cursor \in 1..(NTags + 1)
    /\ pc = "fetch" => cursor \in Tags
    /\ answer \in [Tags -> Answers \cup {NoAnswer}]
    /\ statuses \in [Tags -> SUBSET Statuses]
    /\ complete \in 0..2
    /\ pollStart \in Times
    /\ previous \in [Tags -> Signatures]
    /\ previousStart \in Times
    /\ quietSince \in Times
    /\ wakeAt \in Nat
    /\ changed \in BOOLEAN
    /\ exhausted \in BOOLEAN
    /\ stable \in BOOLEAN
    /\ cause \in {"none", CAUSE_CHANGING, CAUSE_NO_TIME}
    /\ changedAt \in [Tags -> Times]
    /\ lastDiff \in Times
    /\ previousEnd \in Times
    /\ quietEnd \in Times

(* SETTLED means quiet: at least two complete polls agree, the first of    *)
(* them began a whole quiet window ago, and no lookup since that poll      *)
(* ended - in a complete poll or one the budget cut short - saw anything   *)
(* else (read_back_all's rule, and its "SETTLED when the budget runs out   *)
(* over a quiet store" clause).                                            *)
SettledIsQuiet ==
    pc = "done" /\ stable =>
        /\ complete = 2
        /\ now - quietSince >= QuietWindow
        /\ lastDiff <= quietEnd
        /\ Observed = previous

(* "Still changing" is never said of a store nobody saw change: a lookup   *)
(* saw a difference since the last complete poll began, or less than a     *)
(* quiet window ago (the CAUSE_CHANGING clause of read_back_all).          *)
ChangingWasSeen ==
    cause = CAUSE_CHANGING =>
        /\ lastDiff # None
        /\ lastDiff >= previousStart \/ now - lastDiff < QuietWindow

(* UNSETTLED is said only when the budget is spent, or when an adapter     *)
(* bound to it said the next step would not fit.                           *)
UnsettledIsOutOfTime ==
    pc = "done" /\ ~stable => now >= MaxWait \/ exhausted

(* A run whose every lookup was a 404 never found anything, and a url that *)
(* answers 404 to everything is never taken for a store that lost mail:    *)
(* once every tag was asked, all_404 is set.                               *)
WrongUrlIsNoticed ==
    pc = "done" =>
        /\ all_404 => missing = Tags
        /\ url = "wrong" /\ complete > 0 /\ NTags > 0 => all_404

(* read_back_all always returns or raises. *)
Terminates == <>Returned

-----------------------------------------------------------------------------
(* Claims of the source's comments that the code does not keep.            *)

(* "a store that answers the same thing twice has held still since then",  *)
(* then being the start of the first of the two polls: what the tool saw   *)
(* was written before the quiet window it reports began.                   *)
HeldStillSinceTheFirstPollBegan ==
    pc = "done" /\ stable =>
        \A t \in Tags :
            Signature(store[t]) = Observed[t] => changedAt[t] <= quietSince

(* "CAUSE_NO_TIME: nothing was seen changing". *)
NoTimeMeansNothingSeenChanging ==
    cause = CAUSE_NO_TIME => lastDiff = None
=============================================================================
