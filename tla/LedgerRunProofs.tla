--------------------------- MODULE LedgerRunProofs ---------------------------
(***************************************************************************)
(* The first part: what read_back_all promises, for any number of tags,    *)
(* any store history, any quiet window and any budget.  It is about        *)
(* ReadbackPoll alone and uses no assumption of LedgerRun.                 *)
(*                                                                         *)
(* The second: what the exit code and the verdict of a ledger run mean,    *)
(* for any number of messages, any quiet window and budget, any adapter    *)
(* answers and any pipeline that keeps PipelineAssumption.                 *)
(*                                                                         *)
(* The third: that the bucket which paces a run's sends keeps the rate     *)
(* limit.  It is about MeteredBucket alone.                                *)
(***************************************************************************)
EXTENDS LedgerRun, MeteredBucket, FiniteSetTheorems, TLAPS

(* Where the polls lie on the clock. *)
PollTimes ==
    /\ complete > 0 =>
          /\ previousStart # None
          /\ previousStart <= previousEnd
          /\ previousEnd <= now
          /\ pollStart # None
          /\ previousStart <= pollStart
    /\ pc \in {"lookup", "fetch"} => pollStart # None
    /\ pollStart <= now
    /\ lastDiff <= now
    /\ quietSince # None => /\ complete = 2
                            /\ quietSince <= quietEnd
                            /\ quietEnd <= now

(* A tag this poll has not asked yet still has the answer of the last one, *)
(* and between two polls every tag has.                                    *)
NotYetAsked ==
    complete > 0 =>
        /\ pc \in {"loop", "sleep"} => Observed = previous
        /\ pc \in {"lookup", "fetch"} =>
              \A t \in Tags : t >= cursor => Observed[t] = previous[t]

(* What a poll in progress, or cut short, has seen: nothing new since the  *)
(* window began, or a difference in this very poll.                        *)
DifferenceIsDated ==
    complete > 0 =>
        /\ Observed = previous => lastDiff <= QuietStartEnd
        /\ Observed # previous => lastDiff >= pollStart

(* A change seen between complete polls is dated inside the run of polls   *)
(* the window is counted over.                                             *)
ChangeIsDated ==
    /\ changed => complete = 2
    /\ complete = 2 /\ (changed \/ quietSince = None) => lastDiff >= QuietStart

(* What the loop leaves behind when it ends, and what is returned. *)
EndOfLoop ==
    /\ stable =>
          /\ pc \in {"ended", "done"}
          /\ quietSince # None
          /\ now - quietSince >= QuietWindow
          /\ Observed = previous
    /\ pc \in {"ended", "done"} /\ ~stable => now >= MaxWait \/ exhausted
    /\ cause = CAUSE_CHANGING =>
          /\ pc = "done"
          /\ lastDiff # None
          /\ lastDiff >= previousStart \/ now - lastDiff < QuietWindow

(* What the statuses say about the answers and the url. *)
StatusesTell ==
    \A t \in Tags :
        /\ answer[t].status = "404" => answer[t].records = <<>>
        /\ statuses[t] = {} => answer[t] = NoAnswer
        /\ statuses[t] # {} => answer[t].status \in statuses[t]
        /\ url = "wrong" => statuses[t] \subseteq {"404"}
        /\ complete > 0 => statuses[t] # {}
        /\ pc \in {"lookup", "fetch"} /\ t < cursor => statuses[t] # {}

IInv ==
    /\ TypeOK
    /\ PollTimes
    /\ NotYetAsked
    /\ DifferenceIsDated
    /\ ChangeIsDated
    /\ EndOfLoop
    /\ StatusesTell

-----------------------------------------------------------------------------
(* common._signature counts: the multiset of a tag's readbacks is a        *)
(* function from records to numbers.                                       *)
LEMMA SignatureType ==
    ASSUME NEW s \in Seq(Records)
    PROVE  Signature(s) \in Signatures
<1>1. ASSUME NEW r \in Records
      PROVE  Cardinality({i \in DOMAIN s : s[i] = r}) \in Nat
  <2>1. DOMAIN s = 1..Len(s) /\ Len(s) \in Nat
    OBVIOUS
  <2>2. IsFiniteSet(1..Len(s))
    BY <2>1, FS_Interval
  <2>3. IsFiniteSet({i \in DOMAIN s : s[i] = r})
    BY <2>1, <2>2, FS_Subset
  <2>. QED
    BY <2>3, FS_CardinalityType
<1>. QED
  BY <1>1 DEF Signature, Signatures

(* Every answer the tool holds is a sequence of records. *)
LEMMA AnswerRecords ==
    ASSUME NEW a \in Answers \cup {NoAnswer}
    PROVE  a.records \in Seq(Records)
BY ConstantsAssumption DEF NoAnswer

(* The whole observed state has one signature per tag. *)
LEMMA ObservedType ==
    ASSUME TypeOK
    PROVE  Observed \in [Tags -> Signatures]
BY AnswerRecords, SignatureType DEF Observed, TypeOK

(* The constants, as the proofs use them. *)
LEMMA Numbers ==
    /\ NTags \in Nat
    /\ QuietWindow \in Nat
    /\ MaxWait \in Nat
    /\ PollInterval \in Nat
    /\ Horizon \in Nat
BY ConstantsAssumption

(* Types hold at first. *)
LEMMA InitType == Init => TypeOK
<1>. SUFFICES ASSUME Init PROVE TypeOK
  OBVIOUS
<1>1. <<>> \in Seq(Records)
  OBVIOUS
<1>2. Signature(<<>>) \in Signatures
  BY <1>1, SignatureType
<1>3. changed \in BOOLEAN /\ exhausted \in BOOLEAN /\ stable \in BOOLEAN
  BY DEF Init
<1>. QED
  BY <1>2, <1>3, Numbers DEF Init, TypeOK, Tags, Times, None

(* The pipeline under test writes: the store stays a store. *)
LEMMA WritesType ==
    ASSUME TypeOK, NEW t \in Tags, PipelineWrites(t)
    PROVE  TypeOK'
BY Numbers DEF TypeOK, Tags, Times, None, PipelineWrites, toolVars

(* Every step keeps them. *)
LEMMA NextType == TypeOK /\ [Next]_vars => TypeOK'
<1>. SUFFICES ASSUME TypeOK, [Next]_vars PROVE TypeOK'
  OBVIOUS
<1>. USE Numbers DEF TypeOK, Tags, Times, None
<1>1. ASSUME NEW t \in Tags, StoreWrites(t) PROVE TypeOK'
  BY <1>1, WritesType DEF StoreWrites
<1>2. CASE Tick
  BY <1>2 DEF Tick, storeVars, toolVars
<1>3. CASE LoopHead
  BY <1>3 DEF LoopHead, storeVars
<1>4. CASE BeginLookup
  <2>1. exhausted' \in BOOLEAN
    BY <1>4, Zenon DEF BeginLookup
  <2>. QED
    BY <1>4, <2>1 DEF BeginLookup, storeVars, MoreTags
<1>5. CASE FetchAnswers
  <2>1. PICK a \in Answers :
             /\ answer' = [answer EXCEPT ![cursor] = a]
             /\ statuses' = [statuses EXCEPT ![cursor] = @ \cup {a.status}]
    BY <1>5 DEF FetchAnswers
  <2>2. a.status \in Statuses
    BY ConstantsAssumption
  <2>3. answer' \in [Tags -> Answers \cup {NoAnswer}] /\ statuses' \in [Tags -> SUBSET Statuses]
    BY <2>1, <2>2
  <2>. QED
    BY <1>5, <2>3 DEF FetchAnswers, storeVars
<1>6. CASE FetchRunsOut
  BY <1>6 DEF FetchRunsOut, storeVars
<1>7. CASE FetchRaises
  BY <1>7 DEF FetchRaises, storeVars
<1>8. CASE PollSettles
  BY <1>8 DEF PollSettles, storeVars, OneMorePoll, QuietStart, QuietStartEnd
<1>9. CASE PollContinues
  <2>1. Observed \in [Tags -> Signatures]
    BY ObservedType
  <2>. QED
    BY <1>9, <2>1 DEF PollContinues, storeVars, OneMorePoll, QuietStart, QuietStartEnd
<1>10. CASE Wake
  BY <1>10 DEF Wake, storeVars
<1>11. CASE Finish
  BY <1>11 DEF Finish, storeVars, WhyUnsettled, CAUSE_CHANGING, CAUSE_NO_TIME
<1>12. CASE UNCHANGED vars
  BY <1>12 DEF vars, storeVars, toolVars
<1>. HIDE DEF TypeOK, Tags, Times, None
<1>. QED
  BY <1>1, <1>2, <1>3, <1>4, <1>5, <1>6, <1>7, <1>8, <1>9, <1>10, <1>11, <1>12
     DEF Next, Tool, Terminating

(* Type correctness of the readback phase, for all parameters. *)
THEOREM TypeCorrect == Spec => []TypeOK
BY InitType, NextType, PTL DEF Spec

-----------------------------------------------------------------------------
(* The inductive invariant. *)

(* The loop starts in the invariant. *)
LEMMA InitInv == Init => IInv
<1>. SUFFICES ASSUME Init PROVE IInv
  OBVIOUS
<1>1. TypeOK
  BY InitType
<1>2. complete = 0 /\ quietSince = None /\ pollStart = None /\ lastDiff = None /\ now = 0
  BY DEF Init
<1>3. PollTimes /\ NotYetAsked /\ DifferenceIsDated /\ ChangeIsDated
  BY <1>2, <1>1 DEF Init, PollTimes, NotYetAsked, DifferenceIsDated, ChangeIsDated, None
<1>4. EndOfLoop
  BY DEF Init, EndOfLoop, CAUSE_CHANGING
<1>5. StatusesTell
  BY Numbers DEF Init, StatusesTell, NoAnswer, Tags
<1>. QED
  BY <1>1, <1>3, <1>4, <1>5 DEF IInv

(* An action that asks nothing leaves what was observed alone. *)
LEMMA ObservedKept == answer' = answer => Observed' = Observed
BY DEF Observed

(* The pipeline under test writes its store: the tool's state is untouched. *)
LEMMA PipelineWritesInv ==
    ASSUME IInv, NEW t \in Tags, PipelineWrites(t)
    PROVE  PollTimes' /\ NotYetAsked' /\ DifferenceIsDated' /\ ChangeIsDated'
           /\ EndOfLoop' /\ StatusesTell'
<1>. UNCHANGED <<now, url, toolVars>>
  BY DEF PipelineWrites
<1>1. Observed' = Observed
  BY ObservedKept DEF toolVars
<1>2. QuietStart' = QuietStart /\ QuietStartEnd' = QuietStartEnd
  BY DEF toolVars, QuietStart, QuietStartEnd
<1>. QED
  BY <1>1, <1>2 DEF IInv, PollTimes, NotYetAsked, DifferenceIsDated, ChangeIsDated,
     EndOfLoop, StatusesTell, toolVars

(* The clock advances only while a lookup is in flight or the tool sleeps. *)
LEMMA TickInv ==
    ASSUME IInv, Tick
    PROVE  PollTimes' /\ NotYetAsked' /\ DifferenceIsDated' /\ ChangeIsDated'
           /\ EndOfLoop' /\ StatusesTell'
<1>. /\ UNCHANGED <<url, storeVars, toolVars>>
     /\ now' = now + 1
     /\ pc \in {"fetch", "sleep"}
  BY DEF Tick
<1>1. Observed' = Observed
  BY ObservedKept DEF toolVars
<1>2. QuietStart' = QuietStart /\ QuietStartEnd' = QuietStartEnd
  BY DEF toolVars, QuietStart, QuietStartEnd
<1>3. PollTimes'
  BY DEF IInv, TypeOK, PollTimes, toolVars, Times, None
<1>4. NotYetAsked' /\ DifferenceIsDated' /\ ChangeIsDated' /\ StatusesTell'
  BY <1>1, <1>2 DEF IInv, NotYetAsked, DifferenceIsDated, ChangeIsDated,
     StatusesTell, toolVars
<1>5. EndOfLoop'
  BY DEF IInv, EndOfLoop, toolVars
<1>. QED
  BY <1>3, <1>4, <1>5

(* A poll starts, or the loop ends because the budget is gone. *)
LEMMA LoopHeadInv ==
    ASSUME IInv, LoopHead
    PROVE  PollTimes' /\ NotYetAsked' /\ DifferenceIsDated' /\ ChangeIsDated'
           /\ EndOfLoop' /\ StatusesTell'
<1>1. Observed' = Observed
  BY ObservedKept DEF LoopHead
<1>2. QuietStart' = QuietStart /\ QuietStartEnd' = QuietStartEnd
  BY DEF LoopHead, QuietStart, QuietStartEnd
<1>3. PollTimes'
  BY DEF IInv, TypeOK, PollTimes, LoopHead, Times, None
<1>4. NotYetAsked'
  BY <1>1 DEF IInv, TypeOK, NotYetAsked, LoopHead
<1>5. DifferenceIsDated'
  BY <1>1, <1>2 DEF IInv, NotYetAsked, DifferenceIsDated, LoopHead
<1>6. ChangeIsDated'
  BY <1>2 DEF IInv, ChangeIsDated, LoopHead
<1>7. EndOfLoop'
  BY <1>1 DEF IInv, EndOfLoop, LoopHead, BudgetGone
<1>8. StatusesTell'
  BY DEF IInv, TypeOK, StatusesTell, LoopHead, Tags
<1>. QED
  BY <1>3, <1>4, <1>5, <1>6, <1>7, <1>8

(* A lookup starts, or the budget ends the poll. *)
LEMMA BeginLookupInv ==
    ASSUME IInv, BeginLookup
    PROVE  PollTimes' /\ NotYetAsked' /\ DifferenceIsDated' /\ ChangeIsDated'
           /\ EndOfLoop' /\ StatusesTell'
<1>1. Observed' = Observed
  BY ObservedKept DEF BeginLookup
<1>2. QuietStart' = QuietStart /\ QuietStartEnd' = QuietStartEnd
  BY DEF BeginLookup, QuietStart, QuietStartEnd
<1>3. PollTimes'
  BY DEF IInv, PollTimes, BeginLookup
<1>4. NotYetAsked' /\ DifferenceIsDated' /\ ChangeIsDated'
  BY <1>1, <1>2 DEF IInv, NotYetAsked, DifferenceIsDated, ChangeIsDated, BeginLookup
<1>5. EndOfLoop'
  BY <1>1 DEF IInv, EndOfLoop, BeginLookup
<1>6. StatusesTell'
  BY DEF IInv, StatusesTell, BeginLookup
<1>. QED
  BY <1>3, <1>4, <1>5, <1>6

(* The adapter gives up inside a lookup, or raises. *)
LEMMA FetchEndsInv ==
    ASSUME IInv, FetchRunsOut \/ FetchRaises
    PROVE  PollTimes' /\ NotYetAsked' /\ DifferenceIsDated' /\ ChangeIsDated'
           /\ EndOfLoop' /\ StatusesTell'
<1>1. Observed' = Observed
  BY ObservedKept DEF FetchRunsOut, FetchRaises
<1>2. QuietStart' = QuietStart /\ QuietStartEnd' = QuietStartEnd
  BY DEF FetchRunsOut, FetchRaises, QuietStart, QuietStartEnd
<1>3. PollTimes'
  BY DEF IInv, PollTimes, FetchRunsOut, FetchRaises
<1>4. NotYetAsked' /\ DifferenceIsDated' /\ ChangeIsDated'
  BY <1>1, <1>2 DEF IInv, NotYetAsked, DifferenceIsDated, ChangeIsDated,
     FetchRunsOut, FetchRaises
<1>5. EndOfLoop'
  BY <1>1 DEF IInv, EndOfLoop, FetchRunsOut, FetchRaises
<1>6. StatusesTell'
  BY DEF IInv, StatusesTell, FetchRunsOut, FetchRaises
<1>. QED
  BY <1>3, <1>4, <1>5, <1>6

(* The tool wakes up. *)
LEMMA WakeInv ==
    ASSUME IInv, Wake
    PROVE  PollTimes' /\ NotYetAsked' /\ DifferenceIsDated' /\ ChangeIsDated'
           /\ EndOfLoop' /\ StatusesTell'
<1>1. Observed' = Observed
  BY ObservedKept DEF Wake
<1>2. QuietStart' = QuietStart /\ QuietStartEnd' = QuietStartEnd
  BY DEF Wake, QuietStart, QuietStartEnd
<1>3. PollTimes'
  BY DEF IInv, PollTimes, Wake
<1>4. NotYetAsked' /\ DifferenceIsDated' /\ ChangeIsDated'
  BY <1>1, <1>2 DEF IInv, NotYetAsked, DifferenceIsDated, ChangeIsDated, Wake
<1>5. EndOfLoop'
  BY <1>1 DEF IInv, EndOfLoop, Wake
<1>6. StatusesTell'
  BY DEF IInv, StatusesTell, Wake
<1>. QED
  BY <1>3, <1>4, <1>5, <1>6

(* A lookup is answered.  Only the asked tag's part of the observed state  *)
(* can change, and if it does the difference is dated now.                 *)
LEMMA FetchAnswersInv ==
    ASSUME IInv, FetchAnswers
    PROVE  PollTimes' /\ NotYetAsked' /\ DifferenceIsDated' /\ ChangeIsDated'
           /\ EndOfLoop' /\ StatusesTell'
<1>. DEFINE seen(a) == Signature(a.records)
<1>1. PICK a \in Answers :
           /\ Sees(a, cursor)
           /\ answer' = [answer EXCEPT ![cursor] = a]
           /\ statuses' = [statuses EXCEPT ![cursor] = @ \cup {a.status}]
           /\ lastDiff' = IF complete > 0 /\ seen(a) # previous[cursor]
                          THEN now ELSE lastDiff
  BY DEF FetchAnswers
<1>2. cursor \in Tags
  BY DEF IInv, TypeOK, FetchAnswers
<1>3. /\ Observed'[cursor] = seen(a)
      /\ \A t \in Tags : t # cursor => Observed'[t] = Observed[t]
  BY <1>1, <1>2 DEF Observed, IInv, TypeOK
<1>. HIDE DEF seen
<1>4. QuietStart' = QuietStart /\ QuietStartEnd' = QuietStartEnd
  BY DEF FetchAnswers, QuietStart, QuietStartEnd
<1>5. lastDiff' = lastDiff \/ lastDiff' = now
  BY <1>1
<1>6. PollTimes'
  BY <1>5 DEF IInv, TypeOK, PollTimes, FetchAnswers, Times, None
<1>7. NotYetAsked'
  BY <1>3, Numbers DEF IInv, TypeOK, NotYetAsked, FetchAnswers, Tags
<1>8. DifferenceIsDated'
  <2>. SUFFICES ASSUME complete > 0 PROVE DifferenceIsDated'
    BY DEF DifferenceIsDated, FetchAnswers
  <2>0. /\ Observed = [t \in Tags |-> Observed[t]]
        /\ Observed' = [t \in Tags |-> Observed'[t]]
    BY DEF Observed
  <2>1. Observed[cursor] = previous[cursor]
    BY <1>2, Numbers DEF IInv, NotYetAsked, FetchAnswers, Tags
  <2>2. CASE seen(a) # previous[cursor]
    <3>1. Observed' # previous
      BY <1>3, <2>2
    <3>2. lastDiff' = now /\ pollStart <= now
      BY <1>1, <2>2 DEF IInv, PollTimes
    <3>. QED
      BY <3>1, <3>2, <1>2 DEF DifferenceIsDated, FetchAnswers, IInv, TypeOK, Times, None
  <2>3. CASE seen(a) = previous[cursor]
    <3>1. Observed' = Observed
      BY <1>3, <2>0, <2>1, <2>3
    <3>2. lastDiff' = lastDiff
      BY <1>1, <2>3
    <3>. QED
      BY <3>1, <3>2, <1>4 DEF DifferenceIsDated, FetchAnswers, IInv
  <2>. QED
    BY <2>2, <2>3
<1>9. ChangeIsDated'
  <2>1. lastDiff <= lastDiff'
    BY <1>5 DEF IInv, PollTimes, TypeOK, Times, None
  <2>2. QuietStart \in Times /\ lastDiff \in Times /\ lastDiff' \in Times
    BY <1>5 DEF QuietStart, IInv, TypeOK, Times
  <2>. QED
    BY <2>1, <2>2, <1>4 DEF IInv, ChangeIsDated, FetchAnswers, Times, None
<1>10. EndOfLoop'
  BY DEF IInv, EndOfLoop, FetchAnswers
<1>11. StatusesTell'
  <2>1. a.status = "404" => a.records = <<>>
    BY <1>1 DEF Sees
  <2>2. url = "wrong" => a.status = "404"
    BY <1>1 DEF Sees
  <2>3. ASSUME NEW t \in Tags, t # cursor
        PROVE  answer'[t] = answer[t] /\ statuses'[t] = statuses[t]
    BY <1>1, <2>3 DEF IInv, TypeOK
  <2>4. answer'[cursor] = a /\ statuses'[cursor] = statuses[cursor] \cup {a.status}
    BY <1>1, <1>2 DEF IInv, TypeOK
  <2>5. url' = url /\ complete' = complete /\ cursor' = cursor + 1 /\ pc = "fetch"
    BY DEF FetchAnswers
  <2>. SUFFICES ASSUME NEW t \in Tags
                PROVE  /\ answer'[t].status = "404" => answer'[t].records = <<>>
                       /\ statuses'[t] = {} => answer'[t] = NoAnswer
                       /\ statuses'[t] # {} => answer'[t].status \in statuses'[t]
                       /\ url' = "wrong" => statuses'[t] \subseteq {"404"}
                       /\ complete' > 0 => statuses'[t] # {}
                       /\ pc' \in {"lookup", "fetch"} /\ t < cursor' => statuses'[t] # {}
    BY DEF StatusesTell
  <2>6. CASE t = cursor
    BY <2>1, <2>2, <2>4, <2>5, <2>6 DEF IInv, StatusesTell
  <2>7. CASE t # cursor
    <3>1. t < cursor' => t < cursor
      BY <2>7, <2>5, <1>2, Numbers DEF Tags
    <3>. QED
      BY <2>3, <2>5, <2>7, <3>1 DEF IInv, StatusesTell
  <2>. QED
    BY <2>6, <2>7
<1>. QED
  BY <1>6, <1>7, <1>8, <1>9, <1>10, <1>11

(* The poll that settles: what it saw is what the window was counted over. *)
LEMMA PollSettlesInv ==
    ASSUME IInv, PollSettles
    PROVE  PollTimes' /\ NotYetAsked' /\ DifferenceIsDated' /\ ChangeIsDated'
           /\ EndOfLoop' /\ StatusesTell'
<1>1. Observed' = Observed
  BY ObservedKept DEF PollSettles
<1>2. complete > 0 /\ Observed = previous /\ now - QuietStart >= QuietWindow
  BY DEF PollSettles, HeldForTheWindow, SameAsPrevious
<1>3. complete' = 2
  BY <1>2 DEF PollSettles, OneMorePoll, IInv, TypeOK, PollTimes
<1>4. QuietStart # None /\ quietSince' = QuietStart /\ quietEnd' = QuietStartEnd
  BY <1>2 DEF PollSettles, QuietStart, IInv, PollTimes
<1>5. QuietStart' = QuietStart /\ QuietStartEnd' = QuietStartEnd
  BY <1>4 DEF QuietStart, QuietStartEnd
<1>6. PollTimes'
  BY <1>2, <1>3, <1>4 DEF PollSettles, QuietStart, QuietStartEnd, IInv, TypeOK,
     PollTimes, Times, None
<1>7. NotYetAsked' /\ DifferenceIsDated'
  BY <1>1, <1>2, <1>5 DEF PollSettles, IInv, NotYetAsked, DifferenceIsDated
<1>8. ChangeIsDated'
  <2>1. changed => lastDiff >= QuietStart
    BY DEF IInv, ChangeIsDated
  <2>. QED
    BY <1>3, <1>4, <1>5, <2>1 DEF PollSettles, ChangeIsDated
<1>9. EndOfLoop'
  BY <1>1, <1>2, <1>4 DEF PollSettles, IInv, EndOfLoop, CAUSE_CHANGING
<1>10. StatusesTell'
  BY <1>2 DEF PollSettles, IInv, StatusesTell
<1>. QED
  BY <1>6, <1>7, <1>8, <1>9, <1>10

(* The poll that does not settle: the window goes on or is reset. *)
LEMMA PollContinuesInv ==
    ASSUME IInv, PollContinues
    PROVE  PollTimes' /\ NotYetAsked' /\ DifferenceIsDated' /\ ChangeIsDated'
           /\ EndOfLoop' /\ StatusesTell'
<1>1. Observed' = Observed /\ previous' = Observed
  BY ObservedKept DEF PollContinues
<1>2. complete' > 0 /\ complete' \in 1..2
  BY DEF PollContinues, OneMorePoll, IInv, TypeOK
<1>3. pollStart # None /\ previousStart' = pollStart /\ previousEnd' = now
  BY DEF PollContinues, IInv, PollTimes
<1>4. NotYetAsked'
  BY <1>1 DEF NotYetAsked, PollContinues
<1>5. EndOfLoop'
  BY DEF EndOfLoop, PollContinues, BudgetGone, IInv
<1>6. StatusesTell'
  <2>1. \A t \in Tags : t < cursor
    BY Numbers DEF PollContinues, MoreTags, IInv, TypeOK, Tags
  <2>. QED
    BY <2>1 DEF StatusesTell, PollContinues, IInv
<1>7. PollTimes' /\ DifferenceIsDated' /\ ChangeIsDated'
  <2>1. CASE SameAsPrevious
    <3>1. complete' = 2 /\ complete > 0 /\ Observed = previous
      BY <2>1 DEF SameAsPrevious, PollContinues, OneMorePoll, IInv, TypeOK
    <3>2. QuietStart # None /\ quietSince' = QuietStart /\ quietEnd' = QuietStartEnd
      BY <2>1, <3>1 DEF PollContinues, QuietStart, IInv, PollTimes
    <3>3. QuietStart' = QuietStart /\ QuietStartEnd' = QuietStartEnd
      BY <3>2 DEF QuietStart, QuietStartEnd
    <3>4. PollTimes'
      BY <1>2, <1>3, <3>1, <3>2 DEF PollContinues, QuietStart, QuietStartEnd, IInv,
         TypeOK, PollTimes, Times, None
    <3>5. DifferenceIsDated'
      BY <1>1, <3>1, <3>3 DEF PollContinues, IInv, DifferenceIsDated
    <3>6. changed' => changed
      BY <3>1 DEF PollContinues
    <3>7. ChangeIsDated'
      BY <3>1, <3>2, <3>3, <3>6 DEF PollContinues, IInv, ChangeIsDated
    <3>. QED
      BY <3>4, <3>5, <3>7
  <2>2. CASE ~SameAsPrevious
    <3>1. quietSince' = None
      BY <2>2 DEF PollContinues
    <3>2. QuietStart' = pollStart /\ QuietStartEnd' = now
      BY <3>1, <1>3 DEF QuietStart, QuietStartEnd
    <3>3. complete > 0 => lastDiff >= pollStart
      BY <2>2 DEF SameAsPrevious, IInv, DifferenceIsDated
    <3>4. PollTimes'
      BY <1>2, <1>3, <3>1 DEF PollContinues, IInv, TypeOK, PollTimes, Times, None
    <3>5. DifferenceIsDated'
      BY <1>1, <3>2 DEF PollContinues, IInv, PollTimes, DifferenceIsDated
    <3>6. complete' = 2 => complete > 0
      BY DEF PollContinues, OneMorePoll, IInv, TypeOK
    <3>7. changed' => complete' = 2
      BY DEF PollContinues, OneMorePoll, IInv, TypeOK, ChangeIsDated
    <3>8. ChangeIsDated'
      BY <3>2, <3>3, <3>6, <3>7 DEF PollContinues, ChangeIsDated
    <3>. QED
      BY <3>4, <3>5, <3>8
  <2>. QED
    BY <2>1, <2>2
<1>. QED
  BY <1>4, <1>5, <1>6, <1>7

(* The verdict on the window, and the cause when there is one. *)
LEMMA FinishInv ==
    ASSUME IInv, Finish
    PROVE  PollTimes' /\ NotYetAsked' /\ DifferenceIsDated' /\ ChangeIsDated'
           /\ EndOfLoop' /\ StatusesTell'
<1>1. Observed' = Observed
  BY ObservedKept DEF Finish
<1>2. QuietStart' = QuietStart /\ QuietStartEnd' = QuietStartEnd
  BY DEF Finish, QuietStart, QuietStartEnd
<1>3. PollTimes'
  BY DEF IInv, PollTimes, Finish
<1>4. NotYetAsked' /\ DifferenceIsDated' /\ ChangeIsDated'
  BY <1>1, <1>2 DEF IInv, NotYetAsked, DifferenceIsDated, ChangeIsDated, Finish
<1>5. StatusesTell'
  BY DEF IInv, StatusesTell, Finish
<1>6. ASSUME stable'
      PROVE  /\ quietSince # None
             /\ now - quietSince >= QuietWindow
             /\ Observed = previous
  <2>1. CASE stable
    BY <2>1 DEF IInv, EndOfLoop
  <2>2. CASE ~stable
    <3>1. quietSince # None /\ ~CutShortChanged /\ now - quietSince >= QuietWindow
      BY <1>6, <2>2, Zenon DEF Finish
    <3>. QED
      BY <3>1 DEF CutShortChanged, IInv, PollTimes
  <2>. QED
    BY <2>1, <2>2
<1>7. ASSUME cause' = CAUSE_CHANGING
      PROVE  lastDiff # None /\ (lastDiff >= previousStart \/ now - lastDiff < QuietWindow)
  <2>1. ~stable' /\ WhyUnsettled = CAUSE_CHANGING
    BY <1>7 DEF Finish, CAUSE_CHANGING
  <2>2. complete = 2 /\ (quietSince = None \/ changed \/ CutShortChanged)
    BY <2>1 DEF WhyUnsettled, CAUSE_CHANGING, CAUSE_NO_TIME, IInv, TypeOK
  <2>3. CASE CutShortChanged
    BY <2>2, <2>3 DEF CutShortChanged, IInv, TypeOK, DifferenceIsDated, PollTimes, Times, None
  <2>4. CASE quietSince = None
    BY <2>2, <2>4 DEF IInv, TypeOK, ChangeIsDated, PollTimes, QuietStart, Times, None
  <2>5. CASE quietSince # None /\ changed /\ ~CutShortChanged
    <3>1. now - quietSince < QuietWindow
      <4>1. ~(now - quietSince >= QuietWindow)
        BY <2>1, <2>5, Zenon DEF Finish
      <4>. QED
        BY <4>1, <2>5, Numbers DEF IInv, TypeOK, Times, None
    <3>2. lastDiff >= quietSince
      BY <2>2, <2>5 DEF IInv, ChangeIsDated, QuietStart
    <3>. QED
      BY <2>5, <3>1, <3>2, Numbers DEF IInv, TypeOK, Times, None
  <2>. QED
    BY <2>2, <2>3, <2>4, <2>5
<1>8. EndOfLoop'
  BY <1>1, <1>6, <1>7 DEF Finish, IInv, EndOfLoop
<1>. QED
  BY <1>3, <1>4, <1>5, <1>8

(* Every step keeps it. *)
LEMMA NextInv == IInv /\ [Next]_vars => IInv'
<1>. SUFFICES ASSUME IInv, [Next]_vars PROVE IInv'
  OBVIOUS
<1>0. TypeOK'
  BY NextType DEF IInv
<1>1. ASSUME NEW t \in Tags, StoreWrites(t) PROVE IInv'
  BY <1>0, <1>1, PipelineWritesInv DEF IInv, StoreWrites
<1>2. CASE Tick
  BY <1>0, <1>2, TickInv DEF IInv
<1>3. CASE LoopHead
  BY <1>0, <1>3, LoopHeadInv DEF IInv
<1>4. CASE BeginLookup
  BY <1>0, <1>4, BeginLookupInv DEF IInv
<1>5. CASE FetchAnswers
  BY <1>0, <1>5, FetchAnswersInv DEF IInv
<1>6. CASE FetchRunsOut \/ FetchRaises
  BY <1>0, <1>6, FetchEndsInv DEF IInv
<1>7. CASE PollSettles
  BY <1>0, <1>7, PollSettlesInv DEF IInv
<1>8. CASE PollContinues
  BY <1>0, <1>8, PollContinuesInv DEF IInv
<1>9. CASE Wake
  BY <1>0, <1>9, WakeInv DEF IInv
<1>10. CASE Finish
  BY <1>0, <1>10, FinishInv DEF IInv
<1>11. CASE UNCHANGED vars
  <2>1. Observed' = Observed
    BY <1>11, ObservedKept DEF vars, toolVars
  <2>2. QuietStart' = QuietStart /\ QuietStartEnd' = QuietStartEnd
    BY <1>11 DEF vars, toolVars, QuietStart, QuietStartEnd
  <2>. QED
    BY <1>0, <1>11, <2>1, <2>2 DEF IInv, PollTimes, NotYetAsked, DifferenceIsDated,
       ChangeIsDated, EndOfLoop, StatusesTell, vars, toolVars
<1>. QED
  BY <1>1, <1>2, <1>3, <1>4, <1>5, <1>6, <1>7, <1>8, <1>9, <1>10, <1>11
     DEF Next, Tool, Terminating

(* The inductive invariant of the loop. *)
LEMMA Invariance == Spec => []IInv
BY InitInv, NextInv, PTL DEF Spec

-----------------------------------------------------------------------------
(* SETTLED is only ever said of a store that two complete polls saw alike, *)
(* a quiet window apart, and that no lookup in between saw differently.    *)
THEOREM SettledIsQuietHolds == Spec => []SettledIsQuiet
<1>1. IInv => SettledIsQuiet
  BY DEF IInv, SettledIsQuiet, EndOfLoop, PollTimes, DifferenceIsDated, QuietStartEnd
<1>. QED
  BY <1>1, Invariance, PTL

(* "Still changing" is only ever said of a store a lookup saw change. *)
THEOREM ChangingWasSeenHolds == Spec => []ChangingWasSeen
<1>1. IInv => ChangingWasSeen
  BY DEF IInv, ChangingWasSeen, EndOfLoop
<1>. QED
  BY <1>1, Invariance, PTL

(* UNSETTLED is only ever said when the budget is spent. *)
THEOREM UnsettledIsOutOfTimeHolds == Spec => []UnsettledIsOutOfTime
<1>1. IInv => UnsettledIsOutOfTime
  BY DEF IInv, UnsettledIsOutOfTime, EndOfLoop
<1>. QED
  BY <1>1, Invariance, PTL

(* A readback url that is a 404 for everything is told from a store that   *)
(* lost everything.                                                        *)
THEOREM WrongUrlIsNoticedHolds == Spec => []WrongUrlIsNoticed
<1>1. IInv => WrongUrlIsNoticed
  <2>. SUFFICES ASSUME IInv PROVE WrongUrlIsNoticed
    OBVIOUS
  <2>1. ASSUME all_404, NEW t \in Tags PROVE found(t) = <<>>
    BY <2>1 DEF all_404, found, IInv, StatusesTell
  <2>2. ASSUME url = "wrong", complete > 0, NEW t \in Tags
        PROVE  statuses[t] = {"404"}
    BY <2>2 DEF IInv, StatusesTell
  <2>. QED
    BY <2>1, <2>2 DEF WrongUrlIsNoticed, missing, all_404
<1>. QED
  BY <1>1, Invariance, PTL

-----------------------------------------------------------------------------
(* The ledger run. *)
(* A correct record that a lookup returned is in the store for good. *)
FoundIsHeld ==
    \A t \in Tags : HoldsCorrect(found(t)) => HoldsCorrect(store[t])

(* The lookup of t found nothing, and that was so at time `since`. *)
EmptySince(t, since) ==
    url = "right" /\ found(t) = <<>> /\ ~answer[t].partial =>
        store[t] = <<>> \/ changedAt[t] >= since

(* How old an empty answer can be: it was right when the last complete     *)
(* poll began, and when this one began if this one has already asked.      *)
EmptyIsDated ==
    \A t \in Tags :
        /\ complete > 0 => EmptySince(t, previousStart)
        /\ pc \in {"lookup", "fetch"} /\ t < cursor => EmptySince(t, pollStart)
        /\ pc \in {"ended", "done"} /\ ~exhausted => EmptySince(t, pollStart)

(* Between two polls the last one to start is the last complete one. *)
BetweenPolls ==
    complete > 0 /\ pc \in {"loop", "sleep"} => previousStart = pollStart

Evidence ==
    /\ FoundIsHeld
    /\ EmptyIsDated
    /\ BetweenPolls

(* What each phase of execute may rely on. *)
Phases ==
    /\ phase = "prepare" => sent = 0
    /\ phase \in {"readback", "stray search", "report"} => sent = NTags
    /\ phase \in {"stray search", "report"} => pc = "done"
    /\ phase = "report" => adapter = "closed"
    /\ phase # "over" => exit = None /\ verdict = "none"
    /\ listing = "full" => extra = (stray = "extra")

(* The three ways out: refused, interrupted, graded. *)
WaysOut ==
    phase = "over" =>
        /\ adapter # "open"
        /\ \/ exit = EXIT_REFUSED /\ verdict = "none" /\ (sent = 0 \/ pc = "failed")
           \/ exit = EXIT_MISMATCH /\ verdict = "ABORTED"
           \/ /\ exit = IF balanced THEN EXIT_OK ELSE EXIT_MISMATCH
              /\ verdict = ReadbackVerdict
              /\ sent = NTags
              /\ pc = "done"

LedgerInv ==
    /\ LedgerTypeOK
    /\ IInv
    /\ Evidence
    /\ Phases
    /\ WaysOut

-----------------------------------------------------------------------------
(* A record is counted by common._signature exactly when it is there. *)
LEMMA SignatureCounts ==
    ASSUME NEW s \in Seq(Records), NEW r \in Records
    PROVE  /\ Signature(s)[r] \in Nat
           /\ Signature(s)[r] > 0 <=> \E i \in DOMAIN s : s[i] = r
<1>. DEFINE at == {i \in DOMAIN s : s[i] = r}
<1>1. DOMAIN s = 1..Len(s) /\ Len(s) \in Nat
  OBVIOUS
<1>2. IsFiniteSet(1..Len(s))
  BY <1>1, FS_Interval
<1>3. IsFiniteSet(at)
  BY <1>1, <1>2, FS_Subset
<1>4. Cardinality(at) \in Nat /\ (Cardinality(at) = 0 <=> at = {})
  BY <1>3, FS_CardinalityType, FS_EmptySet
<1>5. Signature(s)[r] = Cardinality(at)
  BY DEF Signature
<1>. QED
  BY <1>4, <1>5

(* A lookup sees nothing that the store does not hold. *)
LEMMA SeenIsHeld ==
    ASSUME IInv, NEW a \in Answers, NEW t \in Tags, Sees(a, t), HoldsCorrect(a.records)
    PROVE  HoldsCorrect(store[t])
<1>1. a.records \in Seq(Records) /\ store[t] \in Seq(Records)
  BY ConstantsAssumption, AnswerRecords DEF IInv, TypeOK
<1>2. PICK i \in DOMAIN a.records : a.records[i] \in Correct
  BY DEF HoldsCorrect
<1>. DEFINE r == a.records[i]
<1>3. r \in Records
  BY <1>2, LedgerAssumption
<1>4. a.records # <<>>
  BY <1>2
<1>5. Signature(a.records)[r] > 0
  BY <1>1, <1>2, <1>3, SignatureCounts
<1>6. Signature(a.records)[r] <= Signature(store[t])[r]
  <2>1. url # "wrong"
    BY <1>4 DEF Sees
  <2>2. a.partial => \A x \in Records : Signature(a.records)[x] <= Signature(store[t])[x]
    BY <2>1 DEF Sees
  <2>3. ~a.partial => Signature(a.records) = Signature(store[t])
    BY <2>1 DEF Sees
  <2>. QED
    BY <2>2, <2>3, <1>1, <1>3, SignatureCounts
<1>7. Signature(store[t])[r] > 0
  <2>. HIDE DEF r
  <2>. QED
    BY <1>1, <1>3, <1>5, <1>6, SignatureCounts
<1>8. \E j \in DOMAIN store[t] : store[t][j] = r
  <2>. HIDE DEF r
  <2>. QED
    BY <1>1, <1>3, <1>7, SignatureCounts
<1>. QED
  BY <1>2, <1>8 DEF HoldsCorrect

(* A complete lookup that found nothing is of a tag the store holds        *)
(* nothing for.                                                            *)
LEMMA UnseenIsAbsent ==
    ASSUME IInv, NEW a \in Answers, NEW t \in Tags, Sees(a, t),
           url = "right", a.records = <<>>, ~a.partial
    PROVE  store[t] = <<>>
<1>1. store[t] \in Seq(Records) /\ <<>> \in Seq(Records)
  BY ConstantsAssumption DEF IInv, TypeOK
<1>2. Signature(store[t]) = Signature(<<>>)
  BY DEF Sees
<1>3. ASSUME store[t] # <<>> PROVE FALSE
  <2>1. 1 \in DOMAIN store[t] /\ store[t][1] \in Records
    BY <1>1, <1>3
  <2>2. Signature(store[t])[store[t][1]] > 0
    BY <1>1, <2>1, SignatureCounts
  <2>3. ~(Signature(<<>>)[store[t][1]] > 0)
    <3>. DEFINE e == <<>>
    <3>1. e \in Seq(Records) /\ ~\E i \in DOMAIN e : e[i] = store[t][1]
      OBVIOUS
    <3>. HIDE DEF e
    <3>2. ~(Signature(e)[store[t][1]] > 0)
      BY <3>1, <2>1, SignatureCounts
    <3>. QED
      BY <3>2 DEF e
  <2>. QED
    BY <1>2, <2>2, <2>3
<1>. QED
  BY <1>3

-----------------------------------------------------------------------------
(* The steps of read_back_all and of the clock keep the evidence. *)

(* An answer, the store and its history unchanged, evidence of the same    *)
(* age stays evidence.                                                     *)
LEMMA EvidenceKept ==
    ASSUME UNCHANGED <<answer, store, changedAt, url>>, FoundIsHeld
    PROVE  /\ FoundIsHeld'
           /\ \A t \in Tags :
                 /\ previousStart' = previousStart /\ EmptySince(t, previousStart)
                       => EmptySince(t, previousStart)'
                 /\ pollStart' = pollStart /\ EmptySince(t, pollStart)
                       => EmptySince(t, pollStart)'
                 /\ previousStart' = pollStart /\ EmptySince(t, pollStart)
                       => EmptySince(t, previousStart)'
                 /\ pollStart' = pollStart /\ pollStart = previousStart
                    /\ EmptySince(t, previousStart)
                       => EmptySince(t, pollStart)'
BY DEF FoundIsHeld, EmptySince, found

(* A lookup is answered. *)
LEMMA FetchAnswersEvidence ==
    ASSUME IInv, Evidence, FetchAnswers
    PROVE  Evidence'
<1>1. PICK a \in Answers :
           /\ Sees(a, cursor)
           /\ answer' = [answer EXCEPT ![cursor] = a]
  BY DEF FetchAnswers
<1>2. cursor \in Tags /\ answer \in [Tags -> Answers \cup {NoAnswer}]
  BY DEF IInv, TypeOK, FetchAnswers
<1>3. answer'[cursor] = a /\ \A t \in Tags : t # cursor => answer'[t] = answer[t]
  BY <1>1, <1>2
<1>4. UNCHANGED <<store, changedAt, url, previousStart, pollStart, complete, exhausted>>
      /\ pc = "fetch" /\ pc' = "lookup" /\ cursor' = cursor + 1
  BY DEF FetchAnswers, storeVars
<1>5. ASSUME NEW t \in Tags, HoldsCorrect(answer'[t].records)
      PROVE  HoldsCorrect(store[t])
  <2>1. CASE t = cursor
    BY <1>1, <1>3, <1>5, <2>1, SeenIsHeld
  <2>2. CASE t # cursor
    BY <1>3, <1>5, <2>2 DEF Evidence, FoundIsHeld, found
  <2>. QED
    BY <2>1, <2>2
<1>6. FoundIsHeld'
  BY <1>4, <1>5 DEF FoundIsHeld, found, HoldsCorrect
<1>7. ASSUME NEW t \in Tags, url = "right", answer'[t].records = <<>>, ~answer'[t].partial
      PROVE  /\ t = cursor => store[t] = <<>>
             /\ t # cursor => /\ complete > 0 => store[t] = <<>> \/ changedAt[t] >= previousStart
                              /\ t < cursor => store[t] = <<>> \/ changedAt[t] >= pollStart
  <2>1. CASE t = cursor
    BY <1>1, <1>3, <1>7, <2>1, UnseenIsAbsent
  <2>2. CASE t # cursor
    BY <1>3, <1>4, <1>7, <2>2 DEF Evidence, EmptyIsDated, EmptySince, found
  <2>. QED
    BY <2>1, <2>2
<1>8. ASSUME NEW t \in Tags, t < cursor' PROVE t = cursor \/ t < cursor
  BY <1>2, <1>4, <1>8, Numbers DEF Tags
<1>9. EmptyIsDated'
  BY <1>4, <1>7, <1>8 DEF EmptyIsDated, EmptySince, found
<1>10. BetweenPolls'
  BY <1>4 DEF BetweenPolls
<1>. QED
  BY <1>6, <1>9, <1>10 DEF Evidence

(* A poll ends: every tag was asked since it began. *)
LEMMA PollEndsEvidence ==
    ASSUME IInv, Evidence, PollSettles \/ PollContinues
    PROVE  Evidence'
<1>1. UNCHANGED <<answer, store, changedAt, url, pollStart, exhausted>> /\ pc = "lookup"
  BY DEF PollSettles, PollContinues, storeVars
<1>2. \A t \in Tags : t < cursor
  BY Numbers DEF PollSettles, PollContinues, MoreTags, IInv, TypeOK, Tags
<1>3. \A t \in Tags : EmptySince(t, pollStart)
  BY <1>1, <1>2 DEF Evidence, EmptyIsDated
<1>4. pc' \notin {"lookup", "fetch"}
  BY DEF PollSettles, PollContinues
<1>5. FoundIsHeld' /\ \A t \in Tags : EmptySince(t, pollStart)'
  BY <1>1, <1>3, EvidenceKept DEF Evidence
<1>6. CASE PollSettles
  <2>1. previousStart' = previousStart /\ complete > 0 /\ pc' = "ended"
    BY <1>6 DEF PollSettles, HeldForTheWindow, SameAsPrevious
  <2>2. \A t \in Tags : EmptySince(t, previousStart)'
    BY <1>1, <2>1, EvidenceKept DEF Evidence, EmptyIsDated
  <2>. QED
    BY <1>4, <1>5, <2>1, <2>2 DEF Evidence, EmptyIsDated, BetweenPolls
<1>7. CASE PollContinues
  <2>1. previousStart' = pollStart /\ pollStart' = pollStart
    BY <1>7 DEF PollContinues
  <2>2. \A t \in Tags : EmptySince(t, previousStart)'
    BY <1>1, <1>3, <2>1, EvidenceKept DEF Evidence
  <2>. QED
    BY <1>4, <1>5, <2>1, <2>2 DEF Evidence, EmptyIsDated, BetweenPolls
<1>. QED
  BY <1>6, <1>7

(* The steps of the tool that ask nothing and end no poll, and the clock. *)
LEMMA OtherStepsEvidence ==
    ASSUME IInv, Evidence,
           LoopHead \/ BeginLookup \/ FetchRunsOut \/ FetchRaises \/ Wake \/ Finish
             \/ Tick \/ UNCHANGED vars
    PROVE  Evidence'
<1>1. UNCHANGED <<answer, store, changedAt, url, previousStart, complete>>
  BY DEF LoopHead, BeginLookup, FetchRunsOut, FetchRaises, Wake, Finish, Tick,
     vars, storeVars, toolVars
<1>2. FoundIsHeld' /\ \A t \in Tags : complete' > 0 => EmptySince(t, previousStart)'
  BY <1>1, EvidenceKept DEF Evidence, EmptyIsDated
<1>3. CASE LoopHead
  <2>1. CASE pc' = "lookup"
    <3>1. cursor' = 1
      BY <1>3, <2>1 DEF LoopHead
    <3>2. \A t \in Tags : ~(t < cursor')
      BY <3>1, Numbers DEF Tags
    <3>. QED
      BY <1>2, <2>1, <3>2 DEF Evidence, EmptyIsDated, BetweenPolls
  <2>2. CASE pc' = "ended"
    <3>1. complete > 0 /\ pollStart' = pollStart /\ pc = "loop"
      BY <1>3, <2>2 DEF LoopHead
    <3>2. \A t \in Tags : EmptySince(t, pollStart)'
      BY <1>1, <3>1, EvidenceKept DEF Evidence, EmptyIsDated, BetweenPolls
    <3>. QED
      BY <1>2, <2>2, <3>2 DEF Evidence, EmptyIsDated, BetweenPolls
  <2>. QED
    BY <1>3, <2>1, <2>2 DEF LoopHead
<1>4. CASE BeginLookup \/ FetchRunsOut \/ FetchRaises
  <2>1. UNCHANGED <<pollStart, cursor>> /\ pc \in {"lookup", "fetch"}
    BY <1>4 DEF BeginLookup, FetchRunsOut, FetchRaises
  <2>2. pc' \in {"lookup", "fetch", "failed"} \/ (pc' = "ended" /\ exhausted')
    BY <1>4 DEF BeginLookup, FetchRunsOut, FetchRaises
  <2>3. \A t \in Tags : t < cursor => EmptySince(t, pollStart)'
    BY <1>1, <2>1, EvidenceKept DEF Evidence, EmptyIsDated
  <2>. QED
    BY <1>2, <2>1, <2>2, <2>3 DEF Evidence, EmptyIsDated, BetweenPolls
<1>5. CASE Wake \/ Finish \/ Tick \/ UNCHANGED vars
  <2>1. UNCHANGED <<pollStart, cursor, exhausted>>
    BY <1>5 DEF Wake, Finish, Tick, vars, storeVars, toolVars
  <2>2. \/ pc' = pc
        \/ pc = "sleep" /\ pc' = "loop"
        \/ pc = "ended" /\ pc' = "done"
    BY <1>5 DEF Wake, Finish, Tick, vars, storeVars, toolVars
  <2>3. BetweenPolls'
    BY <1>1, <2>1, <2>2 DEF Evidence, BetweenPolls
  <2>4. \A t \in Tags : EmptySince(t, pollStart) => EmptySince(t, pollStart)'
    BY <1>1, <2>1, EvidenceKept DEF Evidence
  <2>5. EmptyIsDated'
    BY <1>2, <2>1, <2>2, <2>4 DEF Evidence, EmptyIsDated
  <2>. QED
    BY <1>2, <2>3, <2>5 DEF Evidence
<1>. QED
  BY <1>3, <1>4, <1>5

(* The pipeline under test writes: what changes is dated now, and a tag    *)
(* with a correct ticket keeps one.                                        *)
LEMMA PipelineWritesEvidence ==
    ASSUME IInv, Evidence, NEW w \in Tags, PipelineWrites(w)
    PROVE  Evidence'
<1>1. PICK c \in Contents : <<store[w], c>> \in Evolves /\ store' = [store EXCEPT ![w] = c]
  BY DEF PipelineWrites
<1>2. /\ changedAt' = [changedAt EXCEPT ![w] = now]
      /\ UNCHANGED <<now, url, pc, cursor, answer, complete, pollStart, previousStart, exhausted>>
  BY DEF PipelineWrites, toolVars
<1>3. /\ store \in [Tags -> Contents] /\ changedAt \in [Tags -> Times]
      /\ store'[w] = c /\ changedAt'[w] = now
      /\ \A t \in Tags : t # w => store'[t] = store[t] /\ changedAt'[t] = changedAt[t]
  BY <1>1, <1>2 DEF IInv, TypeOK
<1>4. HoldsCorrect(store[w]) => HoldsCorrect(c)
  BY <1>1, <1>3, PipelineAssumption
<1>5. FoundIsHeld'
  <2>. SUFFICES ASSUME NEW t \in Tags, HoldsCorrect(answer[t].records)
                PROVE  HoldsCorrect(store'[t])
    BY <1>2 DEF FoundIsHeld, found, HoldsCorrect
  <2>1. HoldsCorrect(store[t])
    BY DEF Evidence, FoundIsHeld, found
  <2>. QED
    BY <1>3, <1>4, <2>1
<1>6. pollStart <= now /\ (complete > 0 => previousStart <= now)
  BY DEF IInv, TypeOK, PollTimes, Times, None
<1>7. now >= pollStart /\ (complete > 0 => now >= previousStart)
  BY <1>6 DEF IInv, TypeOK, Times, None
<1>8. EmptyIsDated'
  <2>. SUFFICES ASSUME NEW t \in Tags
                PROVE  /\ complete' > 0 => EmptySince(t, previousStart)'
                       /\ pc' \in {"lookup", "fetch"} /\ t < cursor' => EmptySince(t, pollStart)'
                       /\ pc' \in {"ended", "done"} /\ ~exhausted' => EmptySince(t, pollStart)'
    BY DEF EmptyIsDated
  <2>1. CASE t = w
    BY <1>2, <1>3, <1>7, <2>1 DEF EmptySince
  <2>2. CASE t # w
    BY <1>2, <1>3, <2>2 DEF EmptySince, found, Evidence, EmptyIsDated
  <2>. QED
    BY <2>1, <2>2
<1>9. BetweenPolls'
  BY <1>2 DEF Evidence, BetweenPolls
<1>. QED
  BY <1>5, <1>8, <1>9 DEF Evidence

(* A step of the readback loop, or of the clock, keeps the evidence. *)
LEMMA ToolEvidence ==
    ASSUME IInv, Evidence, Tool \/ Tick \/ UNCHANGED vars
    PROVE  Evidence'
BY FetchAnswersEvidence, PollEndsEvidence, OtherStepsEvidence DEF Tool

-----------------------------------------------------------------------------
(* The run around the readback. *)

(* What account, verdict and readback_verdict read. *)
GradedVars == <<answer, statuses, stable, listing, extra>>

(* The verdict is a function of what account reads. *)
LEMMA GradeKept ==
    ASSUME UNCHANGED GradedVars
    PROVE  balanced' = balanced /\ ReadbackVerdict' = ReadbackVerdict
<1>1. lost' = lost /\ readback_failed' = readback_failed
  BY DEF GradedVars, lost, readback_failed, all_404, missing, found
<1>2. duplicated' = duplicated /\ wrong' = wrong
  BY DEF GradedVars, duplicated, wrong, found
<1>3. searched' = searched /\ unsettled' = unsettled /\ extra' = extra
  BY DEF GradedVars, searched, unsettled
<1>. QED
  BY <1>1, <1>2, <1>3 DEF balanced, ReadbackVerdict, ToolVerdict

(* A run starts in the invariant. *)
LEMMA LedgerInitInv == LedgerInit => LedgerInv
<1>. SUFFICES ASSUME LedgerInit PROVE LedgerInv
  OBVIOUS
<1>1. IInv
  BY InitInv DEF LedgerInit
<1>2. LedgerTypeOK
  <2>1. extra \in BOOLEAN
    BY DEF LedgerInit
  <2>. QED
    BY <1>1, <2>1, Numbers DEF LedgerInit, LedgerTypeOK, IInv
<1>3. Evidence
  <2>1. ASSUME NEW t \in Tags PROVE ~HoldsCorrect(found(t))
    BY DEF LedgerInit, Init, NoAnswer, found, HoldsCorrect
  <2>. QED
    BY <2>1 DEF LedgerInit, Init, Evidence, FoundIsHeld, EmptyIsDated, BetweenPolls
<1>4. Phases /\ WaysOut
  BY DEF LedgerInit, Phases, WaysOut
<1>. QED
  BY <1>1, <1>2, <1>3, <1>4 DEF LedgerInv

(* The readback, the clock and the pipeline take a step. *)
LEMMA ReadbackStep ==
    ASSUME LedgerInv, Readback \/ TimePasses \/ \E t \in Tags : PipelineFiles(t)
    PROVE  LedgerInv'
<1>1. UNCHANGED ledgerVars /\ phase \in {"send", "readback", "stray search"}
  BY DEF Readback, TimePasses, PipelineFiles
<1>2. IInv' /\ Evidence'
  <2>1. CASE Readback \/ TimePasses
    <3>1. Next /\ (Tool \/ Tick)
      BY <2>1 DEF Readback, TimePasses, Next
    <3>. QED
      BY <3>1, NextInv, ToolEvidence DEF LedgerInv
  <2>2. ASSUME NEW t \in Tags, PipelineFiles(t) PROVE IInv' /\ Evidence'
    <3>1. PipelineWrites(t)
      BY <2>2 DEF PipelineFiles
    <3>2. TypeOK'
      BY <3>1, WritesType DEF LedgerInv, IInv
    <3>. QED
      BY <3>1, <3>2, PipelineWritesInv, PipelineWritesEvidence DEF LedgerInv, IInv
  <2>. QED
    BY <2>1, <2>2
<1>3. LedgerTypeOK'
  BY <1>1, <1>2 DEF LedgerInv, LedgerTypeOK, ledgerVars, IInv
<1>4. phase = "stray search" => pc' = "done"
  <2>. HAVE phase = "stray search"
  <2>1. PICK t \in Tags : PipelineFiles(t)
    BY DEF Readback, TimePasses
  <2>. QED
    BY <2>1 DEF PipelineFiles, PipelineWrites, toolVars, LedgerInv, Phases
<1>5. Phases' /\ WaysOut'
  BY <1>1, <1>4 DEF LedgerInv, Phases, WaysOut, ledgerVars
<1>. QED
  BY <1>2, <1>3, <1>5 DEF LedgerInv

(* The steps of execute itself leave the readback alone. *)
LEMMA ExecuteKeepsReadback ==
    ASSUME LedgerInv, UNCHANGED vars
    PROVE  IInv' /\ Evidence'
BY NextInv, ToolEvidence DEF LedgerInv

(* The steps of execute around the readback. *)
LEMMA ExecuteStep ==
    ASSUME LedgerInv,
           \/ Refuse \/ PrepareReadback \/ SendMessage \/ StartReadback
           \/ ReadbackReturns \/ ReadbackRaises \/ EnumerateStore \/ Interrupt \/ Report
    PROVE  LedgerInv'
<1>1. UNCHANGED vars /\ UNCHANGED stray
  BY DEF Refuse, PrepareReadback, SendMessage, StartReadback, ReadbackReturns,
     ReadbackRaises, EnumerateStore, Interrupt, Report
<1>2. IInv' /\ Evidence'
  BY <1>1, ExecuteKeepsReadback
<1>3. pc' = pc
  BY <1>1 DEF vars, toolVars
<1>. USE <1>3 DEF LedgerInv, LedgerTypeOK, Phases, WaysOut
<1>4. CASE Refuse
  BY <1>2, <1>4 DEF Refuse, IInv, EXIT_REFUSED
<1>5. CASE PrepareReadback
  BY <1>2, <1>5 DEF PrepareReadback, IInv
<1>6. CASE SendMessage
  BY <1>2, <1>6, Numbers DEF SendMessage, IInv
<1>7. CASE StartReadback
  BY <1>2, <1>7 DEF StartReadback, IInv
<1>8. CASE ReadbackReturns
  BY <1>2, <1>8 DEF ReadbackReturns, IInv
<1>9. CASE ReadbackRaises
  BY <1>2, <1>9 DEF ReadbackRaises, IInv, EXIT_REFUSED
<1>10. CASE EnumerateStore
  <2>1. extra' \in BOOLEAN /\ (listing' = "full" => extra' = (stray = "extra"))
    BY <1>10, Zenon DEF EnumerateStore
  <2>2. listing' \in {"none", "unsearched", "partial", "full"} /\ late' \subseteq Tags
    BY <1>10 DEF EnumerateStore
  <2>. QED
    BY <1>2, <1>10, <2>1, <2>2 DEF EnumerateStore, IInv
<1>11. CASE Interrupt
  BY <1>2, <1>11 DEF Interrupt, IInv, EXIT_MISMATCH
<1>12. CASE Report
  <2>1. UNCHANGED GradedVars
    BY <1>1, <1>12 DEF Report, GradedVars, vars, toolVars
  <2>2. balanced' = balanced /\ ReadbackVerdict' = ReadbackVerdict
    BY <2>1, GradeKept
  <2>3. /\ exit' = IF balanced' THEN EXIT_OK ELSE EXIT_MISMATCH
        /\ verdict' = ReadbackVerdict'
        /\ UNCHANGED <<sent, adapter, stray, listing, extra, late>>
        /\ phase = "report" /\ phase' = "over"
    BY <2>2, <1>12 DEF Report
  <2>. HIDE DEF WaysOut
  <2>4. LedgerTypeOK' /\ Phases'
    BY <1>2, <2>3 DEF IInv, EXIT_OK, EXIT_MISMATCH
  <2>5. WaysOut'
    BY <2>3 DEF WaysOut
  <2>. QED
    BY <1>2, <2>4, <2>5
<1>. QED
  BY <1>4, <1>5, <1>6, <1>7, <1>8, <1>9, <1>10, <1>11, <1>12

(* Every step of the run keeps the invariant. *)
LEMMA LedgerNextInv == LedgerInv /\ [LedgerNext]_allVars => LedgerInv'
<1>. SUFFICES ASSUME LedgerInv, [LedgerNext]_allVars PROVE LedgerInv'
  OBVIOUS
<1>1. CASE UNCHANGED allVars
  <2>1. UNCHANGED vars /\ UNCHANGED ledgerVars
    BY <1>1 DEF allVars
  <2>2. IInv' /\ Evidence'
    BY <2>1, ExecuteKeepsReadback
  <2>3. LedgerTypeOK' /\ Phases'
    BY <2>1, <2>2 DEF LedgerInv, LedgerTypeOK, Phases, ledgerVars, vars, toolVars, IInv
  <2>4. balanced' = balanced /\ ReadbackVerdict' = ReadbackVerdict
    BY <2>1, GradeKept DEF GradedVars, vars, toolVars, ledgerVars
  <2>5. WaysOut'
    BY <2>1, <2>4 DEF LedgerInv, WaysOut, ledgerVars, vars, toolVars
  <2>. QED
    BY <2>2, <2>3, <2>5 DEF LedgerInv
<1>. QED
  BY <1>1, ReadbackStep, ExecuteStep DEF LedgerNext, LedgerTool, Over

(* The inductive invariant of a ledger run. *)
LEMMA LedgerInvariance == LedgerSpec => []LedgerInv
BY LedgerInitInv, LedgerNextInv, PTL DEF LedgerSpec

-----------------------------------------------------------------------------
(* account's `balanced` and the word that verdict and readback_verdict     *)
(* compute from the same counts agree in every combination.                *)
LEMMA GradesAgree == balanced <=> ReadbackVerdict = "BALANCED"
BY DEF balanced, ReadbackVerdict, ToolVerdict

(* A balanced run looked every message up and found one correct record. *)
LEMMA BalancedFound ==
    ASSUME LedgerInv, balanced, NEW t \in Tags
    PROVE  found(t) # <<>> /\ HoldsCorrect(found(t))
<1>1. t \notin missing /\ t \notin duplicated /\ t \notin wrong
  BY DEF balanced, lost
<1>2. found(t) \in Seq(Records)
  BY AnswerRecords DEF LedgerInv, IInv, TypeOK, found
<1>3. found(t) # <<>> /\ ~(Len(found(t)) > 1)
  BY <1>1 DEF missing, duplicated
<1>4. Len(found(t)) = 1
  <2>1. \A s \in Seq(Records) : s # <<>> /\ ~(Len(s) > 1) => Len(s) = 1
    OBVIOUS
  <2>. QED
    BY <1>2, <1>3, <2>1
<1>5. found(t)[1] \in Correct /\ 1 \in DOMAIN found(t)
  BY <1>1, <1>2, <1>4 DEF wrong
<1>. QED
  BY <1>3, <1>5 DEF HoldsCorrect

(* A record was found, so the url was right. *)
LEMMA FoundIsAtTheRightUrl ==
    ASSUME IInv, NEW t \in Tags, found(t) # <<>>
    PROVE  url = "right"
BY DEF IInv, TypeOK, StatusesTell, found, NoAnswer

(* What a ledger run says at its end is true, for every number of          *)
(* messages and every store, adapter, window and budget.                   *)
THEOREM ExitIsEarnedHolds == LedgerSpec => []ExitIsEarned
<1>1. LedgerInv => ExitIsEarned
  <2>. SUFFICES ASSUME LedgerInv PROVE ExitIsEarned
    OBVIOUS
  <2>1. ASSUME exit = EXIT_OK
        PROVE  phase = "over" /\ balanced /\ verdict = ReadbackVerdict /\ sent = NTags
    <3>1. exit # None /\ exit # EXIT_REFUSED /\ exit # EXIT_MISMATCH
      BY <2>1 DEF None, EXIT_OK, EXIT_MISMATCH, EXIT_REFUSED
    <3>. QED
      BY <3>1, Zenon DEF LedgerInv, Phases, WaysOut
  <2>2. ASSUME verdict = "BALANCED"
        PROVE  exit = EXIT_OK
    <3>1. phase = "over" /\ verdict = ReadbackVerdict
            /\ exit = IF balanced THEN EXIT_OK ELSE EXIT_MISMATCH
      BY <2>2 DEF LedgerInv, Phases, WaysOut
    <3>. QED
      BY <2>2, <3>1, GradesAgree
  <2>3. ExitAgreesWithVerdict
    BY <2>1, <2>2, GradesAgree DEF ExitAgreesWithVerdict
  <2>4. BalancedIsEarned
    <3>. SUFFICES ASSUME exit = EXIT_OK
                  PROVE  /\ sent = NTags
                         /\ url = "right" \/ NTags = 0
                         /\ stray # "extra"
                         /\ stable
                         /\ \A t \in Tags : HoldsCorrect(store[t])
      BY DEF BalancedIsEarned
    <3>1. balanced /\ sent = NTags
      BY <2>1
    <3>2. stray # "extra"
      BY <3>1 DEF balanced, searched, LedgerInv, Phases
    <3>3. \A t \in Tags : found(t) # <<>> /\ HoldsCorrect(found(t))
      BY <3>1, BalancedFound
    <3>4. \A t \in Tags : HoldsCorrect(store[t])
      BY <3>3 DEF LedgerInv, Evidence, FoundIsHeld
    <3>5. url = "right" \/ NTags = 0
      <4>1. NTags # 0 => 1 \in Tags
        BY Numbers DEF Tags
      <4>. QED
        BY <4>1, <3>3, FoundIsAtTheRightUrl DEF LedgerInv
    <3>6. stable
      BY <3>1 DEF balanced, unsettled
    <3>. QED
      BY <3>1, <3>2, <3>4, <3>5, <3>6
  <2>5. EndsCleanly
    BY DEF EndsCleanly, LedgerInv, WaysOut, EXIT_OK, EXIT_MISMATCH, EXIT_REFUSED, None
  <2>. QED
    BY <2>3, <2>4, <2>5 DEF ExitIsEarned, LedgerInv
<1>. QED
  BY <1>1, LedgerInvariance, PTL

(* Unseen is not lost, for every number of messages and every store,       *)
(* adapter, window and budget.                                             *)
THEOREM UnseenIsNotLostHolds == LedgerSpec => []UnseenIsNotLost
<1>1. LedgerInv => UnseenIsNotLost
  <2>. SUFFICES ASSUME LedgerInv, verdict = "UNACCOUNTED", duplicated = {}, ~extra
                PROVE  /\ stable
                       /\ complete = 2
                       /\ now - quietSince >= QuietWindow
                       /\ url = "right"
                       /\ \A t \in lost :
                             ~answer[t].partial =>
                                 store[t] = <<>> \/ changedAt[t] >= LastCompletePoll
    BY DEF UnseenIsNotLost
  <2>1. verdict = ReadbackVerdict /\ pc = "done"
    BY DEF LedgerInv, Phases, WaysOut
  <2>2. stable /\ ~readback_failed /\ lost # {}
    BY <2>1 DEF ReadbackVerdict, ToolVerdict, unsettled
  <2>3. complete = 2 /\ now - quietSince >= QuietWindow
    BY <2>2 DEF LedgerInv, IInv, EndOfLoop, PollTimes
  <2>4. url = "right"
    <3>1. ASSUME url = "wrong" PROVE all_404
      <4>1. \A t \in Tags : statuses[t] = {"404"}
        BY <2>3, <3>1 DEF LedgerInv, IInv, StatusesTell
      <4>2. NTags > 0
        BY <2>2, Numbers DEF lost, missing, Tags
      <4>. QED
        BY <4>1, <4>2 DEF all_404
    <3>. QED
      BY <3>1, <2>2 DEF readback_failed, LedgerInv, IInv, TypeOK
  <2>5. ASSUME NEW t \in lost, ~answer[t].partial
        PROVE  store[t] = <<>> \/ changedAt[t] >= LastCompletePoll
    <3>1. t \in Tags /\ found(t) = <<>>
      BY <2>2 DEF lost, missing
    <3>2. EmptySince(t, previousStart) /\ (~exhausted => EmptySince(t, pollStart))
      BY <2>1, <2>3, <3>1 DEF LedgerInv, Evidence, EmptyIsDated
    <3>. QED
      BY <2>4, <2>5, <3>1, <3>2 DEF EmptySince, LastCompletePoll
  <2>. QED
    BY <2>2, <2>3, <2>4, <2>5
<1>. QED
  BY <1>1, LedgerInvariance, PTL

-----------------------------------------------------------------------------
(* What is on hand counts too: a grant moves it to what was handed out, and *)
(* a tick adds no more to it than the tick was worth.                       *)
Balance == level + granted <= Capacity + earned + slivers

MeterInv == MeteredTypeOK /\ Balance

(* A bucket with an idle meter balances. *)
LEMMA MeterInit == MeteredInit => MeterInv
BY EagerAssumption
   DEF MeteredInit, EagerInit, MeterInv, MeteredTypeOK, EagerTypeOK, Balance

(* Every step keeps the balance. *)
LEMMA MeterNext == MeterInv /\ [MeteredNext]_meteredVars => MeterInv'
<1>. SUFFICES ASSUME MeterInv, [MeteredNext]_meteredVars PROVE MeterInv'
  OBVIOUS
<1>. USE EagerAssumption DEF MeterInv, MeteredTypeOK, EagerTypeOK, Balance
<1>1. CASE StartMeter
  BY <1>1 DEF StartMeter, eagerVars
<1>2. CASE MeterEarn
  BY <1>2 DEF MeterEarn, Earn
<1>3. ASSUME NEW n \in Requests, MeterTake(n) PROVE MeterInv'
  BY <1>3 DEF MeterTake, Take, Requests
<1>4. ASSUME NEW n \in Requests, MeterTakeSliver(n) PROVE MeterInv'
  BY <1>4 DEF MeterTakeSliver, TakeSliver, Requests
<1>5. ASSUME NEW r \in Rates, MeterRate(r) PROVE MeterInv'
  BY <1>5 DEF MeterRate, ChangeRate, meter
<1>6. CASE UNCHANGED meteredVars
  BY <1>6 DEF meteredVars, eagerVars, meter
<1>. QED
  BY <1>1, <1>2, <1>3, <1>4, <1>5, <1>6 DEF MeteredNext

(* However the requests fall, no stretch of time sees more than a full     *)
(* bucket and the worth of that time go out, slivers apart.                *)
THEOREM RateLimit == MeteredSpec => []NeverOverIssued
<1>1. MeterInv => NeverOverIssued
  BY EagerAssumption
     DEF MeterInv, MeteredTypeOK, EagerTypeOK, Balance, NeverOverIssued
<1>. QED
  BY <1>1, MeterInit, MeterNext, PTL DEF MeteredSpec
=============================================================================
