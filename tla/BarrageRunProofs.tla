-------------------------- MODULE BarrageRunProofs --------------------------
(***************************************************************************)
(* What the records of a load run say, for any number of workers, any      *)
(* schedule of arrivals or stages, and both modes.                         *)
(***************************************************************************)
EXTENDS BarrageRun, FiniteSetTheorems, WellFoundedInduction, TLAPS

(* Where a worker is inside a task, in the pacer's lock, with a request    *)
(* that has an index, and with one that has a slot.                        *)
InTask == {"take", "pace", "move", "acquire", "number", "append", "send", "in flight", "answered"}
InPacer == {"pace", "move", "acquire", "number"}
Carrying == {"append", "send", "in flight", "answered"}
Entered == {"send", "in flight", "answered"}

(* The pool: a task is in the queue or in the hands of one worker, and its *)
(* Future says how far it is.                                              *)
WorkerOf(w) ==
    /\ wpc[w] \in {"get", "exited"} <=> wtask[w] = NoTask
    /\ wpc[w] = "claim" => future[wtask[w]] \in {"pending", "cancelled"}
    /\ wpc[w] \in InTask => future[wtask[w]] = "running"
    /\ Mode = "open" => wpc[w] \in {"get", "claim", "exited"} \cup Entered

Queue ==
    /\ \A i \in DOMAIN queue : queue[i] # NoTask =>
          /\ future[queue[i]] \in {"pending", "cancelled"}
          /\ \A w \in Workers : wtask[w] # queue[i]
    /\ \A i, j \in DOMAIN queue : queue[i] = queue[j] /\ queue[i] # NoTask => i = j

Submitted ==
    \A k \in Tasks :
        /\ k >= next <=> future[k] = "none"
        /\ future[k] = "cancelled" => closed

Pool ==
    /\ \A w \in Workers : WorkerOf(w)
    /\ \A v, w \in Workers : wtask[v] = wtask[w] /\ wtask[v] # NoTask => v = w
    /\ Queue
    /\ Submitted

(* The main thread: which slots are there, and why it stopped waiting. *)
OpenSlots ==
    Mode = "open" =>
        /\ next <= NTasks + 1
        /\ DOMAIN slots \subseteq Tasks
        /\ 1..(next - 1) \subseteq DOMAIN slots
        /\ main \in {"pace", "gate"} => DOMAIN slots = 1..(next - 1)
        /\ main = "submit" => DOMAIN slots = 1..next
        /\ main \in {"hold", "wait", "stop", "finalise"} /\ ~aborted => DOMAIN slots = Tasks
        /\ closed /\ ~aborted => DOMAIN records = Tasks

WhyStopped ==
    /\ main \in {"stop", "finalise"} \/ (Mode = "closed" /\ main = "hold") =>
          aborted \/ now >= Deadline \/ AnyFailed \/ AllFinished
    /\ main \in {"hold", "wait", "stop", "finalise"} =>
          aborted \/ now >= Deadline \/ next > NTasks

MainThread ==
    /\ next >= 1
    /\ main \in {"gate", "submit"} => next <= NTasks
    /\ Mode = "closed" => main \notin {"pace", "gate"}
    /\ closed <=> main \in {"collect", "shutdown", "over"}
    /\ OpenSlots
    /\ WhyStopped

(* A slot nobody has touched yet. *)
Fresh(s) == s.dispatched = None /\ s.outcome = "none"

(* The slots while the run is not closed: what their outcome says of them, *)
(* and who is going to give them one.                                      *)
SlotOf(i) ==
    /\ slots[i].outcome \in {"none", "completed", "dropped_backlog", "not_dispatched"}
    /\ slots[i].outcome = "completed" => slots[i].dispatched # None
    /\ slots[i].outcome \in {"dropped_backlog", "not_dispatched"} => slots[i].dispatched = None
    /\ slots[i].outcome = "not_dispatched" => now >= Deadline

RequestOf(w) ==
    /\ wpc[w] \in Entered => held[w] \in DOMAIN slots /\ slots[held[w]].outcome = "none"
    /\ wpc[w] = "send" => slots[held[w]].dispatched = None
    /\ wpc[w] \in {"in flight", "answered"} => slots[held[w]].dispatched # None
    /\ wpc[w] = "append" => held[w] \notin DOMAIN slots

Waiting ==
    Mode = "open" =>
        /\ \A k \in Tasks : future[k] = "pending" => k \in DOMAIN slots /\ Fresh(slots[k])
        /\ main = "submit" => Fresh(slots[next])

EverySlotIsCarried ==
    ~AnyFailed /\ ~aborted =>
        \A i \in DOMAIN slots : slots[i].outcome = "none" =>
            \/ \E w \in Workers : wpc[w] \in Entered /\ held[w] = i
            \/ Mode = "open" /\ i \in Tasks /\ future[i] = "pending"
            \/ Mode = "open" /\ main = "submit" /\ i = next

OpenRun ==
    ~closed =>
        /\ \A i \in DOMAIN slots : SlotOf(i)
        /\ wire = {i \in DOMAIN slots : slots[i].dispatched # None}
        /\ \A w \in Workers : RequestOf(w)
        /\ Waiting
        /\ EverySlotIsCarried

(* An index is carried by one worker at most. *)
Indices ==
    /\ \A v, w \in Workers :
          wpc[v] \in Carrying /\ wpc[w] \in Carrying /\ held[v] = held[w] => v = w
    /\ Mode = "open" => \A w \in Workers : wpc[w] \in Entered => held[w] = wtask[w]
    /\ Mode = "closed" =>
          /\ \A i \in DOMAIN slots : i < index
          /\ \A w \in Workers : wpc[w] \in Carrying => held[w] < index

(* The pacer: one worker in its lock, and the tokens in order of time.     *)
Lock == \A w \in Workers : wpc[w] \in InPacer => holder = w

TokenTimes ==
    Mode = "closed" =>
        /\ \A i \in DOMAIN slots : slots[i].due <= now
        /\ \A w \in Workers : wpc[w] \in {"number", "append"} => stamp[w] <= now
        /\ \A w \in Workers : wpc[w] = "number" =>
              /\ \A i \in DOMAIN slots : slots[i].due <= stamp[w]
              /\ \A v \in Workers : wpc[v] = "append" => stamp[v] <= stamp[w]
        /\ \A v, w \in Workers : wpc[v] = "append" /\ wpc[w] = "append" /\ held[v] < held[w]
              => stamp[v] <= stamp[w]
        /\ \A w \in Workers : wpc[w] = "append" =>
              \A i \in DOMAIN slots : /\ i < held[w] => slots[i].due <= stamp[w]
                                      /\ held[w] < i => stamp[w] <= slots[i].due

BarrageInv ==
    /\ TypeOK
    /\ Pool
    /\ MainThread
    /\ OpenRun
    /\ Indices
    /\ Lock
    /\ TokenTimes
    /\ RecordsTellWhatWasSent
    /\ TokenOrderIsIndexOrder
    /\ CutByTheDeadlineOnly
    /\ NoArrivalIsForgotten
-----------------------------------------------------------------------------
(* A set of natural numbers that is not empty has a least element. *)
LEMMA LeastElement ==
    ASSUME NEW S, S \subseteq Nat, S # {}
    PROVE  \E i \in S : \A j \in S : i <= j
<1>1. PICK i \in S : \A j \in S : ~(<<j, i>> \in OpToRel(<, Nat))
  BY NatLessThanWellFounded, WFMin, Zenon
<1>2. \A j \in S : ~(j < i)
  BY <1>1 DEF OpToRel
<1>. QED
  BY <1>2

(* The closed loop's stages have a rate and an end, at any time. *)
LEMMA StageType ==
    ASSUME NEW t \in Nat
    PROVE  StageAt(t) \in [end : Nat, rate : Nat \ {0}]
<1>. DEFINE later == {i \in DOMAIN Stages : t < Stages[i].end}
<1>1. \A i \in DOMAIN Stages : Stages[i] \in [end : Nat, rate : Nat \ {0}]
  <2>1. Stages \in Seq([end : Nat, rate : Nat \ {0}])
    BY BarrageAssumption
  <2>2. ASSUME NEW S, NEW s \in Seq(S) PROVE \A i \in DOMAIN s : s[i] \in S
    OBVIOUS
  <2>. QED
    BY <2>1, <2>2, Zenon
<1>2. DOMAIN Stages \subseteq Nat /\ Len(Stages) \in DOMAIN Stages
  BY BarrageAssumption
<1>3. CASE later = {}
  BY <1>1, <1>2, <1>3 DEF StageAt
<1>4. CASE later # {}
  <2>1. \E i \in later : \A j \in later : i <= j
    BY <1>2, <1>4, LeastElement
  <2>2. (CHOOSE i \in later : \A j \in later : i <= j) \in DOMAIN Stages
    BY <2>1
  <2>. QED
    BY <1>1, <1>4, <2>2 DEF StageAt
<1>. QED
  BY <1>3, <1>4

(* The wait for a token is a number of ticks. *)
LEMMA WaitTimeType ==
    ASSUME credit \in 0..Token, NEW r \in Nat \ {0}
    PROVE  WaitTime(r) \in Nat
<1>1. Token - credit + r - 1 \in Nat
  BY BarrageAssumption
<1>2. \A n \in Nat : n \div r \in Nat
  OBVIOUS
<1>. QED
  BY <1>1, <1>2 DEF WaitTime
-----------------------------------------------------------------------------
(* What a worker's step does to the pool: it goes on with its task, ends   *)
(* it, takes the next one from the queue, or takes it up.                  *)

WorkerStep(w) == Worker(w) \/ Answer(w) \/ HookRaises(w)

Shift(w, s) ==
    /\ wpc[w] \in InTask
    /\ s \in IF Mode = "open" THEN Entered ELSE InTask
    /\ wpc' = [wpc EXCEPT ![w] = s]
    /\ UNCHANGED <<queue, future, wtask>>

Ends(w) ==
    /\ wpc[w] \in InTask
    /\ \E how \in {"done", "failed", "interrupted"} : EndTask(w, how)

FirstStep == IF Mode = "open" THEN "send" ELSE "take"

PoolStep(w) ==
    \/ \E s \in InTask : Shift(w, s)
    \/ Ends(w)
    \/ Get(w)
    \/ Claim(w, FirstStep)

(* What a step of a worker does to the pool. *)
LEMMA WorkerPoolStep ==
    ASSUME Pool, NEW w \in Workers, WorkerStep(w)
    PROVE  PoolStep(w)
<1>1. Mode = "open" => wpc[w] \in {"get", "claim", "exited"} \cup Entered
  BY DEF Pool, WorkerOf
<1>2. Mode \in {"open", "closed"}
  BY BarrageAssumption
<1>3. CASE GetTask(w) \/ StartTask(w)
  BY <1>3 DEF GetTask, StartTask, PoolStep, FirstStep
<1>4. CASE EnterPacer(w) \/ NextStage(w) \/ Number(w) \/ Dispatch(w) \/ Answer(w)
  BY <1>1, <1>4 DEF EnterPacer, NextStage, Number, Dispatch, OnTheWire, Answer,
                    PoolStep, Shift, InTask, Entered
<1>5. CASE Price(w) \/ TakeToken(w)
  BY <1>1, <1>5 DEF Price, TakeToken, NoMoreTokens, SleepInPacer, PoolStep, Shift, Ends,
                    InTask, Entered
<1>6. CASE AppendSlot(w) \/ HookRaises(w)
  BY <1>1, <1>6 DEF AppendSlot, HookRaises, PoolStep, Shift, Ends, InTask, Entered
<1>7. CASE SendClosed(w) \/ SendRefused(w) \/ Record(w)
  <2>1. NextRequest(w) /\ wpc[w] \in InTask
    BY <1>7 DEF SendClosed, SendRefused, Record, Outcome, InTask
  <2>. QED
    BY <1>2, <2>1 DEF NextRequest, PoolStep, Shift, Ends, InTask
<1>. QED
  BY <1>3, <1>4, <1>5, <1>6, <1>7 DEF WorkerStep, Worker

(* Such a step keeps the types of the pool, and the other workers. *)
LEMMA PoolStepTypes ==
    ASSUME TypeOK, Pool, NEW w \in Workers, PoolStep(w)
    PROVE  /\ queue' \in Seq(Tasks \cup {NoTask})
           /\ future' \in [Tasks -> FutureStates]
           /\ wpc' \in [Workers -> WorkerStates]
           /\ wtask' \in [Workers -> Tasks \cup {NoTask}]
           /\ \A v \in Workers : v # w => wpc'[v] = wpc[v] /\ wtask'[v] = wtask[v]
<1>0. /\ queue \in Seq(Tasks \cup {NoTask})
      /\ future \in [Tasks -> FutureStates]
      /\ wpc \in [Workers -> WorkerStates]
      /\ wtask \in [Workers -> Tasks \cup {NoTask}]
  BY DEF TypeOK
<1>1. ASSUME NEW s \in InTask, Shift(w, s)
      PROVE  wpc' = [wpc EXCEPT ![w] = s] /\ s \in WorkerStates /\ UNCHANGED <<queue, future, wtask>>
  BY <1>1 DEF Shift, InTask, WorkerStates
<1>2. CASE \E s \in InTask : Shift(w, s)
  BY <1>0, <1>1, <1>2
<1>3. CASE Ends(w)
  BY <1>0, <1>3 DEF Ends, EndTask, WorkerStates, FutureStates
<1>4. CASE Get(w)
  <2>1. Head(queue) \in Tasks \cup {NoTask} /\ Tail(queue) \in Seq(Tasks \cup {NoTask})
    BY <1>0, <1>4 DEF Get
  <2>. QED
    BY <1>0, <1>4, <2>1 DEF Get, WorkerStates
<1>5. CASE Claim(w, FirstStep)
  BY <1>0, <1>5 DEF Claim, FirstStep, WorkerStates, FutureStates
<1>. QED
  BY <1>2, <1>3, <1>4, <1>5 DEF PoolStep

(* Such a step keeps the bookkeeping of the pool. *)
LEMMA PoolStepKeeps ==
    ASSUME TypeOK, Pool, NEW w \in Workers, PoolStep(w), UNCHANGED <<next, closed>>
    PROVE  Pool'
<1>0. /\ queue \in Seq(Tasks \cup {NoTask})
      /\ future \in [Tasks -> FutureStates]
      /\ wpc \in [Workers -> WorkerStates]
      /\ wtask \in [Workers -> Tasks \cup {NoTask}]
      /\ NoTask \notin Tasks
  BY DEF TypeOK, Tasks, NoTask
<1>1. CASE \E s \in InTask : Shift(w, s)
  <2>1. PICK s \in InTask : Shift(w, s)
    BY <1>1
  <2>2. /\ wpc'[w] = s /\ wpc[w] \in InTask /\ UNCHANGED <<queue, future, wtask>>
        /\ \A v \in Workers : v # w => wpc'[v] = wpc[v]
        /\ Mode = "open" => s \in Entered
    BY <1>0, <2>1 DEF Shift
  <2>3. \A v \in Workers : WorkerOf(v)'
    BY <2>2 DEF Pool, WorkerOf, InTask, Entered
  <2>. QED
    BY <2>2, <2>3 DEF Pool, Queue, Submitted
<1>2. CASE Ends(w)
  <2>1. PICK how \in {"done", "failed", "interrupted"} : EndTask(w, how)
    BY <1>2 DEF Ends
  <2>2. wtask[w] \in Tasks /\ future[wtask[w]] = "running"
    BY <1>0, <1>2 DEF Ends, Pool, WorkerOf, InTask
  <2>3. /\ wpc'[w] = "get" /\ wtask'[w] = NoTask /\ queue' = queue
        /\ \A v \in Workers : v # w => wpc'[v] = wpc[v] /\ wtask'[v] = wtask[v]
        /\ future'[wtask[w]] = how
        /\ \A k \in Tasks : k # wtask[w] => future'[k] = future[k]
    BY <1>0, <2>1, <2>2 DEF EndTask
  <2>4. ASSUME NEW v \in Workers PROVE WorkerOf(v)'
    <3>1. CASE v = w
      BY <2>3, <3>1 DEF WorkerOf, InTask
    <3>2. CASE v # w
      <4>1. WorkerOf(v) /\ (wtask[v] # NoTask => wtask[v] # wtask[w] /\ wtask[v] \in Tasks)
        BY <1>0, <3>2 DEF Pool
      <4>2. wpc'[v] = wpc[v] /\ wtask'[v] = wtask[v]
        BY <2>3, <3>2
      <4>3. wtask[v] # NoTask => future'[wtask[v]] = future[wtask[v]]
        BY <2>3, <4>1
      <4>. QED
        BY <4>1, <4>2, <4>3 DEF WorkerOf, InTask
    <3>. QED
      BY <3>1, <3>2
  <2>5. Queue'
    <3>1. \A i \in DOMAIN queue : queue[i] \in Tasks \cup {NoTask}
      BY <1>0
    <3>2. \A i \in DOMAIN queue : queue[i] # NoTask => queue[i] # wtask[w]
      BY DEF Pool, Queue
    <3>. QED
      BY <2>3, <3>1, <3>2 DEF Pool, Queue
  <2>6. Submitted'
    BY <2>1, <2>2, <2>3 DEF Pool, Submitted
  <2>. QED
    BY <2>3, <2>4, <2>5, <2>6 DEF Pool
<1>3. CASE Get(w)
  <2>. DEFINE h == Head(queue)
              q == Tail(queue)
  <2>1. /\ h \in Tasks \cup {NoTask} /\ q \in Seq(Tasks \cup {NoTask})
        /\ 1 \in DOMAIN queue /\ h = queue[1]
        /\ \A i \in DOMAIN q : i + 1 \in DOMAIN queue /\ q[i] = queue[i + 1] /\ i \in Nat /\ i + 1 # 1
    BY <1>0, <1>3 DEF Get
  <2>2. /\ queue' = q /\ UNCHANGED future
        /\ wtask'[w] = h
        /\ wpc'[w] = IF h = NoTask THEN "exited" ELSE "claim"
        /\ \A v \in Workers : v # w => wpc'[v] = wpc[v] /\ wtask'[v] = wtask[v]
    BY <1>0, <1>3 DEF Get
  <2>. HIDE DEF h, q
  <2>3. \A v \in Workers : WorkerOf(v)'
    <3>1. h # NoTask => future[h] \in {"pending", "cancelled"}
      BY <2>1 DEF Pool, Queue
    <3>. QED
      BY <2>2, <3>1 DEF Pool, WorkerOf, InTask
  <2>4. h # NoTask => \A v \in Workers : wtask[v] # h
    BY <2>1 DEF Pool, Queue
  <2>5. Queue'
    <3>1. ASSUME NEW i \in DOMAIN q, q[i] # NoTask
          PROVE  future[q[i]] \in {"pending", "cancelled"} /\ \A v \in Workers : wtask'[v] # q[i]
      <4>1. /\ future[queue[i + 1]] \in {"pending", "cancelled"}
            /\ \A v \in Workers : wtask[v] # queue[i + 1]
        BY <2>1, <3>1 DEF Pool, Queue
      <4>2. h # q[i]
        BY <2>1, <3>1 DEF Pool, Queue
      <4>. QED
        BY <2>1, <2>2, <4>1, <4>2
    <3>2. ASSUME NEW i \in DOMAIN q, NEW j \in DOMAIN q, q[i] = q[j], q[i] # NoTask
          PROVE  i = j
      <4>1. i + 1 = j + 1
        BY <2>1, <3>2 DEF Pool, Queue
      <4>. QED
        BY <2>1, <4>1
    <3>. QED
      BY <2>2, <3>1, <3>2 DEF Queue
  <2>6. \A u, v \in Workers : wtask'[u] = wtask'[v] /\ wtask'[u] # NoTask => u = v
    BY <2>2, <2>4 DEF Pool
  <2>. QED
    BY <2>2, <2>3, <2>5, <2>6 DEF Pool, Submitted
<1>4. CASE Claim(w, FirstStep)
  <2>0. wtask[w] \in Tasks /\ future[wtask[w]] \in {"pending", "cancelled"} /\ wpc[w] = "claim"
    BY <1>0, <1>4 DEF Claim, Pool, WorkerOf
  <2>1. CASE future[wtask[w]] = "cancelled"
    <3>1. /\ wpc'[w] = "get" /\ wtask'[w] = NoTask /\ UNCHANGED <<queue, future>>
          /\ \A v \in Workers : v # w => wpc'[v] = wpc[v] /\ wtask'[v] = wtask[v]
      BY <1>0, <1>4, <2>1 DEF Claim
    <3>2. \A v \in Workers : WorkerOf(v)'
      BY <3>1 DEF Pool, WorkerOf, InTask
    <3>3. Queue'
      BY <1>0, <3>1 DEF Pool, Queue
    <3>. QED
      BY <1>0, <3>1, <3>2, <3>3 DEF Pool, Submitted
  <2>2. CASE future[wtask[w]] # "cancelled"
    <3>1. /\ wpc'[w] = FirstStep /\ UNCHANGED <<queue, wtask>>
          /\ \A v \in Workers : v # w => wpc'[v] = wpc[v]
          /\ future'[wtask[w]] = "running"
          /\ \A k \in Tasks : k # wtask[w] => future'[k] = future[k]
      BY <1>0, <1>4, <2>0, <2>2 DEF Claim
    <3>2. FirstStep \in InTask /\ (Mode = "open" => FirstStep \in Entered)
      BY DEF FirstStep, InTask, Entered
    <3>3. ASSUME NEW v \in Workers PROVE WorkerOf(v)'
      <4>1. CASE v = w
        BY <1>0, <2>0, <3>1, <3>2, <4>1 DEF WorkerOf, InTask
      <4>2. CASE v # w
        <5>1. WorkerOf(v) /\ (wtask[v] # NoTask => wtask[v] # wtask[w] /\ wtask[v] \in Tasks)
          BY <1>0, <4>2 DEF Pool
        <5>. QED
          BY <3>1, <4>2, <5>1 DEF WorkerOf, InTask
      <4>. QED
        BY <4>1, <4>2
    <3>4. Queue'
      <4>1. \A i \in DOMAIN queue : queue[i] \in Tasks \cup {NoTask}
        BY <1>0
      <4>2. \A i \in DOMAIN queue : queue[i] # NoTask => queue[i] # wtask[w]
        BY DEF Pool, Queue
      <4>. QED
        BY <3>1, <4>1, <4>2 DEF Pool, Queue
    <3>5. Submitted'
      BY <2>0, <3>1 DEF Pool, Submitted
    <3>. QED
      BY <3>1, <3>3, <3>4, <3>5 DEF Pool
  <2>. QED
    BY <2>1, <2>2
<1>. QED
  BY <1>1, <1>2, <1>3, <1>4 DEF PoolStep

(* A task that failed stays failed, and nothing runs again once every task *)
(* that was submitted is over.                                             *)
LEMMA PoolStepVerdicts ==
    ASSUME TypeOK, Pool, NEW w \in Workers, PoolStep(w)
    PROVE  /\ AnyFailed => AnyFailed'
           /\ AllFinished => AllFinished'
<1>0. future \in [Tasks -> FutureStates] /\ wtask \in [Workers -> Tasks \cup {NoTask}]
  BY DEF TypeOK
<1>1. CASE UNCHANGED future
  BY <1>1 DEF AnyFailed, AllFinished, Failed
<1>2. CASE \E how \in FutureStates : /\ future' = [future EXCEPT ![wtask[w]] = how]
                                     /\ wtask[w] \in Tasks
                                     /\ future[wtask[w]] \in {"pending", "running"}
  BY <1>0, <1>2 DEF AnyFailed, AllFinished, Failed, FutureStates
<1>3. CASE Ends(w)
  <2>1. wtask[w] \in Tasks /\ future[wtask[w]] = "running"
    BY <1>0, <1>3 DEF Ends, Pool, WorkerOf, InTask
  <2>. QED
    BY <1>2, <1>3, <2>1 DEF Ends, EndTask, FutureStates
<1>4. CASE Claim(w, FirstStep)
  <2>1. wtask[w] \in Tasks /\ future[wtask[w]] \in {"pending", "cancelled"}
    BY <1>0, <1>4 DEF Claim, Pool, WorkerOf
  <2>. QED
    BY <1>1, <1>2, <1>4, <2>1 DEF Claim, FutureStates
<1>. QED
  BY <1>1, <1>3, <1>4 DEF PoolStep, Shift, Get

(* executor.submit and executor.shutdown. *)
LEMMA SubmitKeeps ==
    ASSUME TypeOK, Pool, MainThread, Submit
    PROVE  /\ queue' \in Seq(Tasks \cup {NoTask})
           /\ future' \in [Tasks -> FutureStates]
           /\ next \in Tasks
           /\ Pool'
<1>0. /\ queue \in Seq(Tasks \cup {NoTask})
      /\ future \in [Tasks -> FutureStates]
      /\ wtask \in [Workers -> Tasks \cup {NoTask}]
      /\ NoTask \notin Tasks /\ NTasks \in Nat
  BY PoolAssumption DEF TypeOK, Tasks, NoTask
<1>1. next \in Tasks
  BY <1>0 DEF TypeOK, MainThread, Submit, MainGoes, Tasks
<1>2. /\ future' = [future EXCEPT ![next] = "pending"]
      /\ queue' = Append(queue, next)
      /\ next' = next + 1
      /\ UNCHANGED <<wpc, wtask, closed>>
  BY DEF Submit, SubmitTask, runVars
<1>3. future[next] = "none"
  BY <1>1 DEF Pool, Submitted, Tasks
<1>4. /\ future'[next] = "pending"
      /\ \A k \in Tasks : k # next => future'[k] = future[k]
  BY <1>0, <1>1, <1>2
<1>5. ASSUME NEW w \in Workers PROVE wtask[w] # next
  <2>1. wpc[w] \in {"get", "exited", "claim"} \cup InTask
    BY DEF TypeOK, WorkerStates, InTask
  <2>2. WorkerOf(w)
    BY DEF Pool
  <2>. QED
    BY <1>0, <1>1, <1>3, <2>1, <2>2 DEF WorkerOf
<1>6. \A w \in Workers : WorkerOf(w)'
  BY <1>0, <1>2, <1>4, <1>5 DEF Pool, WorkerOf, InTask
<1>7. Queue'
  <2>1. \A i \in DOMAIN queue : queue[i] \in Tasks \cup {NoTask} /\ queue[i] # next
    BY <1>0, <1>1, <1>3 DEF Pool, Queue
  <2>2. \A i \in DOMAIN queue' : queue'[i] = next \/ (i \in DOMAIN queue /\ queue'[i] = queue[i])
    BY <1>0, <1>1, <1>2
  <2>3. \A i, j \in DOMAIN queue' : queue'[i] = next /\ queue'[j] = next => i = j
    <3>1. \A i \in DOMAIN queue' : queue'[i] = next => i = Len(queue) + 1
      BY <1>0, <1>1, <1>2, <2>1
    <3>. QED
      BY <3>1
  <2>4. ASSUME NEW i \in DOMAIN queue', queue'[i] # NoTask
        PROVE  /\ future'[queue'[i]] \in {"pending", "cancelled"}
               /\ \A w \in Workers : wtask'[w] # queue'[i]
    BY <1>2, <1>4, <1>5, <2>1, <2>2, <2>4 DEF Pool, Queue
  <2>5. ASSUME NEW i \in DOMAIN queue', NEW j \in DOMAIN queue', queue'[i] = queue'[j],
               queue'[i] # NoTask
        PROVE  i = j
    BY <2>1, <2>2, <2>3, <2>5 DEF Pool, Queue
  <2>. QED
    BY <2>4, <2>5 DEF Queue
<1>8. Submitted'
  <2>1. \A k \in Tasks : k >= next + 1 <=> (k >= next /\ k # next)
    BY DEF TypeOK, Tasks
  <2>. QED
    BY <1>1, <1>2, <1>3, <1>4, <2>1 DEF Pool, Submitted
<1>9. queue' \in Seq(Tasks \cup {NoTask}) /\ future' \in [Tasks -> FutureStates]
  BY <1>0, <1>1, <1>2 DEF FutureStates
<1>. QED
  BY <1>1, <1>2, <1>6, <1>7, <1>8, <1>9 DEF Pool

(* The shutdown cancels what is queued, and keeps the rest. *)
LEMMA ShutdownKeeps ==
    ASSUME TypeOK, Pool, MainThread, Shutdown
    PROVE  /\ queue' \in Seq(Tasks \cup {NoTask})
           /\ future' \in [Tasks -> FutureStates]
           /\ AnyFailed' <=> AnyFailed
           /\ Pool'
<1>. DEFINE n == Cardinality(Workers)
            nones == [i \in 1..n |-> NoTask]
<1>0. /\ queue \in Seq(Tasks \cup {NoTask})
      /\ future \in [Tasks -> FutureStates]
      /\ wtask \in [Workers -> Tasks \cup {NoTask}]
      /\ NoTask \notin Tasks
      /\ n \in Nat
  BY PoolAssumption, FS_CardinalityType DEF TypeOK, Tasks, NoTask
<1>1. /\ closed /\ UNCHANGED <<wpc, wtask, closed, next>>
      /\ queue' = queue \o nones
      /\ future' = [k \in Tasks |-> IF future[k] = "pending" THEN "cancelled" ELSE future[k]]
  BY DEF Shutdown, ShutdownPool, CancelPending, runVars, MainThread, MainGoes
<1>. HIDE DEF n
<1>2. nones \in Seq(Tasks \cup {NoTask}) /\ Len(nones) = n /\ \A i \in 1..n : nones[i] = NoTask
  BY <1>0
<1>. HIDE DEF nones
<1>3. queue' \in Seq(Tasks \cup {NoTask})
  BY <1>0, <1>1, <1>2
<1>4. \A i \in DOMAIN queue' : queue'[i] = NoTask \/ (i \in DOMAIN queue /\ queue'[i] = queue[i])
  <2>1. ASSUME NEW i \in DOMAIN queue', i \notin DOMAIN queue PROVE queue'[i] = NoTask
    <3>1. i - Len(queue) \in 1..n /\ queue'[i] = nones[i - Len(queue)]
      BY <1>0, <1>1, <1>2, <2>1
    <3>. QED
      BY <1>2, <3>1
  <2>2. ASSUME NEW i \in DOMAIN queue' , i \in DOMAIN queue PROVE queue'[i] = queue[i]
    BY <1>0, <1>1, <1>2, <2>2
  <2>. QED
    BY <2>1, <2>2
<1>5. future' \in [Tasks -> FutureStates]
  BY <1>0, <1>1 DEF FutureStates
<1>6. \A k \in Tasks : future'[k] = IF future[k] = "pending" THEN "cancelled" ELSE future[k]
  BY <1>1
<1>7. \A w \in Workers : WorkerOf(w)'
  BY <1>0, <1>1, <1>6 DEF Pool, WorkerOf, InTask
<1>8. Queue'
  <2>1. \A i \in DOMAIN queue : queue[i] \in Tasks \cup {NoTask}
    BY <1>0
  <2>. QED
    BY <1>1, <1>4, <1>6, <2>1 DEF Pool, Queue
<1>9. Submitted'
  BY <1>1, <1>6 DEF Pool, Submitted
<1>10. AnyFailed' <=> AnyFailed
  BY <1>6 DEF AnyFailed, Failed
<1>. QED
  BY <1>1, <1>3, <1>5, <1>7, <1>8, <1>9, <1>10 DEF Pool
-----------------------------------------------------------------------------
(* What a worker's step does to the requests: it leaves alone the main     *)
(* thread, the other workers and every slot but its own.                   *)

Frame(w) ==
    /\ UNCHANGED <<now, main, next, records, futures, aborted, result, closed>>
    /\ \A v \in Workers : v # w => /\ wpc'[v] = wpc[v] /\ wtask'[v] = wtask[v]
                                   /\ held'[v] = held[v] /\ stamp'[v] = stamp[v]

(* What a step of a worker leaves alone. *)
LEMMA WorkerFrame ==
    ASSUME TypeOK, Pool, NEW w \in Workers, WorkerStep(w)
    PROVE  Frame(w)
<1>0. held \in [Workers -> Nat] /\ stamp \in [Workers -> Nat]
  BY DEF TypeOK
<1>1. UNCHANGED <<now, main, next, records, futures, aborted, result, closed>>
  BY DEF WorkerStep, Worker, GetTask, StartTask, EnterPacer, Price, NextStage, TakeToken,
         Number, AppendSlot, SendClosed, SendRefused, Dispatch, OnTheWire, Record, Answer,
         HookRaises, Outcome, mainVars, runVars
<1>2. \A v \in Workers : v # w => wpc'[v] = wpc[v] /\ wtask'[v] = wtask[v]
  BY WorkerPoolStep, PoolStepTypes
<1>3. CASE LetGo(w) \/ UNCHANGED <<held, stamp>>
  BY <1>0, <1>1, <1>2, <1>3 DEF LetGo, Frame
<1>4. CASE GetTask(w) \/ EnterPacer(w) \/ NextStage(w) \/ Dispatch(w)
  BY <1>3, <1>4 DEF GetTask, EnterPacer, NextStage, Dispatch, OnTheWire, carried
<1>5. CASE AppendSlot(w) \/ SendClosed(w) \/ SendRefused(w) \/ Record(w) \/ HookRaises(w)
  BY <1>3, <1>5 DEF AppendSlot, SendClosed, SendRefused, Outcome, Record, HookRaises,
                    NextRequest, carried
<1>6. CASE StartTask(w) \/ Number(w)
  BY <1>0, <1>1, <1>2, <1>6 DEF StartTask, Number, Frame
<1>7. CASE Answer(w)
  BY <1>0, <1>1, <1>2, <1>7 DEF Answer, Frame
<1>8. CASE Price(w) \/ TakeToken(w)
  <2>1. LetGo(w) \/ \E t : stamp' = [stamp EXCEPT ![w] = t] /\ held' = held
    BY <1>8 DEF Price, TakeToken, NoMoreTokens, SleepInPacer
  <2>. QED
    BY <1>0, <1>1, <1>2, <1>3, <2>1 DEF Frame
<1>. QED
  BY <1>4, <1>5, <1>6, <1>7, <1>8 DEF WorkerStep, Worker

(* The index and the clock reading a worker carries are numbers. *)
LEMMA CarriedTypes ==
    ASSUME TypeOK, Pool, NEW w \in Workers, WorkerStep(w)
    PROVE  held' \in [Workers -> Nat] /\ stamp' \in [Workers -> Nat]
<1>0. held \in [Workers -> Nat] /\ stamp \in [Workers -> Nat] /\ index \in Nat /\ now \in Nat
  BY DEF TypeOK
<1>1. CASE LetGo(w) \/ UNCHANGED <<held, stamp>>
  BY <1>0, <1>1 DEF LetGo
<1>2. CASE GetTask(w) \/ EnterPacer(w) \/ NextStage(w) \/ Dispatch(w)
  BY <1>1, <1>2 DEF GetTask, EnterPacer, NextStage, Dispatch, OnTheWire, carried
<1>3. CASE AppendSlot(w) \/ SendClosed(w) \/ SendRefused(w) \/ Record(w) \/ HookRaises(w)
  BY <1>1, <1>3 DEF AppendSlot, SendClosed, SendRefused, Outcome, Record, HookRaises,
                    NextRequest, carried
<1>4. CASE StartTask(w)
  <2>1. wtask[w] \in Nat
    BY PoolAssumption DEF TypeOK, Tasks, NoTask
  <2>. QED
    BY <1>0, <1>4, <2>1 DEF StartTask
<1>5. CASE Number(w) \/ Answer(w)
  BY <1>0, <1>5 DEF Number, Answer
<1>6. CASE Price(w)
  <2>. DEFINE stage == StageAt(now)
              ready == now + WaitTime(stage.rate)
  <2>1. stage.end \in Nat /\ stage.rate \in Nat \ {0}
    BY <1>0, StageType
  <2>2. ready \in Nat
    BY <1>0, <2>1, WaitTimeType DEF TypeOK
  <2>3. \/ LetGo(w)
        \/ stamp' = [stamp EXCEPT ![w] = ready] /\ held' = held
        \/ stamp' = [stamp EXCEPT ![w] = stage.end] /\ held' = held
    BY <1>6 DEF Price, NoMoreTokens, SleepInPacer
  <2>. HIDE DEF stage, ready
  <2>. QED
    BY <1>0, <1>1, <2>1, <2>2, <2>3
<1>7. CASE TakeToken(w)
  <2>1. LetGo(w) \/ (stamp' = [stamp EXCEPT ![w] = now] /\ held' = held)
    BY <1>7 DEF TakeToken, NoMoreTokens
  <2>. QED
    BY <1>0, <1>1, <2>1
<1>. QED
  BY <1>2, <1>3, <1>4, <1>5, <1>6, <1>7 DEF WorkerStep, Worker

(* A step of a worker keeps the types of the pacer. *)
LEMMA PacerTypes ==
    ASSUME TypeOK, NEW w \in Workers, WorkerStep(w)
    PROVE  /\ holder' \in Workers \cup {NoWorker}
           /\ done' \in BOOLEAN
           /\ index' \in Nat
           /\ rate' \in Nat \ {0}
           /\ credit' \in 0..Token
<1>0. /\ holder \in Workers \cup {NoWorker} /\ index \in Nat /\ rate \in Nat \ {0}
      /\ credit \in 0..Token /\ now \in Nat /\ Token \in Nat
  BY BarrageAssumption DEF TypeOK
<1>1. holder' \in {holder, w, NoWorker} /\ done' \in {done, TRUE}
  BY DEF WorkerStep, Worker, GetTask, StartTask, EnterPacer, Price, NextStage, TakeToken,
         Number, AppendSlot, SendClosed, SendRefused, Dispatch, OnTheWire, Record, Answer,
         HookRaises, pacerVars, NoMoreTokens, SleepInPacer
<1>2. done' \in BOOLEAN
  BY <1>1 DEF TypeOK
<1>3. index' \in {index, index + 1} /\ rate' \in {rate, StageAt(now).rate}
  BY DEF WorkerStep, Worker, GetTask, StartTask, EnterPacer, Price, NextStage, TakeToken,
         Number, AppendSlot, SendClosed, SendRefused, Dispatch, OnTheWire, Record, Answer,
         HookRaises, pacerVars
<1>4. credit' = credit \/ (credit >= Token /\ credit' = credit - Token)
  BY DEF WorkerStep, Worker, GetTask, StartTask, EnterPacer, Price, NextStage, TakeToken,
         Number, AppendSlot, SendClosed, SendRefused, Dispatch, OnTheWire, Record, Answer,
         HookRaises, pacerVars
<1>5. rate' \in Nat \ {0}
  BY <1>0, <1>3, StageType
<1>6. index' \in Nat /\ credit' \in 0..Token
  BY <1>0, <1>3, <1>4
<1>. QED
  BY <1>0, <1>1, <1>2, <1>5, <1>6

(* The step gives the slot of the worker's request a new value. *)
Touches(w, s) ==
    /\ ~closed
    /\ held[w] \in DOMAIN slots
    /\ s \in Slots
    /\ DOMAIN slots' = DOMAIN slots
    /\ slots'[held[w]] = s
    /\ \A i \in DOMAIN slots : i # held[w] => slots'[i] = slots[i]

(* A refused request changes its own slot only. *)
LEMMA RefusedTouches ==
    ASSUME TypeOK, OpenRun, NEW w \in Workers, SendRefused(w)
    PROVE  \E s : /\ Touches(w, s)
                  /\ s.due = slots[held[w]].due
                  /\ s.dispatched = None
                  /\ s.outcome \in {"dropped_backlog", "not_dispatched"}
                  /\ s.outcome = "not_dispatched" => now >= Deadline
<1>. DEFINE h == held[w]
<1>1. ~closed /\ h \in DOMAIN slots /\ slots[h] \in Slots /\ slots[h].dispatched = None
  BY DEF SendRefused, OpenRun, RequestOf, Entered, TypeOK
<1>2. PICK o \in {"dropped_backlog", "not_dispatched"} :
          /\ slots' = [slots EXCEPT ![h].outcome = o]
          /\ o = "not_dispatched" => now >= Deadline
  BY DEF SendRefused, Outcome, Late
<1>. DEFINE s == [slots[h] EXCEPT !.outcome = o]
<1>3. /\ s \in Slots /\ s.outcome = o
      /\ s.dispatched = slots[h].dispatched /\ s.due = slots[h].due
  BY <1>1 DEF Slots, Outcomes
<1>4. slots' = [slots EXCEPT ![h] = s]
  BY <1>2
<1>. HIDE DEF s, h
<1>5. DOMAIN slots' = DOMAIN slots /\ slots'[h] = s
      /\ \A i \in DOMAIN slots : i # h => slots'[i] = slots[i]
  BY <1>1, <1>4
<1>. QED
  BY <1>1, <1>2, <1>3, <1>5 DEF Touches, h

(* A dispatched request changes its own slot only. *)
LEMMA DispatchTouches ==
    ASSUME TypeOK, OpenRun, NEW w \in Workers, Dispatch(w)
    PROVE  \E s : /\ Touches(w, s)
                  /\ s.due = slots[held[w]].due
                  /\ s.dispatched # None
                  /\ s.outcome = "none"
<1>. DEFINE h == held[w]
            s == [slots[h] EXCEPT !.dispatched = now]
<1>1. /\ ~closed /\ h \in DOMAIN slots /\ slots[h] \in Slots /\ slots[h].outcome = "none"
      /\ now \in Nat
  BY DEF Dispatch, OpenRun, RequestOf, Entered, TypeOK
<1>2. slots' = [slots EXCEPT ![h] = s]
  BY DEF Dispatch, OnTheWire
<1>3. /\ s \in Slots /\ s.dispatched = now /\ s.outcome = slots[h].outcome
      /\ s.due = slots[h].due /\ now # None
  BY <1>1 DEF Slots, Outcomes, Times, None
<1>. HIDE DEF s, h
<1>4. DOMAIN slots' = DOMAIN slots /\ slots'[h] = s
      /\ \A i \in DOMAIN slots : i # h => slots'[i] = slots[i]
  BY <1>1, <1>2
<1>. QED
  BY <1>1, <1>3, <1>4 DEF Touches, h

(* A recorded answer changes its own slot only. *)
LEMMA RecordTouches ==
    ASSUME TypeOK, OpenRun, NEW w \in Workers, Record(w), ~closed
    PROVE  \E s : /\ Touches(w, s)
                  /\ s.due = slots[held[w]].due
                  /\ s.dispatched # None
                  /\ s.outcome = "completed"
<1>. DEFINE h == held[w]
            s == [slots[h] EXCEPT !.completed = stamp[w], !.outcome = "completed"]
<1>1. /\ h \in DOMAIN slots /\ slots[h] \in Slots /\ slots[h].dispatched # None
      /\ stamp[w] \in Nat
  BY DEF Record, OpenRun, RequestOf, Entered, TypeOK
<1>2. slots' = [slots EXCEPT ![h].completed = stamp[w], ![h].outcome = "completed"]
  BY DEF Record
<1>3. /\ s \in Slots /\ s.dispatched = slots[h].dispatched /\ s.outcome = "completed"
      /\ s.due = slots[h].due
  BY <1>1 DEF Slots, Outcomes, Times
<1>4. DOMAIN slots' = DOMAIN slots /\ slots'[h] = s
      /\ \A i \in DOMAIN slots : i # h => slots'[i] = slots[i]
  BY <1>1, <1>2
<1>. HIDE DEF s, h
<1>. QED
  BY <1>1, <1>3, <1>4 DEF Touches, h

(* The step enters the request of the worker in a slot of its own. *)
LEMMA AppendEnters ==
    ASSUME TypeOK, OpenRun, NEW w \in Workers, AppendSlot(w), ~closed
    PROVE  /\ DOMAIN slots' = DOMAIN slots \cup {held[w]}
           /\ held[w] \notin DOMAIN slots
           /\ slots'[held[w]] = NewSlot(stamp[w], "none")
           /\ \A i \in DOMAIN slots : slots'[i] = slots[i]
<1>1. slots' = WithSlots([i \in {held[w]} |-> NewSlot(stamp[w], "none")])
  BY DEF AppendSlot
<1>2. held[w] \notin DOMAIN slots
  BY DEF AppendSlot, OpenRun, RequestOf
<1>. QED
  BY <1>1, <1>2 DEF WithSlots

(* The fields of a new slot. *)
LEMMA NewSlotFields ==
    ASSUME NEW t \in Nat, NEW o \in Outcomes \cup {"none"}
    PROVE  /\ NewSlot(t, o) \in Slots
           /\ NewSlot(t, o).due = t
           /\ NewSlot(t, o).dispatched = None
           /\ NewSlot(t, o).outcome = o
BY DEF NewSlot, Slots, Times

(* In the open loop only the main thread enters slots. *)
LEMMA WorkerSlots ==
    ASSUME TypeOK, Pool, OpenRun, NEW w \in Workers, WorkerStep(w)
    PROVE  /\ DOMAIN slots' \subseteq Nat
           /\ \A i \in DOMAIN slots' : slots'[i] \in Slots
           /\ wire' \subseteq Nat
           /\ Mode = "open" => DOMAIN slots' = DOMAIN slots
           /\ closed => UNCHANGED wire
<1>0. /\ DOMAIN slots \subseteq Nat /\ \A i \in DOMAIN slots : slots[i] \in Slots
      /\ wire \subseteq Nat /\ held \in [Workers -> Nat] /\ stamp \in [Workers -> Nat]
  BY DEF TypeOK
<1>1. CASE UNCHANGED slots /\ UNCHANGED wire
  BY <1>0, <1>1
<1>2. ASSUME NEW s, Touches(w, s)
      PROVE  /\ DOMAIN slots' = DOMAIN slots /\ ~closed
             /\ \A i \in DOMAIN slots' : slots'[i] \in Slots
  BY <1>0, <1>2 DEF Touches
<1>3. CASE SendRefused(w)
  <2>1. UNCHANGED wire
    BY <1>3 DEF SendRefused, Outcome
  <2>. QED
    BY <1>0, <1>2, <1>3, <2>1, RefusedTouches
<1>4. CASE Dispatch(w)
  <2>1. wire' = wire \cup {held[w]} /\ ~closed
    BY <1>4 DEF Dispatch, OnTheWire
  <2>. QED
    BY <1>0, <1>2, <1>4, <2>1, DispatchTouches
<1>5. CASE Record(w) /\ ~closed
  <2>1. UNCHANGED wire
    BY <1>5 DEF Record
  <2>. QED
    BY <1>0, <1>2, <1>5, <2>1, RecordTouches
<1>6. CASE AppendSlot(w) /\ ~closed
  <2>1. UNCHANGED wire /\ Mode # "open"
    BY <1>6 DEF AppendSlot, Pool, WorkerOf, Entered
  <2>2. NewSlot(stamp[w], "none") \in Slots
    BY <1>0, NewSlotFields
  <2>3. /\ DOMAIN slots' = DOMAIN slots \cup {held[w]}
        /\ slots'[held[w]] = NewSlot(stamp[w], "none")
        /\ \A i \in DOMAIN slots : slots'[i] = slots[i]
    BY <1>6, AppendEnters
  <2>4. held[w] \in Nat
    BY <1>0
  <2>5. \A i \in DOMAIN slots' : slots'[i] \in Slots
    BY <1>0, <2>2, <2>3
  <2>. QED
    BY <1>0, <1>6, <2>1, <2>3, <2>4, <2>5
<1>7. CASE \/ GetTask(w) \/ StartTask(w) \/ EnterPacer(w) \/ Price(w) \/ NextStage(w)
           \/ TakeToken(w) \/ Number(w) \/ (AppendSlot(w) /\ closed) \/ SendClosed(w)
           \/ (Record(w) /\ closed) \/ Answer(w) \/ HookRaises(w)
  BY <1>1, <1>7 DEF GetTask, StartTask, EnterPacer, Price, NextStage, TakeToken, Number,
                    AppendSlot, SendClosed, Record, Answer, HookRaises, runVars
<1>. QED
  BY <1>3, <1>4, <1>5, <1>6, <1>7 DEF WorkerStep, Worker

(* A step of a worker keeps the types. *)
LEMMA WorkerTypes ==
    ASSUME TypeOK, Pool, OpenRun, NEW w \in Workers, WorkerStep(w)
    PROVE  TypeOK'
<1>1. Frame(w)
  BY WorkerFrame
<1>2. /\ now' \in Nat
      /\ main' \in {"pace", "gate", "submit", "hold", "wait", "stop", "finalise",
                    "collect", "shutdown", "over"}
      /\ next' \in Nat
      /\ DOMAIN records' \subseteq Nat
      /\ \A i \in DOMAIN records' : records'[i] \in Outcomes
      /\ result' \in {"none", "returned", "raised"}
  BY <1>1 DEF Frame, TypeOK
<1>3. closed' \in BOOLEAN /\ futures' \in BOOLEAN /\ aborted' \in BOOLEAN
  BY <1>1 DEF Frame, TypeOK
<1>4. /\ queue' \in Seq(Tasks \cup {NoTask})
      /\ future' \in [Tasks -> FutureStates]
      /\ wpc' \in [Workers -> WorkerStates]
      /\ wtask' \in [Workers -> Tasks \cup {NoTask}]
  BY WorkerPoolStep, PoolStepTypes
<1>. QED
  BY <1>2, <1>3, <1>4, CarriedTypes, PacerTypes, WorkerSlots, Zenon DEF TypeOK
-----------------------------------------------------------------------------
(* The requests and their slots. *)

Requests ==
    /\ OpenRun
    /\ Indices
    /\ Lock
    /\ TokenTimes
    /\ TokenOrderIsIndexOrder

(* The tasks nobody has taken up stay where they are. *)
PendingKept ==
    /\ AnyFailed => AnyFailed'
    /\ Mode = "open" => \A k \in Tasks : future'[k] = "pending" <=> future[k] = "pending"

(* A worker that ends up without a request, the slots left alone. *)
LEMMA IdleKeeps ==
    ASSUME BarrageInv, NEW w \in Workers, Frame(w), PendingKept,
           UNCHANGED <<slots, wire, index>>,
           wpc'[w] \in {"get", "claim", "exited", "take"},
           holder' = holder \/ wpc[w] \in InPacer,
           wpc[w] \in Entered => closed \/ AnyFailed'
    PROVE  Requests'
<1>1. OpenRun'
  <2>. SUFFICES ASSUME ~closed PROVE OpenRun'
    BY DEF Frame, OpenRun
  <2>1. \A i \in DOMAIN slots : SlotOf(i)'
    BY DEF BarrageInv, OpenRun, SlotOf, Frame
  <2>2. \A v \in Workers : RequestOf(v)'
    BY DEF BarrageInv, OpenRun, RequestOf, Frame, Entered
  <2>3. Waiting'
    BY DEF BarrageInv, OpenRun, Waiting, Frame, PendingKept
  <2>4. EverySlotIsCarried'
    <3>. SUFFICES ASSUME ~AnyFailed', ~aborted, NEW i \in DOMAIN slots, slots[i].outcome = "none"
         PROVE  \/ \E v \in Workers : wpc'[v] \in Entered /\ held'[v] = i
                \/ Mode = "open" /\ i \in Tasks /\ future'[i] = "pending"
                \/ Mode = "open" /\ main = "submit" /\ i = next
      BY DEF EverySlotIsCarried, Frame
    <3>1. wpc[w] \notin Entered
      OBVIOUS
    <3>2. \/ \E v \in Workers : wpc[v] \in Entered /\ held[v] = i
          \/ Mode = "open" /\ i \in Tasks /\ future[i] = "pending"
          \/ Mode = "open" /\ main = "submit" /\ i = next
      BY DEF BarrageInv, OpenRun, EverySlotIsCarried, PendingKept
    <3>. QED
      BY <3>1, <3>2 DEF Frame, PendingKept
  <2>. QED
    BY <2>1, <2>2, <2>3, <2>4 DEF BarrageInv, OpenRun
<1>2. wpc'[w] \notin InPacer \cup Carrying
  BY DEF InPacer, Carrying
<1>3. Indices'
  <2>1. Entered \subseteq Carrying
    BY DEF Entered, Carrying
  <2>2. \A u, v \in Workers :
           wpc'[u] \in Carrying /\ wpc'[v] \in Carrying /\ held'[u] = held'[v] => u = v
    BY <1>2 DEF BarrageInv, Indices, Frame
  <2>3. Mode = "open" => \A v \in Workers : wpc'[v] \in Entered => held'[v] = wtask'[v]
    BY <1>2, <2>1 DEF BarrageInv, Indices, Frame
  <2>4. Mode = "closed" => \A v \in Workers : wpc'[v] \in Carrying => held'[v] < index
    BY <1>2 DEF BarrageInv, Indices, Frame
  <2>. QED
    BY <2>2, <2>3, <2>4 DEF BarrageInv, Indices
<1>4. Lock'
  BY <1>2 DEF BarrageInv, Lock, Frame
<1>5. TokenTimes'
  <2>1. wpc'[w] \notin {"number", "append"}
    OBVIOUS
  <2>. QED
    BY <2>1 DEF BarrageInv, TokenTimes, Frame
<1>6. TokenOrderIsIndexOrder'
  BY DEF BarrageInv, TokenOrderIsIndexOrder
<1>. QED
  BY <1>1, <1>3, <1>4, <1>5, <1>6 DEF Requests

(* A worker in the pacer's lock, or getting into it. *)
LEMMA PacerKeeps ==
    ASSUME BarrageInv, NEW w \in Workers, Frame(w),
           UNCHANGED <<slots, wire, index, future>>,
           wpc[w] \in InPacer \cup {"take"},
           \/ wpc'[w] \in {"pace", "move", "acquire"}
           \/ wpc'[w] = "number" /\ stamp'[w] = now,
           wpc[w] = "take" => holder = NoWorker,
           holder' = w
    PROVE  Requests'
<1>1. wpc[w] \notin Carrying /\ wpc'[w] \notin Carrying /\ Entered \subseteq Carrying
  BY DEF InPacer, Carrying, Entered
<1>2. OpenRun'
  <2>. SUFFICES ASSUME ~closed PROVE OpenRun'
    BY DEF Frame, OpenRun
  <2>1. \A i \in DOMAIN slots : SlotOf(i)'
    BY DEF BarrageInv, OpenRun, SlotOf, Frame
  <2>2. \A v \in Workers : RequestOf(v)'
    BY DEF BarrageInv, OpenRun, RequestOf, Frame, Entered
  <2>3. Waiting'
    BY DEF BarrageInv, OpenRun, Waiting, Frame
  <2>4. AnyFailed' <=> AnyFailed
    BY DEF AnyFailed, Failed
  <2>5. EverySlotIsCarried'
    BY <1>1, <2>4 DEF BarrageInv, OpenRun, EverySlotIsCarried, Frame
  <2>. QED
    BY <2>1, <2>2, <2>3, <2>5 DEF BarrageInv, OpenRun
<1>3. Indices'
  <2>2. \A u, v \in Workers :
           wpc'[u] \in Carrying /\ wpc'[v] \in Carrying /\ held'[u] = held'[v] => u = v
    BY <1>1 DEF BarrageInv, Indices, Frame
  <2>3. Mode = "open" => \A v \in Workers : wpc'[v] \in Entered => held'[v] = wtask'[v]
    BY <1>1 DEF BarrageInv, Indices, Frame
  <2>4. Mode = "closed" => \A v \in Workers : wpc'[v] \in Carrying => held'[v] < index
    BY <1>1 DEF BarrageInv, Indices, Frame
  <2>. QED
    BY <2>2, <2>3, <2>4 DEF BarrageInv, Indices
<1>4. \A v \in Workers : v # w => wpc[v] \notin InPacer
  BY BarrageAssumption DEF BarrageInv, Lock
<1>5. Lock'
  BY <1>4 DEF Lock, Frame
<1>6. TokenTimes'
  <2>1. \A v \in Workers : v # w => wpc'[v] # "number"
    BY <1>4 DEF Frame, InPacer
  <2>2. wpc'[w] # "append"
    OBVIOUS
  <2>3. now \in Nat /\ now <= now
    BY DEF BarrageInv, TypeOK
  <2>. SUFFICES ASSUME Mode = "closed" PROVE TokenTimes'
    BY DEF TokenTimes
  <2>4. /\ \A i \in DOMAIN slots : slots[i].due <= now
        /\ \A v \in Workers : wpc'[v] \in {"number", "append"} => stamp'[v] <= now
    BY <2>1, <2>2, <2>3 DEF BarrageInv, TokenTimes, Frame
  <2>5. \A v \in Workers : wpc'[v] = "number" =>
              /\ \A i \in DOMAIN slots : slots[i].due <= stamp'[v]
              /\ \A u \in Workers : wpc'[u] = "append" => stamp'[u] <= stamp'[v]
    BY <2>1, <2>2, <2>4
  <2>. QED
    BY <2>2, <2>4, <2>5 DEF BarrageInv, TokenTimes, Frame
<1>7. TokenOrderIsIndexOrder'
  BY DEF BarrageInv, TokenOrderIsIndexOrder
<1>. QED
  BY <1>2, <1>3, <1>5, <1>6, <1>7 DEF Requests

(* The request gets its index. *)
LEMMA NumberKeeps ==
    ASSUME BarrageInv, NEW w \in Workers, Frame(w), Number(w)
    PROVE  Requests'
<1>0. /\ held \in [Workers -> Nat] /\ stamp \in [Workers -> Nat] /\ index \in Nat
      /\ wpc \in [Workers -> WorkerStates] /\ DOMAIN slots \subseteq Nat
  BY DEF BarrageInv, TypeOK
<1>1. /\ wpc[w] = "number" /\ wpc'[w] = "append" /\ held'[w] = index /\ stamp'[w] = stamp[w]
      /\ index' = index + 1 /\ holder' = NoWorker
      /\ UNCHANGED <<slots, wire, queue, future, wtask>>
  BY <1>0 DEF Number, runVars
<1>2. Mode = "closed" /\ holder = w
  BY <1>1, BarrageAssumption DEF BarrageInv, Pool, WorkerOf, Entered, Lock, InPacer
<1>3. /\ \A i \in DOMAIN slots : i < index
      /\ \A v \in Workers : wpc[v] \in Carrying => held[v] < index
  BY <1>2 DEF BarrageInv, Indices
<1>4. OpenRun'
  <2>. SUFFICES ASSUME ~closed PROVE OpenRun'
    BY DEF Frame, OpenRun
  <2>1. \A i \in DOMAIN slots : SlotOf(i)'
    BY <1>1 DEF BarrageInv, OpenRun, SlotOf, Frame
  <2>2. index \notin DOMAIN slots
    BY <1>0, <1>3
  <2>3. \A v \in Workers : RequestOf(v)'
    BY <1>1, <2>2 DEF BarrageInv, OpenRun, RequestOf, Frame, Entered
  <2>4. Waiting'
    BY <1>2 DEF Waiting
  <2>5. AnyFailed' <=> AnyFailed
    BY <1>1 DEF AnyFailed, Failed
  <2>6. EverySlotIsCarried'
    BY <1>1, <2>5 DEF BarrageInv, OpenRun, EverySlotIsCarried, Frame, Entered
  <2>. QED
    BY <1>1, <2>1, <2>3, <2>4, <2>6 DEF BarrageInv, OpenRun
<1>5. Indices'
  <2>1. ASSUME NEW v \in Workers, v # w, wpc'[v] \in Carrying
        PROVE  held'[v] < index /\ held'[v] \in Nat
    BY <1>0, <1>3, <2>1 DEF Frame
  <2>2. \A u, v \in Workers :
           wpc'[u] \in Carrying /\ wpc'[v] \in Carrying /\ held'[u] = held'[v] => u = v
    BY <1>0, <1>1, <2>1 DEF BarrageInv, Indices, Frame
  <2>3. \A i \in DOMAIN slots : i < index + 1
    BY <1>0, <1>3
  <2>4. \A v \in Workers : wpc'[v] \in Carrying => held'[v] < index + 1
    BY <1>0, <1>1, <2>1
  <2>. QED
    BY <1>1, <1>2, <2>2, <2>3, <2>4 DEF Indices
<1>6. \A v \in Workers : v # w => wpc[v] \notin InPacer
  BY <1>2 DEF BarrageInv, Lock
<1>7. Lock'
  BY <1>1, <1>6 DEF Lock, Frame, InPacer
<1>8. TokenTimes'
  <2>1. \A v \in Workers : wpc'[v] # "number"
    BY <1>1, <1>6 DEF Frame, InPacer
  <2>2. /\ \A i \in DOMAIN slots : slots[i].due <= now
        /\ stamp[w] <= now
        /\ \A i \in DOMAIN slots : slots[i].due <= stamp[w]
        /\ \A v \in Workers : wpc[v] = "append" => stamp[v] <= stamp[w]
    BY <1>1, <1>2 DEF BarrageInv, TokenTimes
  <2>3. \A v \in Workers : wpc'[v] \in {"number", "append"} => stamp'[v] <= now
    BY <1>1, <1>2, <2>2 DEF BarrageInv, TokenTimes, Frame
  <2>4. ASSUME NEW u \in Workers, NEW v \in Workers, wpc'[u] = "append", wpc'[v] = "append",
               held'[u] < held'[v]
        PROVE  stamp'[u] <= stamp'[v]
    <3>1. CASE u = w
      <4>1. v # w => held[v] < index /\ held[v] \in Nat /\ held'[v] = held[v]
        BY <1>0, <1>3, <2>4 DEF Frame, Carrying
      <4>. QED
        BY <1>0, <1>1, <2>4, <3>1, <4>1
    <3>2. CASE u # w /\ v = w
      BY <1>1, <2>2, <2>4, <3>2 DEF Frame
    <3>3. CASE u # w /\ v # w
      BY <1>2, <2>4, <3>3 DEF BarrageInv, TokenTimes, Frame
    <3>. QED
      BY <3>1, <3>2, <3>3
  <2>5. ASSUME NEW v \in Workers, wpc'[v] = "append", NEW i \in DOMAIN slots
        PROVE  /\ i < held'[v] => slots[i].due <= stamp'[v]
               /\ held'[v] < i => stamp'[v] <= slots[i].due
    <3>1. CASE v = w
      <4>1. ~(index < i)
        BY <1>0, <1>3
      <4>. QED
        BY <1>1, <2>2, <3>1, <4>1
    <3>2. CASE v # w
      BY <1>2, <2>5, <3>2 DEF BarrageInv, TokenTimes, Frame
    <3>. QED
      BY <3>1, <3>2
  <2>. QED
    BY <1>1, <2>1, <2>2, <2>3, <2>4, <2>5 DEF TokenTimes, Frame
<1>9. TokenOrderIsIndexOrder'
  BY <1>1 DEF BarrageInv, TokenOrderIsIndexOrder
<1>. QED
  BY <1>4, <1>5, <1>7, <1>8, <1>9 DEF Requests

(* The closed loop's worker enters its request. *)
LEMMA AppendKeeps ==
    ASSUME BarrageInv, NEW w \in Workers, Frame(w), AppendSlot(w), ~closed
    PROVE  Requests'
<1>. DEFINE h == held[w]
            t == stamp[w]
<1>0. /\ held \in [Workers -> Nat] /\ stamp \in [Workers -> Nat]
      /\ wpc \in [Workers -> WorkerStates] /\ DOMAIN slots \subseteq Nat
      /\ now \in Nat /\ index \in Nat /\ t \in Nat /\ h \in Nat
  BY DEF BarrageInv, TypeOK
<1>1. /\ wpc[w] = "append" /\ wpc'[w] = "send"
      /\ UNCHANGED <<held, stamp, wire, queue, future, wtask, holder, index>>
  BY <1>0 DEF AppendSlot, carried, pacerVars
<1>2. /\ DOMAIN slots' = DOMAIN slots \cup {h}
      /\ h \notin DOMAIN slots
      /\ slots'[h] = NewSlot(t, "none")
      /\ \A i \in DOMAIN slots : slots'[i] = slots[i]
  BY AppendEnters DEF BarrageInv
<1>3. slots'[h].due = t /\ slots'[h].dispatched = None /\ slots'[h].outcome = "none"
  BY <1>0, <1>2, NewSlotFields
<1>4. Mode = "closed"
  BY <1>1, BarrageAssumption DEF BarrageInv, Pool, WorkerOf, Entered
<1>5. \A v \in Workers : v # w /\ wpc[v] \in Carrying => held[v] # h
  BY <1>1 DEF BarrageInv, Indices, Carrying
<1>. HIDE DEF h, t
<1>6. OpenRun'
  <2>1. \A i \in DOMAIN slots' : SlotOf(i)'
    BY <1>2, <1>3 DEF BarrageInv, OpenRun, SlotOf, Frame
  <2>2. wire' = {i \in DOMAIN slots' : slots'[i].dispatched # None}
    <3>1. wire = {i \in DOMAIN slots : slots[i].dispatched # None}
      BY DEF BarrageInv, OpenRun
    <3>. QED
      BY <1>1, <1>2, <1>3, <3>1
  <2>3. ASSUME NEW v \in Workers PROVE RequestOf(v)'
    <3>1. CASE v = w
      BY <1>1, <1>2, <1>3, <3>1 DEF RequestOf, h
    <3>2. CASE v # w
      <4>1. RequestOf(v)
        BY DEF BarrageInv, OpenRun
      <4>2. wpc'[v] = wpc[v] /\ held'[v] = held[v]
        BY <3>2 DEF Frame
      <4>. QED
        BY <1>2, <1>5, <3>2, <4>1, <4>2 DEF RequestOf, Entered, Carrying
    <3>. QED
      BY <3>1, <3>2
  <2>4. Waiting'
    BY <1>4 DEF Waiting
  <2>5. AnyFailed' <=> AnyFailed
    BY <1>1 DEF AnyFailed, Failed
  <2>6. EverySlotIsCarried'
    <3>. SUFFICES ASSUME ~AnyFailed, ~aborted, NEW i \in DOMAIN slots', slots'[i].outcome = "none"
         PROVE  \E v \in Workers : wpc'[v] \in Entered /\ held'[v] = i
      BY <1>4, <2>5 DEF EverySlotIsCarried, Frame
    <3>1. CASE i = h
      BY <1>1, <3>1 DEF Entered, h
    <3>2. CASE i # h
      <4>1. \E v \in Workers : wpc[v] \in Entered /\ held[v] = i
        BY <1>2, <1>4, <3>2 DEF BarrageInv, OpenRun, EverySlotIsCarried
      <4>. QED
        BY <1>1, <4>1 DEF Frame, Entered
    <3>. QED
      BY <3>1, <3>2
  <2>. QED
    BY <2>1, <2>2, <2>3, <2>4, <2>6 DEF OpenRun
<1>7. Indices'
  <2>0. \A v \in Workers : wpc'[v] \in Carrying => wpc[v] \in Carrying
    BY <1>1 DEF Frame, Carrying
  <2>1. \A u, v \in Workers :
           wpc'[u] \in Carrying /\ wpc'[v] \in Carrying /\ held'[u] = held'[v] => u = v
    BY <1>1, <2>0 DEF BarrageInv, Indices
  <2>2. \A v \in Workers : wpc'[v] \in Carrying => held'[v] < index
    BY <1>1, <1>4 DEF BarrageInv, Indices, Frame, Carrying
  <2>3. \A i \in DOMAIN slots' : i < index
    BY <1>1, <1>2, <1>4 DEF BarrageInv, Indices, Carrying, h
  <2>. QED
    BY <1>1, <1>4, <2>1, <2>2, <2>3 DEF Indices
<1>8. Lock'
  BY <1>1 DEF BarrageInv, Lock, Frame, InPacer
<1>9. /\ t <= now
      /\ \A v \in Workers : wpc[v] = "number" => t <= stamp[v]
      /\ \A v \in Workers : v # w /\ wpc[v] = "append" =>
            /\ h < held[v] => t <= stamp[v]
            /\ held[v] < h => stamp[v] <= t
      /\ \A i \in DOMAIN slots : (i < h => slots[i].due <= t) /\ (h < i => t <= slots[i].due)
  BY <1>1, <1>4 DEF BarrageInv, TokenTimes, h, t
<1>10. TokenTimes'
  <2>1. \A v \in Workers : wpc'[v] \in {"number", "append"} => v # w /\ wpc'[v] = wpc[v]
    BY <1>1 DEF Frame
  <2>2. \A i \in DOMAIN slots' : slots'[i].due <= now
    BY <1>2, <1>3, <1>4, <1>9 DEF BarrageInv, TokenTimes
  <2>3. ASSUME NEW v \in Workers, wpc'[v] = "number"
        PROVE  /\ \A i \in DOMAIN slots' : slots'[i].due <= stamp'[v]
               /\ \A u \in Workers : wpc'[u] = "append" => stamp'[u] <= stamp'[v]
    BY <1>1, <1>2, <1>3, <1>4, <1>9, <2>1, <2>3 DEF BarrageInv, TokenTimes
  <2>4. ASSUME NEW v \in Workers, wpc'[v] = "append", NEW i \in DOMAIN slots'
        PROVE  /\ i < held'[v] => slots'[i].due <= stamp'[v]
               /\ held'[v] < i => stamp'[v] <= slots'[i].due
    <3>1. CASE i = h
      BY <1>1, <1>3, <1>9, <2>1, <2>4, <3>1
    <3>2. CASE i # h
      BY <1>1, <1>2, <1>4, <2>1, <2>4, <3>2 DEF BarrageInv, TokenTimes
    <3>. QED
      BY <3>1, <3>2
  <2>. QED
    BY <1>1, <1>4, <2>1, <2>2, <2>3, <2>4 DEF BarrageInv, TokenTimes, Frame
<1>11. TokenOrderIsIndexOrder'
  <2>1. ASSUME NEW i \in DOMAIN slots', NEW j \in DOMAIN slots', i < j
        PROVE  slots'[i].due <= slots'[j].due
    <3>1. CASE i = h /\ j = h
      BY <1>0, <2>1, <3>1 DEF h
    <3>2. CASE i = h /\ j # h
      BY <1>2, <1>3, <1>9, <2>1, <3>2
    <3>3. CASE i # h /\ j = h
      BY <1>2, <1>3, <1>9, <2>1, <3>3
    <3>4. CASE i # h /\ j # h
      BY <1>2, <1>4, <2>1, <3>4 DEF BarrageInv, TokenOrderIsIndexOrder
    <3>. QED
      BY <3>1, <3>2, <3>3, <3>4
  <2>. QED
    BY <2>1 DEF TokenOrderIsIndexOrder
<1>. QED
  BY <1>6, <1>7, <1>8, <1>10, <1>11 DEF Requests

(* In the open loop the request of a task is its arrival, which nobody has *)
(* touched while the task waited.                                          *)
LEMMA StartKeeps ==
    ASSUME BarrageInv, NEW w \in Workers, Frame(w), StartTask(w), Mode = "open",
           future[wtask[w]] # "cancelled"
    PROVE  Requests'
<1>. DEFINE k == wtask[w]
<1>0. /\ held \in [Workers -> Nat] /\ wpc \in [Workers -> WorkerStates]
      /\ future \in [Tasks -> FutureStates] /\ wtask \in [Workers -> Tasks \cup {NoTask}]
  BY DEF BarrageInv, TypeOK
<1>1. wpc[w] = "claim" /\ k \in Tasks /\ future[k] = "pending"
  BY <1>0 DEF StartTask, Claim, BarrageInv, Pool, WorkerOf
<1>2. /\ wpc'[w] = "send" /\ held'[w] = k /\ wtask' = wtask
      /\ future' = [future EXCEPT ![k] = "running"]
      /\ UNCHANGED <<slots, wire, holder, index>>
  BY <1>0 DEF StartTask, Claim, runVars, pacerVars
<1>3. /\ future'[k] = "running"
      /\ \A j \in Tasks : j # k => future'[j] = future[j]
  BY <1>0, <1>1, <1>2
<1>4. AnyFailed => AnyFailed'
  BY <1>1, <1>3 DEF AnyFailed, Failed
<1>5. OpenRun'
  <2>. SUFFICES ASSUME ~closed PROVE OpenRun'
    BY DEF Frame, OpenRun
  <2>0. k \in DOMAIN slots /\ slots[k].dispatched = None /\ slots[k].outcome = "none"
    BY <1>1 DEF BarrageInv, OpenRun, Waiting, Fresh
  <2>1. \A i \in DOMAIN slots : SlotOf(i)'
    BY <1>2 DEF BarrageInv, OpenRun, SlotOf, Frame
  <2>2. \A v \in Workers : RequestOf(v)'
    BY <1>2, <2>0 DEF BarrageInv, OpenRun, RequestOf, Frame
  <2>3. Waiting'
    <3>1. \A j \in Tasks : future'[j] = "pending" => future[j] = "pending"
      BY <1>3
    <3>. QED
      BY <1>2, <3>1 DEF BarrageInv, OpenRun, Waiting, Frame, Fresh
  <2>4. EverySlotIsCarried'
    <3>. SUFFICES ASSUME ~AnyFailed', ~aborted, NEW i \in DOMAIN slots, slots[i].outcome = "none"
         PROVE  \/ \E v \in Workers : wpc'[v] \in Entered /\ held'[v] = i
                \/ i \in Tasks /\ future'[i] = "pending"
                \/ main = "submit" /\ i = next
      BY <1>2 DEF EverySlotIsCarried, Frame
    <3>1. \/ \E v \in Workers : wpc[v] \in Entered /\ held[v] = i
          \/ i \in Tasks /\ future[i] = "pending"
          \/ main = "submit" /\ i = next
      BY <1>4 DEF BarrageInv, OpenRun, EverySlotIsCarried
    <3>2. CASE i = k
      BY <1>2, <3>2 DEF Entered
    <3>3. CASE i # k
      BY <1>1, <1>3, <3>1, <3>3 DEF Frame, Entered
    <3>. QED
      BY <3>2, <3>3
  <2>. QED
    BY <1>2, <2>1, <2>2, <2>3, <2>4 DEF BarrageInv, OpenRun
<1>6. Indices'
  <2>1. \A v \in Workers : wpc'[v] \in Carrying => wpc'[v] \in Entered
    BY <1>2 DEF BarrageInv, Pool, WorkerOf, Frame, Carrying, Entered
  <2>2. \A v \in Workers : wpc'[v] \in Entered => held'[v] = wtask'[v] /\ wtask'[v] # NoTask
    BY <1>0, <1>1, <1>2 DEF BarrageInv, Pool, WorkerOf, Indices, Frame, Entered, Tasks, NoTask
  <2>3. \A u, v \in Workers : wtask'[u] = wtask'[v] /\ wtask'[u] # NoTask => u = v
    BY <1>2 DEF BarrageInv, Pool
  <2>. QED
    BY <2>1, <2>2, <2>3 DEF Indices
<1>7. Lock'
  BY <1>2 DEF BarrageInv, Lock, Frame, InPacer
<1>. QED
  BY <1>5, <1>6, <1>7 DEF Requests, TokenTimes, TokenOrderIsIndexOrder

(* The request's slot gets its outcome, and its worker is done with it. *)
LEMMA TouchKeeps ==
    ASSUME BarrageInv, NEW w \in Workers, Frame(w), PendingKept, NEW s, Touches(w, s),
           wpc[w] \in Entered,
           s.due = slots[held[w]].due,
           s.dispatched # None <=> slots[held[w]].dispatched # None,
           s.outcome \in {"completed", "dropped_backlog", "not_dispatched"},
           s.outcome = "completed" <=> s.dispatched # None,
           s.outcome = "not_dispatched" => now >= Deadline,
           wpc'[w] \in {"get", "take"},
           UNCHANGED <<wire, index, holder>>
    PROVE  Requests'
<1>. DEFINE h == held[w]
<1>0. wpc'[w] \notin InPacer \cup Carrying /\ Entered \subseteq Carrying
  BY DEF InPacer, Carrying, Entered
<1>1. /\ ~closed /\ h \in DOMAIN slots /\ DOMAIN slots' = DOMAIN slots /\ slots'[h] = s
      /\ \A i \in DOMAIN slots : i # h => slots'[i] = slots[i]
  BY DEF Touches
<1>2. \A i \in DOMAIN slots : slots'[i].due = slots[i].due
  BY <1>1
<1>3. \A v \in Workers : v # w /\ wpc[v] \in Carrying => held[v] # h
  BY <1>0 DEF BarrageInv, Indices
<1>4. Mode = "open" => h = wtask[w] /\ h \in Tasks /\ future[h] = "running"
  BY DEF BarrageInv, Indices, Pool, WorkerOf, TypeOK, InTask, Entered
<1>5. Mode = "open" /\ main = "submit" => next # h
  <2>1. main = "submit" /\ next \in Tasks => future[next] = "none"
    BY DEF BarrageInv, Pool, Submitted, TypeOK, Tasks
  <2>. QED
    BY <1>4, <2>1
<1>. HIDE DEF h
<1>6. OpenRun'
  <2>1. \A i \in DOMAIN slots' : SlotOf(i)'
    BY <1>1 DEF BarrageInv, OpenRun, SlotOf, Frame
  <2>2. wire' = {i \in DOMAIN slots' : slots'[i].dispatched # None}
    <3>1. wire = {i \in DOMAIN slots : slots[i].dispatched # None}
      BY <1>1 DEF BarrageInv, OpenRun
    <3>2. \A i \in DOMAIN slots : slots'[i].dispatched # None <=> slots[i].dispatched # None
      BY <1>1 DEF h
    <3>. QED
      BY <1>1, <3>1, <3>2
  <2>3. ASSUME NEW v \in Workers PROVE RequestOf(v)'
    <3>1. CASE v = w
      BY <3>1 DEF RequestOf, Entered
    <3>2. CASE v # w
      <4>1. RequestOf(v)
        BY <1>1 DEF BarrageInv, OpenRun
      <4>2. wpc'[v] = wpc[v] /\ held'[v] = held[v]
        BY <3>2 DEF Frame
      <4>. QED
        BY <1>1, <1>3, <3>2, <4>1, <4>2 DEF RequestOf, Entered, Carrying
    <3>. QED
      BY <3>1, <3>2
  <2>4. Waiting'
    <3>1. Mode = "open" => \A k \in Tasks : future'[k] = "pending" => future[k] = "pending" /\ k # h
      BY <1>4 DEF PendingKept
    <3>2. Mode = "open" /\ main = "submit" => next \in DOMAIN slots
      BY DEF BarrageInv, MainThread, OpenSlots, TypeOK
    <3>. QED
      BY <1>1, <1>5, <3>1, <3>2 DEF BarrageInv, OpenRun, Waiting, Frame, Fresh
  <2>5. EverySlotIsCarried'
    <3>. SUFFICES ASSUME ~AnyFailed', ~aborted, NEW i \in DOMAIN slots, slots'[i].outcome = "none"
         PROVE  \/ \E v \in Workers : wpc'[v] \in Entered /\ held'[v] = i
                \/ Mode = "open" /\ i \in Tasks /\ future'[i] = "pending"
                \/ Mode = "open" /\ main = "submit" /\ i = next
      BY <1>1 DEF EverySlotIsCarried, Frame
    <3>1. i # h /\ slots[i].outcome = "none"
      BY <1>1
    <3>2. \/ \E v \in Workers : wpc[v] \in Entered /\ held[v] = i
          \/ Mode = "open" /\ i \in Tasks /\ future[i] = "pending"
          \/ Mode = "open" /\ main = "submit" /\ i = next
      BY <1>1, <3>1 DEF BarrageInv, OpenRun, EverySlotIsCarried, PendingKept
    <3>. QED
      BY <3>1, <3>2 DEF Frame, PendingKept, h
  <2>. QED
    BY <2>1, <2>2, <2>3, <2>4, <2>5 DEF OpenRun
<1>7. Indices'
  <2>1. \A v \in Workers : wpc'[v] \in Carrying =>
            v # w /\ wpc[v] \in Carrying /\ held'[v] = held[v]
    BY <1>0 DEF Frame
  <2>2. \A u, v \in Workers :
           wpc'[u] \in Carrying /\ wpc'[v] \in Carrying /\ held'[u] = held'[v] => u = v
    BY <2>1 DEF BarrageInv, Indices
  <2>3. Mode = "open" => \A v \in Workers : wpc'[v] \in Entered => held'[v] = wtask'[v]
    BY <1>0 DEF BarrageInv, Indices, Frame
  <2>4. Mode = "closed" => /\ \A v \in Workers : wpc'[v] \in Carrying => held'[v] < index
                           /\ \A i \in DOMAIN slots' : i < index
    BY <1>1, <2>1 DEF BarrageInv, Indices
  <2>. QED
    BY <2>2, <2>3, <2>4 DEF Indices
<1>8. Lock'
  BY <1>0 DEF BarrageInv, Lock, Frame
<1>9. TokenTimes'
  <2>1. wpc'[w] \notin {"number", "append"}
    OBVIOUS
  <2>. QED
    BY <1>1, <1>2, <2>1 DEF BarrageInv, TokenTimes, Frame
<1>10. TokenOrderIsIndexOrder'
  BY <1>1, <1>2 DEF BarrageInv, TokenOrderIsIndexOrder
<1>. QED
  BY <1>6, <1>7, <1>8, <1>9, <1>10 DEF Requests

(* The request goes out. *)
LEMMA DispatchKeeps ==
    ASSUME BarrageInv, NEW w \in Workers, Frame(w), Dispatch(w)
    PROVE  Requests'
<1>. DEFINE h == held[w]
<1>0. /\ wpc[w] = "send" /\ wpc'[w] = "in flight" /\ wire' = wire \cup {h}
      /\ UNCHANGED <<held, stamp, queue, future, wtask, index, holder>>
  BY DEF Dispatch, OnTheWire, BarrageInv, TypeOK, carried, pacerVars
<1>1. PICK s : /\ Touches(w, s) /\ s.due = slots[h].due /\ s.dispatched # None
               /\ s.outcome = "none"
  BY DispatchTouches DEF BarrageInv
<1>2. /\ ~closed /\ h \in DOMAIN slots /\ DOMAIN slots' = DOMAIN slots /\ slots'[h] = s
      /\ \A i \in DOMAIN slots : i # h => slots'[i] = slots[i]
  BY <1>1 DEF Touches
<1>3. slots[h].outcome = "none"
  BY <1>0, <1>2 DEF BarrageInv, OpenRun, RequestOf, Entered
<1>4. \A i \in DOMAIN slots : slots'[i].due = slots[i].due /\ slots'[i].outcome = slots[i].outcome
  BY <1>1, <1>2, <1>3
<1>5. \A v \in Workers : v # w /\ wpc[v] \in Carrying => held[v] # h
  BY <1>0 DEF BarrageInv, Indices, Carrying
<1>6. Mode = "open" => h = wtask[w] /\ h \in Tasks /\ future[h] = "running"
  BY <1>0 DEF BarrageInv, Indices, Pool, WorkerOf, TypeOK, InTask, Entered
<1>7. Mode = "open" /\ main = "submit" => next # h
  <2>1. main = "submit" /\ next \in Tasks => future[next] = "none"
    BY DEF BarrageInv, Pool, Submitted, TypeOK, Tasks
  <2>. QED
    BY <1>6, <2>1
<1>. HIDE DEF h
<1>8. OpenRun'
  <2>1. \A i \in DOMAIN slots' : SlotOf(i)'
    BY <1>1, <1>2 DEF BarrageInv, OpenRun, SlotOf, Frame
  <2>2. wire' = {i \in DOMAIN slots' : slots'[i].dispatched # None}
    <3>1. wire = {i \in DOMAIN slots : slots[i].dispatched # None}
      BY <1>2 DEF BarrageInv, OpenRun
    <3>. QED
      BY <1>0, <1>1, <1>2, <3>1
  <2>3. ASSUME NEW v \in Workers PROVE RequestOf(v)'
    <3>1. CASE v = w
      BY <1>0, <1>1, <1>2, <3>1 DEF RequestOf, h
    <3>2. CASE v # w
      <4>1. RequestOf(v)
        BY <1>2 DEF BarrageInv, OpenRun
      <4>2. wpc'[v] = wpc[v] /\ held'[v] = held[v]
        BY <3>2 DEF Frame
      <4>. QED
        BY <1>2, <1>5, <3>2, <4>1, <4>2 DEF RequestOf, Entered, Carrying
    <3>. QED
      BY <3>1, <3>2
  <2>4. Waiting'
    <3>1. Mode = "open" => \A k \in Tasks : future[k] = "pending" => k # h
      BY <1>6
    <3>2. Mode = "open" /\ main = "submit" => next \in DOMAIN slots
      BY DEF BarrageInv, MainThread, OpenSlots, TypeOK
    <3>. QED
      BY <1>0, <1>2, <1>7, <3>1, <3>2 DEF BarrageInv, OpenRun, Waiting, Frame, Fresh
  <2>5. AnyFailed' <=> AnyFailed
    BY <1>0 DEF AnyFailed, Failed
  <2>6. \A v \in Workers : wpc[v] \in Entered => wpc'[v] \in Entered
    BY <1>0 DEF Frame, Entered
  <2>7. EverySlotIsCarried'
    BY <1>0, <1>2, <1>4, <2>5, <2>6 DEF BarrageInv, OpenRun, EverySlotIsCarried, Frame
  <2>. QED
    BY <2>1, <2>2, <2>3, <2>4, <2>7 DEF OpenRun
<1>9. Indices'
  <2>1. /\ \A v \in Workers : wpc'[v] \in Carrying => wpc[v] \in Carrying
        /\ \A v \in Workers : wpc'[v] \in Entered => wpc[v] \in Entered
    BY <1>0 DEF Frame, Carrying, Entered
  <2>. QED
    BY <1>0, <1>2, <2>1 DEF BarrageInv, Indices
<1>10. Lock'
  BY <1>0 DEF BarrageInv, Lock, Frame, InPacer
<1>11. TokenTimes'
  <2>1. wpc'[w] \notin {"number", "append"}
    BY <1>0
  <2>. QED
    BY <1>2, <1>4, <2>1 DEF BarrageInv, TokenTimes, Frame
<1>12. TokenOrderIsIndexOrder'
  BY <1>2, <1>4 DEF BarrageInv, TokenOrderIsIndexOrder
<1>. QED
  BY <1>8, <1>9, <1>10, <1>11, <1>12 DEF Requests

(* The answer comes. *)
LEMMA AnswerKeeps ==
    ASSUME BarrageInv, NEW w \in Workers, Frame(w), Answer(w)
    PROVE  Requests'
<1>0. /\ wpc[w] = "in flight" /\ wpc'[w] = "answered"
      /\ UNCHANGED <<slots, wire, held, queue, future, wtask, index, holder>>
  BY DEF Answer, BarrageInv, TypeOK, runVars, pacerVars
<1>1. OpenRun'
  <2>. SUFFICES ASSUME ~closed PROVE OpenRun'
    BY DEF Frame, OpenRun
  <2>1. \A i \in DOMAIN slots : SlotOf(i)'
    BY <1>0 DEF BarrageInv, OpenRun, SlotOf, Frame
  <2>2. \A v \in Workers : RequestOf(v)'
    BY <1>0 DEF BarrageInv, OpenRun, RequestOf, Frame, Entered
  <2>3. Waiting'
    BY <1>0 DEF BarrageInv, OpenRun, Waiting, Frame
  <2>4. AnyFailed' <=> AnyFailed
    BY <1>0 DEF AnyFailed, Failed
  <2>5. \A v \in Workers : wpc[v] \in Entered => wpc'[v] \in Entered
    BY <1>0 DEF Frame, Entered
  <2>6. EverySlotIsCarried'
    BY <1>0, <2>4, <2>5 DEF BarrageInv, OpenRun, EverySlotIsCarried, Frame
  <2>. QED
    BY <1>0, <2>1, <2>2, <2>3, <2>6 DEF BarrageInv, OpenRun
<1>2. Indices'
  <2>1. /\ \A v \in Workers : wpc'[v] \in Carrying => wpc[v] \in Carrying
        /\ \A v \in Workers : wpc'[v] \in Entered => wpc[v] \in Entered
    BY <1>0 DEF Frame, Carrying, Entered
  <2>. QED
    BY <1>0, <2>1 DEF BarrageInv, Indices
<1>3. Lock'
  BY <1>0 DEF BarrageInv, Lock, Frame, InPacer
<1>4. TokenTimes'
  <2>1. wpc'[w] \notin {"number", "append"}
    BY <1>0
  <2>. QED
    BY <1>0, <2>1 DEF BarrageInv, TokenTimes, Frame
<1>5. TokenOrderIsIndexOrder'
  BY <1>0 DEF BarrageInv, TokenOrderIsIndexOrder
<1>. QED
  BY <1>1, <1>2, <1>3, <1>4, <1>5 DEF Requests

(* A task that ends was running, so those that wait are the same ones. *)
LEMMA EndsKeepPending ==
    ASSUME TypeOK, Pool, NEW w \in Workers, Ends(w)
    PROVE  PendingKept /\ wpc'[w] = "get"
<1>1. PICK how \in {"done", "failed", "interrupted"} : EndTask(w, how)
  BY DEF Ends
<1>2. wtask[w] \in Tasks /\ future[wtask[w]] = "running"
  BY DEF TypeOK, Pool, WorkerOf, Ends, InTask
<1>3. /\ future'[wtask[w]] = how /\ \A k \in Tasks : k # wtask[w] => future'[k] = future[k]
      /\ wpc'[w] = "get"
  BY <1>1, <1>2 DEF EndTask, TypeOK
<1>. QED
  BY <1>2, <1>3 DEF PendingKept, AnyFailed, Failed

(* A worker going on to its next request leaves none behind. *)
LEMMA NextRequestKeepsPending ==
    ASSUME TypeOK, Pool, NEW w \in Workers, wpc[w] \in InTask, NextRequest(w)
    PROVE  PendingKept /\ wpc'[w] \in {"get", "take"}
<1>1. CASE Mode = "open"
  BY <1>1, EndsKeepPending DEF NextRequest, Ends
<1>2. CASE Mode # "open"
  BY <1>2 DEF NextRequest, PendingKept, AnyFailed, Failed, TypeOK
<1>. QED
  BY <1>1, <1>2

(* A step of a worker keeps what is known of the requests. *)
LEMMA WorkerRequests ==
    ASSUME BarrageInv, NEW w \in Workers, WorkerStep(w)
    PROVE  Requests'
<1>0. /\ TypeOK /\ Pool /\ Frame(w)
      /\ wpc \in [Workers -> WorkerStates]
      /\ wpc[w] \in InPacer => holder = w
  BY WorkerFrame DEF BarrageInv, TypeOK, Lock
<1>1. ASSUME UNCHANGED future PROVE PendingKept
  BY <1>1 DEF PendingKept, AnyFailed, Failed
<1>2. CASE GetTask(w)
  <2>1. /\ wpc[w] = "get" /\ wpc'[w] \in {"exited", "claim"}
        /\ UNCHANGED <<slots, wire, index, holder, future>>
    BY <1>0, <1>2 DEF GetTask, Get, runVars, pacerVars
  <2>. QED
    BY <1>0, <1>1, <2>1, IdleKeeps DEF Entered
<1>3. CASE StartTask(w)
  <2>1. CASE Mode = "open" /\ future[wtask[w]] # "cancelled"
    BY <1>0, <1>3, <2>1, StartKeeps
  <2>2. CASE ~(Mode = "open" /\ future[wtask[w]] # "cancelled")
    <3>1. /\ wpc[w] = "claim" /\ wpc'[w] \in {"get", "take"}
          /\ UNCHANGED <<slots, wire, index, holder>>
          /\ UNCHANGED future \/ Mode # "open"
      BY <1>0, <1>3, <2>2 DEF StartTask, Claim, runVars, pacerVars
    <3>2. AnyFailed => AnyFailed'
      BY <1>0, <1>3, PoolStepVerdicts, WorkerPoolStep DEF BarrageInv
    <3>3. PendingKept
      BY <3>1, <3>2 DEF PendingKept
    <3>. QED
      BY <1>0, <3>1, <3>3, IdleKeeps DEF Entered
  <2>. QED
    BY <2>1, <2>2
<1>4. CASE EnterPacer(w) \/ NextStage(w)
  <2>1. /\ wpc[w] \in InPacer \cup {"take"} /\ wpc'[w] = "pace"
        /\ wpc[w] = "take" => holder = NoWorker
        /\ holder' = w
        /\ UNCHANGED <<slots, wire, index, future>>
    BY <1>0, <1>4 DEF EnterPacer, NextStage, runVars, pacerVars, InPacer
  <2>. QED
    BY <1>0, <2>1, PacerKeeps
<1>5. CASE Price(w) \/ TakeToken(w)
  <2>1. /\ wpc[w] \in InPacer /\ UNCHANGED <<slots, wire, index>>
    BY <1>5 DEF Price, TakeToken, runVars, InPacer
  <2>2. CASE NoMoreTokens(w)
    <3>1. PendingKept /\ wpc'[w] = "get" /\ wpc[w] \notin Entered
      BY <1>0, <2>1, <2>2, EndsKeepPending DEF NoMoreTokens, Ends, InPacer, InTask, Entered
    <3>. QED
      BY <1>0, <2>1, <3>1, IdleKeeps
  <2>3. CASE ~NoMoreTokens(w)
    <3>1. /\ \/ wpc'[w] \in {"pace", "move", "acquire"}
             \/ wpc'[w] = "number" /\ stamp'[w] = now
          /\ UNCHANGED <<future, holder>>
      BY <1>0, <1>5, <2>3 DEF Price, TakeToken, SleepInPacer, TypeOK
    <3>2. wpc[w] # "take"
      BY <2>1 DEF InPacer
    <3>. QED
      BY <1>0, <2>1, <3>1, <3>2, PacerKeeps
  <2>. QED
    BY <2>2, <2>3
<1>6. CASE Number(w)
  BY <1>0, <1>6, NumberKeeps
<1>7. CASE AppendSlot(w)
  <2>1. CASE closed
    <3>1. /\ wpc[w] = "append" /\ UNCHANGED <<slots, wire, index, holder>> /\ EndTask(w, "done")
      BY <1>7, <2>1 DEF AppendSlot, pacerVars
    <3>2. PendingKept /\ wpc'[w] = "get"
      BY <1>0, <3>1, EndsKeepPending DEF Ends, InTask
    <3>. QED
      BY <1>0, <2>1, <3>1, <3>2, IdleKeeps
  <2>. QED
    BY <1>0, <1>7, <2>1, AppendKeeps
<1>8. CASE SendClosed(w) \/ (Record(w) /\ closed)
  <2>1. /\ wpc[w] \in InTask /\ NextRequest(w) /\ closed
        /\ UNCHANGED <<slots, wire, index, holder>>
    BY <1>8 DEF SendClosed, Record, runVars, pacerVars, InTask
  <2>2. PendingKept /\ wpc'[w] \in {"get", "take"}
    BY <1>0, <2>1, NextRequestKeepsPending
  <2>. QED
    BY <1>0, <2>1, <2>2, IdleKeeps
<1>9. CASE SendRefused(w)
  <2>1. /\ wpc[w] = "send" /\ NextRequest(w) /\ ~closed
        /\ UNCHANGED <<wire, index, holder>>
    BY <1>9 DEF SendRefused, Outcome, pacerVars
  <2>2. PendingKept /\ wpc'[w] \in {"get", "take"}
    BY <1>0, <2>1, NextRequestKeepsPending DEF InTask
  <2>3. slots[held[w]].dispatched = None
    BY <2>1 DEF BarrageInv, OpenRun, RequestOf
  <2>4. PICK s : /\ Touches(w, s)
                 /\ s.due = slots[held[w]].due
                 /\ s.dispatched = None
                 /\ s.outcome \in {"dropped_backlog", "not_dispatched"}
                 /\ s.outcome = "not_dispatched" => now >= Deadline
    BY <1>9, RefusedTouches DEF BarrageInv
  <2>5. wpc[w] \in Entered
    BY <2>1 DEF Entered
  <2>. QED
    BY <1>0, <2>1, <2>2, <2>3, <2>4, <2>5, TouchKeeps
<1>10. CASE Record(w) /\ ~closed
  <2>1. /\ wpc[w] = "answered" /\ NextRequest(w)
        /\ UNCHANGED <<wire, index, holder>>
    BY <1>10 DEF Record, pacerVars
  <2>2. PendingKept /\ wpc'[w] \in {"get", "take"}
    BY <1>0, <2>1, NextRequestKeepsPending DEF InTask
  <2>3. slots[held[w]].dispatched # None
    BY <1>10, <2>1 DEF BarrageInv, OpenRun, RequestOf
  <2>4. PICK s : /\ Touches(w, s)
                 /\ s.due = slots[held[w]].due
                 /\ s.dispatched # None
                 /\ s.outcome = "completed"
    BY <1>10, RecordTouches DEF BarrageInv
  <2>5. wpc[w] \in Entered
    BY <2>1 DEF Entered
  <2>. QED
    BY <1>0, <2>1, <2>2, <2>3, <2>4, <2>5, TouchKeeps
<1>11. CASE Dispatch(w) \/ Answer(w)
  BY <1>0, <1>11, DispatchKeeps, AnswerKeeps
<1>12. CASE HookRaises(w)
  <2>1. /\ wpc[w] = "in flight"
        /\ UNCHANGED <<slots, wire, index, holder>>
        /\ \E how \in {"failed", "interrupted"} : EndTask(w, how)
    BY <1>12 DEF HookRaises, runVars, pacerVars
  <2>2. PendingKept /\ wpc'[w] = "get"
    BY <1>0, <2>1, EndsKeepPending DEF Ends, InTask
  <2>3. wtask[w] \in Tasks
    BY <1>0, <2>1 DEF Pool, WorkerOf, TypeOK
  <2>4. AnyFailed'
    BY <1>0, <2>1, <2>3 DEF EndTask, AnyFailed, Failed, TypeOK
  <2>. QED
    BY <1>0, <2>1, <2>2, <2>4, IdleKeeps
<1>. QED
  BY <1>2, <1>3, <1>4, <1>5, <1>6, <1>7, <1>8, <1>9, <1>10, <1>11, <1>12 DEF WorkerStep, Worker

(* A worker's step keeps the invariant. *)
LEMMA WorkerKeeps ==
    ASSUME BarrageInv, NEW w \in Workers, WorkerStep(w)
    PROVE  BarrageInv'
<1>1. TypeOK /\ Pool /\ OpenRun /\ MainThread /\ Frame(w)
  BY WorkerFrame DEF BarrageInv
<1>2. /\ Mode = "open" => DOMAIN slots' = DOMAIN slots
      /\ closed => UNCHANGED wire
      /\ AnyFailed => AnyFailed'
      /\ AllFinished => AllFinished'
  BY <1>1, WorkerSlots, WorkerPoolStep, PoolStepVerdicts
<1>3. TypeOK'
  BY <1>1, WorkerTypes
<1>4. Pool'
  BY <1>1, WorkerPoolStep, PoolStepKeeps DEF Frame
<1>5. MainThread'
  <2>1. OpenSlots'
    BY <1>1, <1>2 DEF MainThread, OpenSlots, Frame
  <2>2. WhyStopped'
    BY <1>1, <1>2 DEF MainThread, WhyStopped, Frame
  <2>. QED
    BY <1>1, <2>1, <2>2 DEF MainThread, Frame
<1>6. RecordsTellWhatWasSent' /\ CutByTheDeadlineOnly' /\ NoArrivalIsForgotten'
  BY <1>1, <1>2 DEF BarrageInv, RecordsTellWhatWasSent, CutByTheDeadlineOnly,
                    NoArrivalIsForgotten, Frame
<1>. QED
  BY <1>3, <1>4, <1>5, <1>6, WorkerRequests DEF BarrageInv, Requests
-----------------------------------------------------------------------------
(* The main thread. *)

MainStates ==
    {"pace", "gate", "submit", "hold", "wait", "stop", "finalise", "collect", "shutdown", "over"}

(* A step that only moves the main thread on, or tells it to stop. *)
LEMMA QuietKeeps ==
    ASSUME BarrageInv,
           UNCHANGED <<now, next, slots, wire, closed, records, index, holder, rate, credit,
                       held, stamp, queue, future, wpc, wtask>>,
           main' \in MainStates \ {"submit"},
           main = "submit" => aborted',
           aborted => aborted',
           aborted' \in BOOLEAN, futures' \in BOOLEAN, done' \in BOOLEAN,
           result' \in {"none", "returned", "raised"},
           MainThread'
    PROVE  BarrageInv'
<1>1. TypeOK'
  <2>1. closed' \in BOOLEAN
    BY DEF BarrageInv, TypeOK
  <2>. QED
    BY <2>1 DEF BarrageInv, TypeOK, MainStates
<1>2. Pool'
  BY DEF BarrageInv, Pool, WorkerOf, Queue, Submitted
<1>3. OpenRun'
  <2>. SUFFICES ASSUME ~closed PROVE OpenRun'
    BY DEF OpenRun
  <2>1. \A i \in DOMAIN slots : SlotOf(i)'
    BY DEF BarrageInv, OpenRun, SlotOf
  <2>2. \A v \in Workers : RequestOf(v)'
    BY DEF BarrageInv, OpenRun, RequestOf
  <2>3. Waiting'
    BY DEF BarrageInv, OpenRun, Waiting, Fresh
  <2>4. AnyFailed' <=> AnyFailed
    BY DEF AnyFailed, Failed
  <2>5. EverySlotIsCarried'
    BY <2>4 DEF BarrageInv, OpenRun, EverySlotIsCarried
  <2>. QED
    BY <2>1, <2>2, <2>3, <2>5 DEF BarrageInv, OpenRun
<1>4. Indices' /\ Lock' /\ TokenTimes' /\ TokenOrderIsIndexOrder'
  BY DEF BarrageInv, Indices, Lock, TokenTimes, TokenOrderIsIndexOrder
<1>5. AnyFailed' <=> AnyFailed
  BY DEF AnyFailed, Failed
<1>6. RecordsTellWhatWasSent' /\ CutByTheDeadlineOnly' /\ NoArrivalIsForgotten'
  BY <1>5 DEF BarrageInv, RecordsTellWhatWasSent, CutByTheDeadlineOnly, NoArrivalIsForgotten
<1>. QED
  BY <1>1, <1>2, <1>3, <1>4, <1>6 DEF BarrageInv

(* The steps of the main thread that touch neither slots nor pool. *)
LEMMA QuietSteps ==
    ASSUME BarrageInv, Arrive \/ ScheduleDone \/ HoldEnds \/ Wait \/ Interrupt \/ StopPacer \/ Collect
    PROVE  BarrageInv'
<1>0. /\ next \in Nat /\ NTasks \in Nat /\ Mode \in {"open", "closed"}
      /\ Mode = "open" => NTasks = Len(Offsets)
      /\ closed \in BOOLEAN /\ futures \in BOOLEAN /\ aborted \in BOOLEAN /\ done \in BOOLEAN
      /\ MainThread
  BY PoolAssumption, BarrageAssumption DEF BarrageInv, TypeOK
<1>1. UNCHANGED <<now, next, slots, wire, closed, records, index, holder, rate, credit,
                  held, stamp, queue, future, wpc, wtask>>
  BY DEF Arrive, ScheduleDone, HoldEnds, Wait, Interrupt, StopPacer, Collect, runVars,
         pacerVars, carried, poolVars
<1>2. /\ main' \in MainStates \ {"submit"} /\ (main = "submit" => aborted')
      /\ aborted' \in BOOLEAN /\ (aborted => aborted')
  <2>1. CASE Arrive \/ ScheduleDone \/ HoldEnds \/ Wait \/ StopPacer
    BY <1>0, <2>1 DEF Arrive, ScheduleDone, HoldEnds, Wait, StopPacer, MainGoes, MainStates
  <2>2. CASE Interrupt
    BY <2>2 DEF Interrupt, MainStates
  <2>3. CASE Collect
    BY <2>3 DEF Collect, MainGoes, MainStates
  <2>. QED
    BY <2>1, <2>2, <2>3
<1>3. /\ futures' \in BOOLEAN /\ done' \in BOOLEAN
  BY <1>0 DEF Arrive, ScheduleDone, HoldEnds, Wait, Interrupt, StopPacer, Collect, pacerVars
<1>4. result' \in {"none", "returned", "raised"}
  BY DEF Arrive, ScheduleDone, HoldEnds, Wait, Interrupt, StopPacer, Collect, BarrageInv, TypeOK
<1>5. (AnyFailed' <=> AnyFailed) /\ (AllFinished' <=> AllFinished)
  BY <1>1 DEF AnyFailed, AllFinished, Failed
<1>6. MainThread'
  <2>1. CASE Arrive
    <3>1. main = "pace" /\ main' = "gate" /\ next <= Len(Offsets) /\ UNCHANGED aborted
      BY <2>1 DEF Arrive, MainGoes
    <3>. QED
      BY <1>0, <1>1, <3>1 DEF MainThread, OpenSlots, WhyStopped
  <2>2. CASE ScheduleDone
    <3>1. main = "pace" /\ main' = "hold" /\ next > Len(Offsets) /\ UNCHANGED aborted
      BY <2>2 DEF ScheduleDone, MainGoes
    <3>2. Mode = "open" /\ next = NTasks + 1 /\ DOMAIN slots = Tasks
      <4>1. Mode = "open" /\ next <= NTasks + 1 /\ DOMAIN slots = 1..(next - 1)
        BY <1>0, <3>1 DEF MainThread, OpenSlots
      <4>2. next = NTasks + 1
        BY <1>0, <3>1, <4>1
      <4>3. next - 1 = NTasks
        BY <1>0, <4>2
      <4>. QED
        BY <4>1, <4>2, <4>3 DEF Tasks
    <3>. QED
      BY <1>0, <1>1, <3>1, <3>2 DEF MainThread, OpenSlots, WhyStopped
  <2>3. CASE HoldEnds
    <3>1. main = "hold" /\ main' = (IF Mode = "open" THEN "wait" ELSE "stop") /\ UNCHANGED aborted
      BY <2>3 DEF HoldEnds, MainGoes
    <3>. QED
      BY <1>0, <1>1, <1>5, <3>1 DEF MainThread, OpenSlots, WhyStopped
  <2>4. CASE Wait
    <3>1. /\ main = "wait" /\ main' \in {"hold", "stop"} /\ (main' = "hold" => Mode = "closed")
          /\ (now >= Deadline \/ AllFinished \/ AnyFailed) /\ UNCHANGED aborted
      BY <2>4 DEF Wait, MainGoes, WaitEnds, Late
    <3>. QED
      BY <1>0, <1>1, <1>5, <3>1 DEF MainThread, OpenSlots, WhyStopped
  <2>5. CASE Interrupt
    <3>1. main \in {"pace", "gate", "submit", "hold", "wait"} /\ main' = "stop" /\ aborted'
      BY <2>5 DEF Interrupt
    <3>2. ~closed
      BY <1>0, <3>1 DEF MainThread
    <3>. QED
      BY <1>0, <1>1, <3>1, <3>2 DEF MainThread, OpenSlots, WhyStopped
  <2>6. CASE StopPacer
    <3>1. main = "stop" /\ main' = "finalise" /\ UNCHANGED aborted
      BY <2>6 DEF StopPacer, MainGoes
    <3>. QED
      BY <1>0, <1>1, <1>5, <3>1 DEF MainThread, OpenSlots, WhyStopped
  <2>7. CASE Collect
    <3>1. main = "collect" /\ main' = "shutdown"
      BY <2>7 DEF Collect, MainGoes
    <3>. QED
      BY <1>0, <1>1, <1>2, <3>1 DEF MainThread, OpenSlots, WhyStopped
  <2>. QED
    BY <2>1, <2>2, <2>3, <2>4, <2>5, <2>6, <2>7
<1>. QED
  BY <1>1, <1>2, <1>3, <1>4, <1>6, QuietKeeps

(* The open loop's main thread enters slots: of the arrival it is about to *)
(* submit, or of those it gives up at the deadline.                        *)
Enters(N) ==
    /\ DOMAIN slots' = DOMAIN slots \cup N
    /\ \A i \in DOMAIN slots : i \notin N /\ slots'[i] = slots[i]
    /\ \A i \in N : /\ i \in Tasks
                    /\ slots'[i] \in Slots
                    /\ slots'[i].dispatched = None
                    /\ \/ slots'[i].outcome = "none" /\ main' = "submit" /\ i = next
                       \/ slots'[i].outcome = "not_dispatched" /\ now >= Deadline

(* The main thread enters slots, for one arrival or for all that are left. *)
LEMMA EntersKeeps ==
    ASSUME BarrageInv, Mode = "open", ~closed, main \in {"pace", "gate"},
           main' \in {"submit", "hold"},
           UNCHANGED <<now, next, wire, closed, records, futures, aborted, result, index,
                       holder, done, rate, credit, held, stamp, queue, future, wpc, wtask>>,
           NEW N, Enters(N),
           main' = "submit" => next \in N /\ slots'[next].outcome = "none",
           MainThread'
    PROVE  BarrageInv'
<1>0. NTasks \in Nat
  BY PoolAssumption
<1>1. TypeOK'
  <2>1. closed' \in BOOLEAN /\ futures' \in BOOLEAN /\ aborted' \in BOOLEAN /\ done' \in BOOLEAN
    BY DEF BarrageInv, TypeOK
  <2>2. DOMAIN slots' \subseteq Nat /\ \A i \in DOMAIN slots' : slots'[i] \in Slots
    BY <1>0 DEF BarrageInv, TypeOK, Enters, Tasks
  <2>. QED
    BY <2>1, <2>2 DEF BarrageInv, TypeOK
<1>2. Pool'
  BY DEF BarrageInv, Pool, WorkerOf, Queue, Submitted
<1>3. OpenRun'
  <2>1. \A i \in DOMAIN slots' : SlotOf(i)'
    BY DEF BarrageInv, OpenRun, SlotOf, Enters
  <2>2. wire' = {i \in DOMAIN slots' : slots'[i].dispatched # None}
    <3>1. wire = {i \in DOMAIN slots : slots[i].dispatched # None}
      BY DEF BarrageInv, OpenRun
    <3>. QED
      BY <3>1 DEF Enters
  <2>3. ASSUME NEW v \in Workers PROVE RequestOf(v)'
    <3>1. RequestOf(v) /\ wpc[v] # "append"
      BY DEF BarrageInv, OpenRun, Pool, WorkerOf, Entered
    <3>. QED
      BY <3>1 DEF RequestOf, Enters, Entered
  <2>4. Waiting'
    BY DEF BarrageInv, OpenRun, Waiting, Fresh, Enters
  <2>5. AnyFailed' <=> AnyFailed
    BY DEF AnyFailed, Failed
  <2>6. EverySlotIsCarried'
    BY <2>5 DEF BarrageInv, OpenRun, EverySlotIsCarried, Enters
  <2>. QED
    BY <2>1, <2>2, <2>3, <2>4, <2>6 DEF OpenRun
<1>4. Indices' /\ Lock' /\ TokenTimes' /\ TokenOrderIsIndexOrder'
  BY DEF BarrageInv, Indices, Lock, TokenTimes, TokenOrderIsIndexOrder
<1>5. RecordsTellWhatWasSent' /\ CutByTheDeadlineOnly' /\ NoArrivalIsForgotten'
  BY DEF BarrageInv, RecordsTellWhatWasSent, CutByTheDeadlineOnly, NoArrivalIsForgotten
<1>. QED
  BY <1>1, <1>2, <1>3, <1>4, <1>5 DEF BarrageInv

(* The two steps that enter slots. *)
LEMMA EnteringSteps ==
    ASSUME BarrageInv, GiveUpTheRest \/ EnterSlot
    PROVE  BarrageInv'
<1>0. /\ next \in Nat /\ next >= 1 /\ NTasks \in Nat /\ Mode \in {"open", "closed"} /\ MainThread
      /\ Offsets \in Seq(Nat)
  BY PoolAssumption, BarrageAssumption DEF BarrageInv, TypeOK, MainThread
<1>1. /\ main \in {"pace", "gate"} /\ main' \in {"submit", "hold"}
      /\ UNCHANGED <<now, next, wire, closed, records, futures, aborted, result, index,
                     holder, done, rate, credit, held, stamp, queue, future, wpc, wtask>>
  BY DEF GiveUpTheRest, EnterSlot, MainGoes, pacerVars, carried, poolVars
<1>2. /\ Mode = "open" /\ ~closed /\ DOMAIN slots = 1..(next - 1) /\ next <= NTasks + 1
      /\ NTasks = Len(Offsets)
  BY <1>0, <1>1, BarrageAssumption DEF MainThread, OpenSlots
<1>3. \A i \in Tasks : Offsets[i] \in Nat
  BY <1>0, <1>2 DEF Tasks
<1>4. CASE GiveUpTheRest
  <2>. DEFINE N == next..Len(Offsets)
              new == [i \in N |-> NewSlot(Offsets[i], "not_dispatched")]
  <2>1. main' = "hold" /\ now >= Deadline /\ slots' = WithSlots(new)
    BY <1>4 DEF GiveUpTheRest, MainGoes, Late
  <2>2. /\ DOMAIN slots' = DOMAIN slots \cup N
        /\ \A i \in N : slots'[i] = NewSlot(Offsets[i], "not_dispatched")
        /\ \A i \in DOMAIN slots : i \notin N => slots'[i] = slots[i]
    BY <2>1 DEF WithSlots
  <2>3. /\ \A i \in DOMAIN slots : i \notin N
        /\ \A i \in N : i \in Tasks
        /\ DOMAIN slots \cup N = Tasks
    BY <1>0, <1>2 DEF Tasks
  <2>. HIDE DEF N
  <2>4. "not_dispatched" \in Outcomes \cup {"none"}
    BY DEF Outcomes
  <2>5. Enters(N)
    BY <1>3, <2>1, <2>2, <2>3, <2>4, NewSlotFields DEF Enters
  <2>6. MainThread'
    BY <1>0, <1>1, <1>2, <2>1, <2>2, <2>3 DEF MainThread, OpenSlots, WhyStopped, Tasks
  <2>. QED
    BY <1>1, <1>2, <2>1, <2>5, <2>6, EntersKeeps
<1>5. CASE EnterSlot
  <2>. DEFINE new == [i \in {next} |-> NewSlot(Offsets[i], "none")]
  <2>1. main = "gate" /\ main' = "submit" /\ slots' = WithSlots(new)
    BY <1>5 DEF EnterSlot, MainGoes
  <2>2. next \in Tasks /\ next \notin DOMAIN slots /\ DOMAIN slots \cup {next} = 1..next
    BY <1>0, <1>2, <2>1 DEF MainThread, Tasks
  <2>3. /\ DOMAIN slots' = DOMAIN slots \cup {next}
        /\ slots'[next] = NewSlot(Offsets[next], "none")
        /\ \A i \in DOMAIN slots : slots'[i] = slots[i]
    BY <2>1, <2>2 DEF WithSlots
  <2>4. /\ slots'[next] \in Slots
        /\ slots'[next].dispatched = None /\ slots'[next].outcome = "none"
    BY <1>3, <2>2, <2>3, NewSlotFields
  <2>5. Enters({next})
    BY <2>1, <2>2, <2>3, <2>4 DEF Enters
  <2>6. MainThread'
    <3>1. DOMAIN slots' = 1..next /\ 1..(next - 1) \subseteq 1..next /\ 1..next \subseteq Tasks
          /\ next <= NTasks
      BY <1>0, <2>2, <2>3 DEF Tasks
    <3>. QED
      BY <1>0, <1>1, <1>2, <2>1, <3>1 DEF MainThread, OpenSlots, WhyStopped
  <2>. QED
    BY <1>1, <1>2, <2>1, <2>4, <2>5, <2>6, EntersKeeps
<1>. QED
  BY <1>4, <1>5

(* An arrival is handed to the pool. *)
LEMMA SubmitStep ==
    ASSUME BarrageInv, Submit
    PROVE  BarrageInv'
<1>0. /\ TypeOK /\ Pool /\ MainThread /\ OpenRun
      /\ next \in Nat /\ NTasks \in Nat /\ Mode \in {"open", "closed"}
  BY PoolAssumption, BarrageAssumption DEF BarrageInv, TypeOK
<1>1. /\ main = "submit" /\ main' \in {"submit", "pace", "wait"} /\ next' = next + 1
      /\ Mode = "open" <=> main' = "pace"
      /\ main' = "submit" => next < NTasks
      /\ main' = "wait" => ~(next < NTasks)
      /\ futures' \in BOOLEAN
      /\ UNCHANGED <<now, records, aborted, result, slots, closed, wire, index, holder, done,
                     rate, credit, held, stamp, wpc, wtask>>
  BY <1>0 DEF Submit, SubmitTask, MainGoes, runVars, pacerVars, carried
<1>2. /\ queue' \in Seq(Tasks \cup {NoTask}) /\ future' \in [Tasks -> FutureStates]
      /\ next \in Tasks /\ Pool'
  BY <1>0, SubmitKeeps
<1>3. /\ future[next] = "none" /\ future'[next] = "pending"
      /\ \A k \in Tasks : k # next => future'[k] = future[k]
  <2>1. future[next] = "none"
    BY <1>0, <1>2 DEF Pool, Submitted
  <2>. QED
    BY <1>0, <1>2, <2>1 DEF Submit, SubmitTask, TypeOK
<1>4. ~closed
  BY <1>0, <1>1 DEF MainThread
<1>5. TypeOK'
  <2>1. closed' \in BOOLEAN /\ aborted' \in BOOLEAN /\ done' \in BOOLEAN
    BY <1>0, <1>1 DEF TypeOK
  <2>2. next' \in Nat
    BY <1>0, <1>1
  <2>. QED
    BY <1>0, <1>1, <1>2, <2>1, <2>2 DEF TypeOK
<1>6. Mode = "open" => DOMAIN slots = 1..next
  BY <1>0, <1>1 DEF MainThread, OpenSlots
<1>7. MainThread'
  <2>1. next + 1 >= 1 /\ next + 1 <= NTasks + 1 /\ (next + 1) - 1 = next
    BY <1>0, <1>2 DEF Tasks
  <2>2. main' = "submit" => next + 1 <= NTasks
    BY <1>0, <1>1
  <2>3. main' = "wait" => next + 1 > NTasks
    BY <1>0, <1>1
  <2>4. OpenSlots'
    BY <1>0, <1>1, <1>4, <1>6, <2>1 DEF MainThread, OpenSlots
  <2>5. WhyStopped'
    BY <1>1, <2>3 DEF WhyStopped
  <2>. QED
    BY <1>0, <1>1, <1>4, <2>1, <2>2, <2>4, <2>5 DEF MainThread
<1>8. AnyFailed' <=> AnyFailed
  BY <1>2, <1>3 DEF AnyFailed, Failed
<1>9. OpenRun'
  <2>1. \A i \in DOMAIN slots : SlotOf(i)'
    BY <1>0, <1>1, <1>4 DEF OpenRun, SlotOf
  <2>2. \A v \in Workers : RequestOf(v)'
    BY <1>0, <1>1, <1>4 DEF OpenRun, RequestOf
  <2>3. Waiting'
    <3>1. Mode = "open" => next \in DOMAIN slots /\ Fresh(slots[next])
      BY <1>0, <1>1, <1>2, <1>4, <1>6 DEF OpenRun, Waiting, Tasks
    <3>. QED
      BY <1>0, <1>1, <1>3, <1>4, <3>1 DEF OpenRun, Waiting, Fresh
  <2>4. EverySlotIsCarried'
    BY <1>0, <1>1, <1>2, <1>3, <1>4, <1>8 DEF OpenRun, EverySlotIsCarried
  <2>. QED
    BY <1>0, <1>1, <1>4, <2>1, <2>2, <2>3, <2>4 DEF OpenRun
<1>10. Indices' /\ Lock' /\ TokenTimes' /\ TokenOrderIsIndexOrder'
  BY <1>1 DEF BarrageInv, Indices, Lock, TokenTimes, TokenOrderIsIndexOrder
<1>11. RecordsTellWhatWasSent' /\ CutByTheDeadlineOnly' /\ NoArrivalIsForgotten'
  BY <1>1, <1>4 DEF RecordsTellWhatWasSent, CutByTheDeadlineOnly, NoArrivalIsForgotten
<1>. QED
  BY <1>2, <1>5, <1>7, <1>9, <1>10, <1>11 DEF BarrageInv

(* The pool is shut down. *)
LEMMA ShutdownStep ==
    ASSUME BarrageInv, Shutdown
    PROVE  BarrageInv'
<1>0. TypeOK /\ Pool /\ MainThread
  BY DEF BarrageInv
<1>1. /\ main = "shutdown" /\ main' = "over" /\ closed
      /\ UNCHANGED <<now, next, records, futures, aborted, result, slots, closed, wire, index,
                     holder, done, rate, credit, held, stamp, wpc, wtask>>
  BY <1>0 DEF Shutdown, ShutdownPool, MainGoes, MainThread, runVars, pacerVars, carried
<1>2. /\ queue' \in Seq(Tasks \cup {NoTask}) /\ future' \in [Tasks -> FutureStates]
      /\ AnyFailed' <=> AnyFailed
      /\ Pool'
  BY <1>0, ShutdownKeeps
<1>3. TypeOK'
  <2>1. closed' \in BOOLEAN /\ futures' \in BOOLEAN /\ aborted' \in BOOLEAN /\ done' \in BOOLEAN
    BY <1>0, <1>1 DEF TypeOK
  <2>. QED
    BY <1>0, <1>1, <1>2, <2>1 DEF TypeOK
<1>4. MainThread'
  BY <1>0, <1>1 DEF MainThread, OpenSlots, WhyStopped
<1>5. OpenRun'
  BY <1>1 DEF OpenRun
<1>6. Indices' /\ Lock' /\ TokenTimes' /\ TokenOrderIsIndexOrder'
  BY <1>1 DEF BarrageInv, Indices, Lock, TokenTimes, TokenOrderIsIndexOrder
<1>7. RecordsTellWhatWasSent' /\ CutByTheDeadlineOnly' /\ NoArrivalIsForgotten'
  BY <1>1, <1>2 DEF BarrageInv, RecordsTellWhatWasSent, CutByTheDeadlineOnly, NoArrivalIsForgotten
<1>. QED
  BY <1>2, <1>3, <1>4, <1>5, <1>6, <1>7 DEF BarrageInv

(* The run is closed: every slot is frozen, and that is when the three     *)
(* promises about the records are made.                                    *)
LEMMA FinaliseStep ==
    ASSUME BarrageInv, Finalise
    PROVE  BarrageInv'
<1>0. TypeOK /\ Pool /\ MainThread /\ OpenRun
  BY DEF BarrageInv
<1>1. /\ main = "finalise" /\ main' = "collect" /\ ~closed /\ closed' = TRUE
      /\ records' = [i \in DOMAIN slots |-> Freeze(slots[i])]
      /\ UNCHANGED <<now, next, futures, aborted, result, slots, wire, index, holder, done,
                     rate, credit, held, stamp, queue, future, wpc, wtask>>
  BY <1>0 DEF Finalise, MainGoes, MainThread, pacerVars, carried, poolVars
<1>2. DOMAIN records' = DOMAIN slots /\ \A i \in DOMAIN slots : records'[i] = Freeze(slots[i])
  BY <1>1
<1>3. \A i \in DOMAIN slots : SlotOf(i) /\ slots[i] \in Slots
  BY <1>0, <1>1 DEF OpenRun, TypeOK
<1>4. ASSUME NEW i \in DOMAIN slots
      PROVE  /\ records'[i] \in Outcomes
             /\ records'[i] \in {"completed", "abandoned"} <=> slots[i].dispatched # None
             /\ records'[i] \in {"abandoned", "not_dispatched"} =>
                   slots[i].outcome = "none" \/ now >= Deadline
  BY <1>2, <1>3 DEF SlotOf, Freeze, Outcomes
<1>5. TypeOK'
  <2>1. closed' \in BOOLEAN /\ futures' \in BOOLEAN /\ aborted' \in BOOLEAN /\ done' \in BOOLEAN
    BY <1>0, <1>1 DEF TypeOK
  <2>2. DOMAIN records' \subseteq Nat /\ \A i \in DOMAIN records' : records'[i] \in Outcomes
    BY <1>0, <1>2, <1>4 DEF TypeOK
  <2>. QED
    BY <1>0, <1>1, <2>1, <2>2 DEF TypeOK
<1>6. Pool'
  BY <1>0, <1>1 DEF Pool, WorkerOf, Queue, Submitted
<1>7. MainThread'
  BY <1>0, <1>1, <1>2 DEF MainThread, OpenSlots, WhyStopped
<1>8. Indices' /\ Lock' /\ TokenTimes' /\ TokenOrderIsIndexOrder'
  BY <1>1 DEF BarrageInv, Indices, Lock, TokenTimes, TokenOrderIsIndexOrder
<1>9. RecordsTellWhatWasSent'
  <2>1. wire = {i \in DOMAIN slots : slots[i].dispatched # None}
    BY <1>0, <1>1 DEF OpenRun
  <2>. QED
    BY <1>1, <1>2, <1>4, <2>1 DEF RecordsTellWhatWasSent
<1>10. CutByTheDeadlineOnly'
  <2>0. AnyFailed' <=> AnyFailed
    BY <1>1 DEF AnyFailed, Failed
  <2>. SUFFICES ASSUME ~aborted, ~AnyFailed, NEW i \in DOMAIN slots, slots[i].outcome = "none"
       PROVE  now >= Deadline
    BY <1>1, <1>2, <1>4, <2>0 DEF CutByTheDeadlineOnly
  <2>1. now >= Deadline \/ AllFinished
    BY <1>0, <1>1 DEF MainThread, WhyStopped
  <2>2. \/ \E w \in Workers : wpc[w] \in Entered /\ held[w] = i
        \/ i \in Tasks /\ future[i] = "pending"
    BY <1>0, <1>1 DEF OpenRun, EverySlotIsCarried
  <2>3. \E k \in Tasks : future[k] \in {"pending", "running"}
    <3>1. \A w \in Workers : wpc[w] \in Entered => wtask[w] \in Tasks /\ future[wtask[w]] = "running"
      BY <1>0 DEF Pool, WorkerOf, TypeOK, Entered, InTask
    <3>. QED
      BY <2>2, <3>1
  <2>4. ~AllFinished
    BY <2>3 DEF AllFinished, Failed
  <2>. QED
    BY <2>1, <2>4
<1>11. NoArrivalIsForgotten'
  BY <1>0, <1>1, <1>2 DEF MainThread, OpenSlots, NoArrivalIsForgotten
<1>. QED
  BY <1>1, <1>5, <1>6, <1>7, <1>8, <1>9, <1>10, <1>11 DEF BarrageInv, OpenRun

(* The clock goes on. *)
LEMMA TickStep ==
    ASSUME BarrageInv, Tick
    PROVE  BarrageInv'
<1>0. /\ TypeOK /\ Pool /\ MainThread /\ OpenRun
      /\ now \in Nat /\ Deadline \in Nat /\ Token \in Nat
      /\ credit \in 0..Token /\ rate \in Nat
  BY BarrageAssumption DEF BarrageInv, TypeOK, Deadline
<1>1. /\ now' = now + 1
      /\ credit' = IF credit + rate < Token THEN credit + rate ELSE Token
      /\ UNCHANGED <<main, next, records, futures, aborted, result, slots, closed, wire, index,
                     holder, done, rate, held, stamp, queue, future, wpc, wtask>>
  BY DEF Tick, mainVars, runVars, carried, poolVars
<1>2. /\ \A t \in Int : t <= now => t <= now'
      /\ now >= Deadline => now' >= Deadline
      /\ now' \in Nat /\ credit' \in 0..Token
  BY <1>0, <1>1
<1>3. (AnyFailed' <=> AnyFailed) /\ (AllFinished' <=> AllFinished)
  BY <1>1 DEF AnyFailed, AllFinished, Failed
<1>4. TypeOK'
  <2>1. closed' \in BOOLEAN /\ futures' \in BOOLEAN /\ aborted' \in BOOLEAN /\ done' \in BOOLEAN
    BY <1>0, <1>1 DEF TypeOK
  <2>. QED
    BY <1>0, <1>1, <1>2, <2>1 DEF TypeOK
<1>5. Pool'
  BY <1>0, <1>1 DEF Pool, WorkerOf, Queue, Submitted
<1>6. MainThread'
  BY <1>0, <1>1, <1>2, <1>3 DEF MainThread, OpenSlots, WhyStopped, Deadline
<1>7. OpenRun'
  <2>. SUFFICES ASSUME ~closed PROVE OpenRun'
    BY <1>1 DEF OpenRun
  <2>1. \A i \in DOMAIN slots : SlotOf(i)'
    BY <1>0, <1>1, <1>2 DEF OpenRun, SlotOf, Deadline
  <2>2. \A v \in Workers : RequestOf(v)'
    BY <1>0, <1>1 DEF OpenRun, RequestOf
  <2>3. Waiting' /\ EverySlotIsCarried'
    BY <1>0, <1>1, <1>3 DEF OpenRun, Waiting, Fresh, EverySlotIsCarried
  <2>. QED
    BY <1>0, <1>1, <2>1, <2>2, <2>3 DEF OpenRun
<1>8. Indices' /\ Lock' /\ TokenOrderIsIndexOrder'
  BY <1>1 DEF BarrageInv, Indices, Lock, TokenOrderIsIndexOrder
<1>9. TokenTimes'
  <2>1. /\ \A i \in DOMAIN slots : slots[i].due \in Int
        /\ \A w \in Workers : stamp[w] \in Int
    BY <1>0 DEF TypeOK, Slots
  <2>. QED
    BY <1>1, <1>2, <2>1 DEF BarrageInv, TokenTimes
<1>10. RecordsTellWhatWasSent' /\ CutByTheDeadlineOnly' /\ NoArrivalIsForgotten'
  BY <1>1, <1>2, <1>3 DEF BarrageInv, RecordsTellWhatWasSent, CutByTheDeadlineOnly,
                          NoArrivalIsForgotten, Deadline
<1>. QED
  BY <1>4, <1>5, <1>6, <1>7, <1>8, <1>9, <1>10 DEF BarrageInv

-----------------------------------------------------------------------------
(* A run begins with no slot, no task and a full bucket. *)
LEMMA BarrageInit == Init => BarrageInv
<1>. SUFFICES ASSUME Init PROVE BarrageInv
  OBVIOUS
<1>0. /\ NTasks \in Nat /\ Mode \in {"open", "closed"} /\ Token \in Nat
      /\ Mode = "closed" => NTasks >= 1
  <2>1. Cardinality(Workers) \in Nat /\ Cardinality(Workers) # 0
    BY PoolAssumption, BarrageAssumption, FS_CardinalityType, FS_EmptySet
  <2>. QED
    BY <2>1, PoolAssumption, BarrageAssumption
<1>1. /\ now = 0 /\ main = (IF Mode = "open" THEN "pace" ELSE "submit") /\ next = 1
      /\ DOMAIN slots = {} /\ DOMAIN records = {} /\ wire = {} /\ DOMAIN queue = {}
      /\ closed = FALSE /\ futures = FALSE /\ aborted = FALSE /\ done = FALSE
      /\ \A w \in Workers : wpc[w] = "get" /\ wtask[w] = NoTask
      /\ \A k \in Tasks : future[k] = "none"
  BY DEF Init, PoolInit
<1>2. TypeOK
  <2>1. rate \in Nat \ {0}
    <3>1. ASSUME NEW S, NEW s \in Seq(S), Len(s) > 0 PROVE s[1] \in S
      BY <3>1
    <3>2. Stages[1] \in [end : Nat, rate : Nat \ {0}]
      BY <3>1, BarrageAssumption, Zenon
    <3>. QED
      BY <3>2 DEF Init
  <2>2. /\ queue \in Seq(Tasks \cup {NoTask})
        /\ future \in [Tasks -> FutureStates]
        /\ wpc \in [Workers -> WorkerStates]
        /\ wtask \in [Workers -> Tasks \cup {NoTask}]
        /\ held \in [Workers -> Nat] /\ stamp \in [Workers -> Nat]
    BY DEF Init, PoolInit, FutureStates, WorkerStates
  <2>3. closed \in BOOLEAN /\ futures \in BOOLEAN /\ aborted \in BOOLEAN /\ done \in BOOLEAN
    BY <1>1
  <2>4. /\ holder \in Workers \cup {NoWorker} /\ index \in Nat /\ credit \in 0..Token
        /\ result \in {"none", "returned", "raised"}
    BY <1>0 DEF Init
  <2>. QED
    BY <1>0, <1>1, <2>1, <2>2, <2>3, <2>4 DEF TypeOK
<1>3. Pool
  <2>1. \A k \in Tasks : k >= 1
    BY <1>0 DEF Tasks
  <2>. QED
    BY <1>1, <2>1 DEF Pool, WorkerOf, Queue, Submitted, InTask
<1>4. MainThread
  <2>1. 1..(1 - 1) = {}
    OBVIOUS
  <2>. QED
    BY <1>0, <1>1, <2>1 DEF MainThread, OpenSlots, WhyStopped
<1>5. OpenRun
  BY <1>0, <1>1 DEF OpenRun, RequestOf, Waiting, EverySlotIsCarried, Entered
<1>6. Indices /\ Lock /\ TokenTimes /\ TokenOrderIsIndexOrder
  BY <1>1 DEF Indices, Lock, TokenTimes, TokenOrderIsIndexOrder, Carrying, Entered, InPacer
<1>7. RecordsTellWhatWasSent /\ CutByTheDeadlineOnly /\ NoArrivalIsForgotten
  BY <1>1 DEF RecordsTellWhatWasSent, CutByTheDeadlineOnly, NoArrivalIsForgotten
<1>. QED
  BY <1>2, <1>3, <1>4, <1>5, <1>6, <1>7 DEF BarrageInv

(* No step. *)
LEMMA BarrageStutter == BarrageInv /\ UNCHANGED vars => BarrageInv'
<1>. SUFFICES ASSUME BarrageInv, UNCHANGED vars PROVE BarrageInv'
  OBVIOUS
<1>1. UNCHANGED <<now, main, next, records, futures, aborted, result, slots, closed, wire, index,
                  holder, done, rate, credit, held, stamp, queue, future, wpc, wtask>>
  BY DEF vars, mainVars, runVars, pacerVars, carried, poolVars
<1>2. TypeOK'
  <2>1. closed' \in BOOLEAN /\ futures' \in BOOLEAN /\ aborted' \in BOOLEAN /\ done' \in BOOLEAN
    BY <1>1 DEF BarrageInv, TypeOK
  <2>. QED
    BY <1>1, <2>1 DEF BarrageInv, TypeOK
<1>3. (AnyFailed' <=> AnyFailed) /\ (AllFinished' <=> AllFinished)
  BY <1>1 DEF AnyFailed, AllFinished, Failed
<1>4. Pool'
  BY <1>1 DEF BarrageInv, Pool, WorkerOf, Queue, Submitted
<1>5. MainThread'
  BY <1>1, <1>3 DEF BarrageInv, MainThread, OpenSlots, WhyStopped
<1>6. OpenRun'
  <2>1. \A v \in Workers : RequestOf(v)' <=> RequestOf(v)
    BY <1>1 DEF RequestOf
  <2>2. \A i \in DOMAIN slots : SlotOf(i)' <=> SlotOf(i)
    BY <1>1 DEF SlotOf
  <2>3. (Waiting' <=> Waiting) /\ (EverySlotIsCarried' <=> EverySlotIsCarried)
    BY <1>1, <1>3 DEF Waiting, Fresh, EverySlotIsCarried
  <2>. QED
    BY <1>1, <2>1, <2>2, <2>3 DEF BarrageInv, OpenRun
<1>7. Indices' /\ Lock' /\ TokenTimes' /\ TokenOrderIsIndexOrder'
  BY <1>1 DEF BarrageInv, Indices, Lock, TokenTimes, TokenOrderIsIndexOrder
<1>8. RecordsTellWhatWasSent' /\ CutByTheDeadlineOnly' /\ NoArrivalIsForgotten'
  BY <1>1, <1>3 DEF BarrageInv, RecordsTellWhatWasSent, CutByTheDeadlineOnly, NoArrivalIsForgotten
<1>. QED
  BY <1>2, <1>4, <1>5, <1>6, <1>7, <1>8 DEF BarrageInv

(* Every step of the run keeps the invariant. *)
LEMMA BarrageStep == BarrageInv /\ [Next]_vars => BarrageInv'
<1>1. ASSUME BarrageInv, Main PROVE BarrageInv'
  BY <1>1, QuietSteps, EnteringSteps, SubmitStep, FinaliseStep, ShutdownStep DEF Main
<1>2. ASSUME BarrageInv, NEW w \in Workers, Worker(w) \/ Answer(w) \/ HookRaises(w)
      PROVE  BarrageInv'
  BY <1>2, WorkerKeeps DEF WorkerStep
<1>. QED
  BY <1>1, <1>2, QuietSteps, TickStep, BarrageStutter DEF Next, Over

(* The inductive invariant holds throughout a run, whatever the workers    *)
(* and the main thread of runner.py do, in any order.                      *)
THEOREM BarrageInvariant == Spec => []BarrageInv
BY BarrageInit, BarrageStep, PTL DEF Spec

(* The artifact of a run tells the truth, with any number of workers and   *)
(* any schedule, in both modes: the requests it calls completed or         *)
(* abandoned are those that were sent, also by workers that went on after  *)
(* the run was closed, and in the closed loop a request with a later index *)
(* took its token no earlier (runner.py finalise, send, take).             *)
THEOREM RecordsAreTrueHolds == Spec => []RecordsAreTrue
<1>1. BarrageInv => RecordsAreTrue
  BY DEF BarrageInv, RecordsAreTrue
<1>. QED
  BY <1>1, BarrageInvariant, PTL

(* Only the deadline cuts a run short: no request of a run that nobody     *)
(* interrupted and no hook broke is given up before it (runner.py, wait    *)
(* with its timeout and the finally block).                                *)
THEOREM CutByTheDeadlineOnlyHolds == Spec => []CutByTheDeadlineOnly
<1>1. BarrageInv => CutByTheDeadlineOnly
  BY DEF BarrageInv
<1>. QED
  BY <1>1, BarrageInvariant, PTL

(* An open-loop run that nobody interrupted has a record of every arrival  *)
(* of its schedule (runner.py _run_open_loop, its early stop included).    *)
THEOREM NoArrivalIsForgottenHolds == Spec => []NoArrivalIsForgotten
<1>1. BarrageInv => NoArrivalIsForgotten
  BY DEF BarrageInv
<1>. QED
  BY <1>1, BarrageInvariant, PTL
=============================================================================
