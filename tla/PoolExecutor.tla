---------------------------- MODULE PoolExecutor ----------------------------
(***************************************************************************)
(* The worker pool of testinghq/barrage/executor.py: daemon threads fed    *)
(* from one queue, a Future per task, and a shutdown that cancels what has *)
(* not started and never waits for what has.                               *)
(*                                                                         *)
(* The steps a task takes are the client's: a claimed task starts at the   *)
(* client's first step, and ends with EndTask.                             *)
(***************************************************************************)
EXTENDS Integers, Sequences, FiniteSets

CONSTANTS
    Workers,   \* the pool's threads
    NTasks     \* how many tasks are submitted at most

ASSUME PoolAssumption ==
    /\ IsFiniteSet(Workers)
    /\ NTasks \in Nat

Tasks == 1..NTasks

(* The None that stops a worker, and the task of an idle one. *)
NoTask == 0

VARIABLES
    queue,   \* _queue
    future,  \* the state of each task's Future; "none" before submit
    wpc,     \* where each worker is
    wtask    \* the task it has

poolVars == <<queue, future, wpc, wtask>>

FutureStates ==
    {"none", "pending", "running", "cancelled", "done", "failed", "interrupted"}

PoolInit ==
    /\ queue = <<>>
    /\ future = [k \in Tasks |-> "none"]
    /\ wpc = [w \in Workers |-> "get"]
    /\ wtask = [w \in Workers |-> NoTask]

(* submit *)
SubmitTask(k) ==
    /\ future' = [future EXCEPT ![k] = "pending"]
    /\ queue' = Append(queue, k)
    /\ UNCHANGED <<wpc, wtask>>

(* A worker takes the next item, or stops at a None. *)
Get(w) ==
    /\ wpc[w] = "get"
    /\ queue # <<>>
    /\ queue' = Tail(queue)
    /\ wtask' = [wtask EXCEPT ![w] = Head(queue)]
    /\ wpc' = [wpc EXCEPT ![w] = IF Head(queue) = NoTask THEN "exited" ELSE "claim"]
    /\ UNCHANGED future

(* It marks the Future running, unless a shutdown has cancelled it. *)
Claim(w, firstStep) ==
    /\ wpc[w] = "claim"
    /\ IF future[wtask[w]] = "cancelled"
       THEN /\ wpc' = [wpc EXCEPT ![w] = "get"]
            /\ wtask' = [wtask EXCEPT ![w] = NoTask]
            /\ UNCHANGED future
       ELSE /\ wpc' = [wpc EXCEPT ![w] = firstStep]
            /\ future' = [future EXCEPT ![wtask[w]] = "running"]
            /\ UNCHANGED wtask
    /\ UNCHANGED queue

(* The task returns or raises, and its Future says which. *)
EndTask(w, how) ==
    /\ future' = [future EXCEPT ![wtask[w]] = how]
    /\ wpc' = [wpc EXCEPT ![w] = "get"]
    /\ wtask' = [wtask EXCEPT ![w] = NoTask]
    /\ UNCHANGED queue

CancelPending ==
    future' = [k \in Tasks |-> IF future[k] = "pending" THEN "cancelled"
                               ELSE future[k]]

(* Mutant: one None for the whole pool. *)
ShutdownWithOneNone ==
    /\ CancelPending
    /\ queue' = Append(queue, NoTask)
    /\ UNCHANGED <<wpc, wtask>>

(* shutdown(cancel_pending=True): one None for each thread. *)
ShutdownPool ==
    /\ CancelPending
    /\ queue' = queue \o [i \in 1..Cardinality(Workers) |-> NoTask]
    /\ UNCHANGED <<wpc, wtask>>

(* The tests the runner makes of its futures. *)
Failed(k) == future[k] \in {"failed", "interrupted"}

AllFinished == \A k \in Tasks : future[k] \in {"none", "cancelled", "done"} \/ Failed(k)
=============================================================================
