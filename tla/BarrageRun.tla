----------------------------- MODULE BarrageRun -----------------------------
(***************************************************************************)
(* One load run: testinghq/barrage/runner.py run, _Run, _run_open_loop,    *)
(* _run_closed_loop and _ClosedLoopPacer, over the pool that               *)
(* barrage/fire.py execute hands it.                                       *)
(*                                                                         *)
(* The main thread hands out the work, waits for it no longer than the     *)
(* deadline, and closes the run whatever the workers are doing; a worker   *)
(* may be blocked in a request for ever.  Ctrl-C lands anywhere in the     *)
(* main thread before the run is closed.  Every step happens when its      *)
(* thread gets to run: no sleep, and no step, ends on time.                *)
(*                                                                         *)
(* Time starts at 0 with the run.  The open loop's rate gate may hold an   *)
(* arrival for any time (TokenBucket says how long that is); the closed    *)
(* loop's bucket is the EagerBucket that TokenBucket implements, of        *)
(* capacity one token.                                                     *)
(***************************************************************************)
EXTENDS PoolExecutor

CONSTANTS
    Mode,      \* "open" or "closed"
    Offsets,   \* open loop: when each arrival is due
    Stages,    \* closed loop: [end, rate], the rate in grains per tick
    Token,     \* grains in a token
    End,       \* warmup + hold
    Grace,     \* grace_seconds
    MaxQueue,  \* max_queue_seconds
    Horizon    \* bound: the clock stops here

NoWorker == "no worker"

ASSUME BarrageAssumption ==
    /\ Workers # {} /\ NoWorker \notin Workers
    /\ Mode \in {"open", "closed"}
    /\ NTasks = IF Mode = "open" THEN Len(Offsets) ELSE Cardinality(Workers)
    /\ Offsets \in Seq(Nat)
    /\ Stages \in Seq([end : Nat, rate : Nat \ {0}])
    /\ Len(Stages) > 0
    /\ Stages[Len(Stages)].end = End
    /\ Token \in Nat \ {0}
    /\ End \in Nat \ {0}
    /\ Grace \in Nat
    /\ MaxQueue \in Nat \ {0}
    /\ Horizon \in Nat
    /\ Horizon >= End + Grace

None == -1

Deadline == End + Grace

VARIABLES
    now,      \* the clock
    main,     \* where run is
    next,     \* the next arrival to hand out, or the next task to submit
    slots,    \* run.slots, by index
    closed,   \* run.closed
    records,  \* what finalise froze: the outcome of each index
    futures,  \* run has the list of futures
    aborted,  \* aborted
    result,   \* "none", "returned" or "raised"
    held,     \* the index of the request a worker carries
    stamp,    \* the clock reading a worker holds: the end of its sleep, when
              \* it took its token, when its answer came
    holder,   \* the worker in the pacer's lock, or NoWorker
    done,     \* the pacer's _done
    index,    \* the pacer's _next_index
    rate,     \* the rate of the pacer's bucket
    credit,   \* what the pacer's bucket holds, in grains
    wire      \* history: the requests that were sent

mainVars == <<main, next, records, futures, aborted, result>>
runVars == <<slots, closed, wire>>
pacerVars == <<holder, done, index, rate, credit>>
carried == <<held, stamp>>
vars == <<now, mainVars, runVars, pacerVars, carried, poolVars>>

Init ==
    /\ PoolInit
    /\ now = 0
    /\ main = IF Mode = "open" THEN "pace" ELSE "submit"
    /\ next = 1
    /\ slots = <<>>
    /\ closed = FALSE
    /\ records = <<>>
    /\ futures = FALSE
    /\ aborted = FALSE
    /\ result = "none"
    /\ held = [w \in Workers |-> 0]
    /\ stamp = [w \in Workers |-> 0]
    /\ holder = NoWorker
    /\ done = FALSE
    /\ index = 1
    /\ rate = Stages[1].rate
    /\ credit = Token
    /\ wire = {}

(* The clock goes on, and the pacer's bucket fills.  Once the run is closed *)
(* only the sleeps in the pacer look at it, and they are over by End.      *)
Tick ==
    /\ now < IF closed THEN End ELSE Horizon
    /\ now' = now + 1
    /\ credit' = IF credit + rate < Token THEN credit + rate ELSE Token
    /\ UNCHANGED <<mainVars, runVars, holder, done, index, rate, carried, poolVars>>

-----------------------------------------------------------------------------
(* _Slot, and the outcome freeze gives it. *)

NewSlot(due, outcome) ==
    [due |-> due, dispatched |-> None, completed |-> None, outcome |-> outcome]

(* run.slots with more slots. *)
WithSlots(new) ==
    [i \in DOMAIN slots \cup DOMAIN new |->
        IF i \in DOMAIN new THEN new[i] ELSE slots[i]]

(* Mutant: what has no outcome yet is given none. *)
FreezeAsIs(s) == s.outcome

Freeze(s) ==
    IF s.outcome # "none" THEN s.outcome
    ELSE IF s.dispatched # None THEN "abandoned"
    ELSE "not_dispatched"

(* _Run.send, under the lock: a closed run sends nothing, a late request   *)
(* is not dispatched, and in the open loop one that queued for too long is *)
(* dropped.                                                                *)
Late == now >= Deadline

Queued(s) == Mode = "open" /\ now - s.due > MaxQueue

(* The worker's request and clock reading go out of scope. *)
LetGo(w) ==
    /\ held' = [held EXCEPT ![w] = 0]
    /\ stamp' = [stamp EXCEPT ![w] = 0]

(* Where a worker is once its request is dealt with: its task is over in   *)
(* the open loop, and takes the next token in the closed one.              *)
NextRequest(w) ==
    /\ IF Mode = "open" THEN EndTask(w, "done")
       ELSE wpc' = [wpc EXCEPT ![w] = "take"] /\ UNCHANGED <<queue, future, wtask>>
    /\ LetGo(w)

Outcome(w, outcome) ==
    /\ slots' = [slots EXCEPT ![held[w]].outcome = outcome]
    /\ NextRequest(w)
    /\ UNCHANGED <<closed, wire>>

SendClosed(w) ==
    /\ wpc[w] = "send"
    /\ closed
    /\ NextRequest(w)
    /\ UNCHANGED <<now, mainVars, runVars, pacerVars>>

SendRefused(w) ==
    /\ wpc[w] = "send"
    /\ ~closed
    /\ IF Late THEN Outcome(w, "not_dispatched")
       ELSE Queued(slots[held[w]]) /\ Outcome(w, "dropped_backlog")
    /\ UNCHANGED <<now, mainVars, pacerVars>>

OnTheWire(w) ==
    /\ slots' = [slots EXCEPT ![held[w]].dispatched = now]
    /\ wire' = wire \cup {held[w]}
    /\ wpc' = [wpc EXCEPT ![w] = "in flight"]
    /\ UNCHANGED <<now, mainVars, closed, pacerVars, carried, queue, future, wtask>>

(* Mutant: the run may have been closed while the task was queued. *)
DispatchUnchecked(w) ==
    /\ wpc[w] = "send"
    /\ ~Late
    /\ held[w] \in DOMAIN slots
    /\ ~Queued(slots[held[w]])
    /\ OnTheWire(w)

Dispatch(w) ==
    /\ wpc[w] = "send"
    /\ ~closed
    /\ ~Late
    /\ ~Queued(slots[held[w]])
    /\ OnTheWire(w)

(* send_fn returns and the worker reads the clock. *)
Answer(w) ==
    /\ wpc[w] = "in flight"
    /\ stamp' = [stamp EXCEPT ![w] = now]
    /\ wpc' = [wpc EXCEPT ![w] = "answered"]
    /\ UNCHANGED <<now, mainVars, runVars, pacerVars, held, queue, future, wtask>>

(* send_fn raises: a bug in the hook, or its own KeyboardInterrupt. *)
HookRaises(w) ==
    /\ wpc[w] = "in flight"
    /\ \E how \in {"failed", "interrupted"} : EndTask(w, how)
    /\ LetGo(w)
    /\ UNCHANGED <<now, mainVars, runVars, pacerVars>>

(* The answer counts if the run is not closed by then. *)
Record(w) ==
    /\ wpc[w] = "answered"
    /\ IF closed THEN UNCHANGED slots
       ELSE slots' = [slots EXCEPT ![held[w]].completed = stamp[w],
                                   ![held[w]].outcome = "completed"]
    /\ NextRequest(w)
    /\ UNCHANGED <<now, mainVars, closed, wire, pacerVars>>

-----------------------------------------------------------------------------
(* _ClosedLoopPacer.take.  Its lock is held through every sleep, so tokens *)
(* are taken one worker at a time.                                         *)

StageAt(t) ==
    LET later == {i \in DOMAIN Stages : t < Stages[i].end}
    IN  IF later = {} THEN Stages[Len(Stages)]
        ELSE Stages[CHOOSE i \in later : \A j \in later : i <= j]

(* wait_time at rate r, rounded up to a tick. *)
WaitTime(r) == (Token - credit + r - 1) \div r

(* Mutant: nothing serialises the token takers. *)
EnterPacerUnlocked(w) ==
    /\ wpc[w] = "take"
    /\ holder' = w
    /\ wpc' = [wpc EXCEPT ![w] = "pace"]
    /\ UNCHANGED <<now, mainVars, runVars, done, index, rate, credit, carried,
                   queue, future, wtask>>

EnterPacer(w) ==
    /\ wpc[w] = "take"
    /\ holder = NoWorker
    /\ holder' = w
    /\ wpc' = [wpc EXCEPT ![w] = "pace"]
    /\ UNCHANGED <<now, mainVars, runVars, done, index, rate, credit, carried,
                   queue, future, wtask>>

(* take returns None: the worker's task is over. *)
NoMoreTokens(w) ==
    /\ done' = TRUE
    /\ holder' = NoWorker
    /\ EndTask(w, "done")
    /\ LetGo(w)

SleepInPacer(w, state, until) ==
    /\ stamp' = [stamp EXCEPT ![w] = until]
    /\ wpc' = [wpc EXCEPT ![w] = state]
    /\ UNCHANGED <<holder, done, held, queue, future, wtask>>

(* One pass of the loop: the run is over; or the next token falls beyond   *)
(* this stage, which ends the run or moves on to the next stage; or it is  *)
(* waited for.                                                             *)
Price(w) ==
    /\ wpc[w] = "pace"
    /\ IF done \/ closed \/ now >= End
       THEN NoMoreTokens(w) /\ UNCHANGED rate
       ELSE LET stage == StageAt(now)
                ready == now + WaitTime(stage.rate)
            IN  /\ rate' = stage.rate
                /\ IF ready < stage.end THEN SleepInPacer(w, "acquire", ready)
                   ELSE IF stage.end < End THEN SleepInPacer(w, "move", stage.end)
                   ELSE NoMoreTokens(w)
    /\ UNCHANGED <<now, mainVars, runVars, index, credit>>

NextStage(w) ==
    /\ wpc[w] = "move"
    /\ now >= stamp[w]
    /\ wpc' = [wpc EXCEPT ![w] = "pace"]
    /\ UNCHANGED <<now, mainVars, runVars, pacerVars, carried, queue, future, wtask>>

(* The token is earned and taken, unless the sleep outlasted the run. *)
TakeToken(w) ==
    /\ wpc[w] = "acquire"
    /\ now >= stamp[w]
    /\ credit >= Token
    /\ credit' = credit - Token
    /\ IF now >= End
       THEN NoMoreTokens(w)
       ELSE /\ stamp' = [stamp EXCEPT ![w] = now]
            /\ wpc' = [wpc EXCEPT ![w] = "number"]
            /\ UNCHANGED <<holder, done, held, queue, future, wtask>>
    /\ UNCHANGED <<now, mainVars, runVars, index, rate>>

(* The request gets the next index, and the lock is released. *)
Number(w) ==
    /\ wpc[w] = "number"
    /\ held' = [held EXCEPT ![w] = index]
    /\ index' = index + 1
    /\ wpc' = [wpc EXCEPT ![w] = "append"]
    /\ holder' = NoWorker
    /\ UNCHANGED <<now, mainVars, runVars, done, rate, credit, stamp, queue,
                   future, wtask>>

(* The worker enters its request in the run, unless the run is closed. *)
AppendSlot(w) ==
    /\ wpc[w] = "append"
    /\ IF closed
       THEN EndTask(w, "done") /\ LetGo(w) /\ UNCHANGED slots
       ELSE /\ slots' = WithSlots([i \in {held[w]} |-> NewSlot(stamp[w], "none")])
            /\ wpc' = [wpc EXCEPT ![w] = "send"]
            /\ UNCHANGED <<carried, queue, future, wtask>>
    /\ UNCHANGED <<now, mainVars, closed, wire, pacerVars>>

(* A pool worker takes up a task. *)
StartTask(w) ==
    /\ Claim(w, IF Mode = "open" THEN "send" ELSE "take")
    /\ held' = IF Mode = "open" THEN [held EXCEPT ![w] = wtask[w]] ELSE held
    /\ UNCHANGED <<now, mainVars, runVars, pacerVars, stamp>>

GetTask(w) ==
    /\ Get(w)
    /\ UNCHANGED <<now, mainVars, runVars, pacerVars, carried>>

(* What a worker does without the target's help. *)
Worker(w) ==
    \/ GetTask(w) \/ StartTask(w)
    \/ EnterPacer(w) \/ Price(w) \/ NextStage(w) \/ TakeToken(w) \/ Number(w)
    \/ AppendSlot(w)
    \/ SendClosed(w) \/ SendRefused(w) \/ Dispatch(w) \/ Record(w)

-----------------------------------------------------------------------------
(* The main thread. *)

MainGoes(from, to) == main = from /\ main' = to

(* _run_open_loop.  The next arrival is due; when even the deadline has    *)
(* passed, it and the rest are recorded as never sent.                     *)
Arrive ==
    /\ MainGoes("pace", "gate")
    /\ next <= Len(Offsets)
    /\ now >= Offsets[next]
    /\ ~Late
    /\ UNCHANGED <<now, next, records, futures, aborted, result, runVars,
                   pacerVars, carried, poolVars>>

(* Mutant: the rest of the schedule is forgotten. *)
StopPacing ==
    /\ MainGoes("pace", "hold")
    /\ next <= Len(Offsets)
    /\ now >= Offsets[next]
    /\ Late
    /\ UNCHANGED <<now, next, records, futures, aborted, result, runVars,
                   pacerVars, carried, poolVars>>

GiveUpTheRest ==
    /\ MainGoes("pace", "hold")
    /\ next <= Len(Offsets)
    /\ now >= Offsets[next]
    /\ Late
    /\ slots' = WithSlots([i \in next..Len(Offsets) |->
                            NewSlot(Offsets[i], "not_dispatched")])
    /\ UNCHANGED <<now, next, records, futures, aborted, result, closed, wire,
                   pacerVars, carried, poolVars>>

(* The gate lets it through and its slot is entered. *)
EnterSlot ==
    /\ MainGoes("gate", "submit")
    /\ slots' = WithSlots([i \in {next} |-> NewSlot(Offsets[i], "none")])
    /\ UNCHANGED <<now, next, records, futures, aborted, result, closed, wire,
                   pacerVars, carried, poolVars>>

(* executor.submit: of an arrival, or of one of the closed loop's workers. *)
Submit ==
    /\ MainGoes("submit", IF Mode = "open" THEN "pace"
                          ELSE IF next < NTasks THEN "submit" ELSE "wait")
    /\ SubmitTask(next)
    /\ next' = next + 1
    /\ futures' = (main' = "wait")
    /\ UNCHANGED <<now, records, aborted, result, runVars, pacerVars, carried>>

ScheduleDone ==
    /\ MainGoes("pace", "hold")
    /\ next > Len(Offsets)
    /\ UNCHANGED <<now, next, records, futures, aborted, result, runVars,
                   pacerVars, carried, poolVars>>

(* _sleep_until(run.end): before the wait in the open loop, after it in    *)
(* the closed one.                                                         *)
HoldEnds ==
    /\ MainGoes("hold", IF Mode = "open" THEN "wait" ELSE "stop")
    /\ now >= End
    /\ futures' = TRUE
    /\ UNCHANGED <<now, next, records, aborted, result, runVars, pacerVars,
                   carried, poolVars>>

AnyFailed == \E k \in Tasks : Failed(k)

(* Mutant: wait is given no timeout. *)
WaitForAll == AllFinished \/ AnyFailed

(* Mutant: the grace is not waited for. *)
WaitUntilTheEnd == now >= End \/ AllFinished \/ AnyFailed

(* wait(futures, timeout=remaining, return_when=FIRST_EXCEPTION) *)
WaitEnds == Late \/ AllFinished \/ AnyFailed

Wait ==
    /\ MainGoes("wait", IF Mode = "closed" /\ ~AnyFailed THEN "hold" ELSE "stop")
    /\ WaitEnds
    /\ UNCHANGED <<now, next, records, futures, aborted, result, runVars,
                   pacerVars, carried, poolVars>>

(* KeyboardInterrupt in the main thread. *)
Interrupt ==
    /\ main \in {"pace", "gate", "submit", "hold", "wait"}
    /\ main' = "stop"
    /\ aborted' = TRUE
    /\ UNCHANGED <<now, next, records, futures, result, runVars, pacerVars,
                   carried, poolVars>>

(* The finally block: pacer.stop, then finalise. *)
StopPacer ==
    /\ MainGoes("stop", "finalise")
    /\ done' = TRUE
    /\ UNCHANGED <<now, next, records, futures, aborted, result, runVars,
                   holder, index, rate, credit, carried, poolVars>>

Finalise ==
    /\ MainGoes("finalise", "collect")
    /\ closed' = TRUE
    /\ records' = [i \in DOMAIN slots |-> Freeze(slots[i])]
    /\ UNCHANGED <<now, next, futures, aborted, result, slots, wire, pacerVars,
                   carried, poolVars>>

(* The futures run knows of are asked how they ended. *)
Collect ==
    /\ MainGoes("collect", "shutdown")
    /\ LET ended(how) == futures /\ \E k \in Tasks : future[k] = how
       IN  /\ result' = IF ended("failed") THEN "raised" ELSE "returned"
           /\ aborted' = (aborted \/ ended("interrupted"))
    /\ UNCHANGED <<now, next, records, futures, runVars, pacerVars, carried,
                   poolVars>>

Shutdown ==
    /\ MainGoes("shutdown", "over")
    /\ ShutdownPool
    /\ UNCHANGED <<now, next, records, futures, aborted, result, runVars,
                   pacerVars, carried>>

Main ==
    \/ Arrive \/ GiveUpTheRest \/ EnterSlot \/ Submit \/ ScheduleDone
    \/ HoldEnds \/ Wait \/ StopPacer \/ Finalise \/ Collect \/ Shutdown

Over == main = "over" /\ UNCHANGED vars

Next ==
    \/ Main
    \/ Interrupt
    \/ \E w \in Workers : Worker(w) \/ Answer(w) \/ HookRaises(w)
    \/ Tick
    \/ Over

Spec == Init /\ [][Next]_vars

(* Threads run and the clock goes on.  No answer is promised. *)
FairSpec ==
    /\ Spec
    /\ WF_vars(Main)
    /\ WF_vars(Tick)
    /\ \A w \in Workers : WF_vars(Worker(w))

-----------------------------------------------------------------------------
Times == Nat \cup {None}

Outcomes == {"completed", "abandoned", "dropped_backlog", "not_dispatched"}

Slots ==
    [due : Nat, dispatched : Times, completed : Times,
     outcome : Outcomes \cup {"none"}]

WorkerStates ==
    {"get", "claim", "take", "pace", "move", "acquire", "number", "append",
     "send", "in flight", "answered", "exited"}

(* Every variable holds a value of its type. *)
TypeOK ==
    /\ now \in Nat
    /\ main \in {"pace", "gate", "submit", "hold", "wait", "stop", "finalise",
                 "collect", "shutdown", "over"}
    /\ next \in Nat
    /\ DOMAIN slots \subseteq Nat
    /\ \A i \in DOMAIN slots : slots[i] \in Slots
    /\ closed \in BOOLEAN
    /\ DOMAIN records \subseteq Nat
    /\ \A i \in DOMAIN records : records[i] \in Outcomes
    /\ futures \in BOOLEAN
    /\ aborted \in BOOLEAN
    /\ result \in {"none", "returned", "raised"}
    /\ held \in [Workers -> Nat]
    /\ stamp \in [Workers -> Nat]
    /\ holder \in Workers \cup {NoWorker}
    /\ done \in BOOLEAN
    /\ index \in Nat
    /\ rate \in Nat \ {0}
    /\ credit \in 0..Token
    /\ wire \subseteq Nat
    /\ queue \in Seq(Tasks \cup {NoTask})
    /\ future \in [Tasks -> FutureStates]
    /\ wpc \in [Workers -> WorkerStates]
    /\ wtask \in [Workers -> Tasks \cup {NoTask}]

(* The records are the truth, and stay it after the run is over: exactly   *)
(* the requests they call completed or abandoned were sent, whatever a     *)
(* late worker still does with a task it took before the shutdown.         *)
RecordsTellWhatWasSent ==
    closed => wire = {i \in DOMAIN records : records[i] \in {"completed", "abandoned"}}

(* A run nobody interrupted accounts for every arrival of its schedule,    *)
(* also when it ran so late that it stopped pacing, or a hook broke.       *)
NoArrivalIsForgotten ==
    Mode = "open" /\ closed /\ ~aborted => DOMAIN records = Tasks

(* Only the deadline cuts a run short: unless it was interrupted or a hook *)
(* raised, no request is given up, in flight or in the queue, before it.   *)
CutByTheDeadlineOnly ==
    /\ closed /\ ~aborted /\ ~AnyFailed
    /\ \E i \in DOMAIN records : records[i] \in {"abandoned", "not_dispatched"}
    => now >= Deadline

(* "token order is index order": a request with a later index took its     *)
(* token no earlier.                                                       *)
TokenOrderIsIndexOrder ==
    Mode = "closed" =>
        \A i, j \in DOMAIN slots : i < j => slots[i].due <= slots[j].due

(* What the artifact says of the requests is true, in both modes. *)
RecordsAreTrue ==
    /\ TypeOK
    /\ RecordsTellWhatWasSent
    /\ TokenOrderIsIndexOrder

(* The run ends, even if no request is ever answered, and no thread is     *)
(* left behind: a worker exits, or is stuck in a request.                  *)
RunEnds ==
    <>[](main = "over" /\ \A w \in Workers : wpc[w] \in {"exited", "in flight"})

-----------------------------------------------------------------------------
(* A claim of a docstring that the code does not keep.                     *)

(* "`completed_at` is None unless the request finished before the          *)
(* deadline".                                                              *)
CompletedBeforeTheDeadline ==
    closed => \A i \in DOMAIN records :
                 records[i] = "completed" => slots[i].completed < Deadline
=============================================================================
