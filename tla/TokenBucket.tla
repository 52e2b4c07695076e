----------------------------- MODULE TokenBucket -----------------------------
(***************************************************************************)
(* The rate limiter that paces every send: testinghq/core/ratelimit.py.    *)
(*                                                                         *)
(* Threads call acquire, try_acquire, wait_time and set_rate at will.      *)
(* What each does under the lock is one step; acquire releases the lock    *)
(* while it sleeps, so anything can happen between two of its passes, and  *)
(* a sleep may last longer than it was asked to.                           *)
(*                                                                         *)
(* Credit is counted in grains, Token of them to a token, and a rate is a  *)
(* number of grains per tick of the clock.  _MIN_WAIT is one tick divided  *)
(* by MinWaitInverse.  Instead of the clock and _last_refill the state     *)
(* keeps their difference, the only way the code uses them; it stops       *)
(* growing once it is worth a full bucket, as the refill does.             *)
(***************************************************************************)
EXTENDS Integers

CONSTANTS
    Threads,
    Token,           \* grains in a token
    Capacity,        \* capacity, in grains
    Rates,           \* the rates set_rate may be given
    MinWaitInverse,
    MaxCalls         \* bound: calls of acquire and try_acquire per thread

ASSUME BucketAssumption ==
    /\ Token \in Nat \ {0}
    /\ Capacity \in Nat \ {0}
    /\ Rates \subseteq Nat \ {0}
    /\ MinWaitInverse \in Nat \ {0}
    /\ MaxCalls \in Nat

VARIABLES
    rate,    \* _rate
    tokens,  \* _tokens, in grains
    since,   \* clock() - _last_refill
    pc,      \* each thread: "idle", "acquire" at the top of the loop, "sleep"
    want,    \* the grains the thread's acquire asked for, 0 outside acquire
    left,    \* what is left of its sleep
    calls    \* calls each thread has made

bucketVars == <<rate, tokens, since>>
threadVars == <<pc, want, left, calls>>
vars == <<bucketVars, threadVars>>

Init ==
    /\ rate \in Rates
    /\ tokens = Capacity
    /\ since = 0
    /\ pc = [t \in Threads |-> "idle"]
    /\ want = [t \in Threads |-> 0]
    /\ left = [t \in Threads |-> 0]
    /\ calls = [t \in Threads |-> 0]

-----------------------------------------------------------------------------
(* What the time since the last refill is worth. *)
Owed == since * rate

(* _refill: the count after it. *)
Refilled == IF tokens + Owed < Capacity THEN tokens + Owed ELSE Capacity

(* The sleep that earns the deficit, rounded up to the next tick. *)
WaitFor(deficit) == (deficit + rate - 1) \div rate

(* remaining <= _MIN_WAIT *)
IsSliver(deficit) == deficit * MinWaitInverse <= rate

(* What can be asked for.  acquire refuses more than the capacity, and the *)
(* refusal changes nothing.                                                *)
Requests == {n \in 1..Capacity : n % Token = 0}

(* The clock advances, whatever the threads do. *)
Tick ==
    /\ since' = IF Owed < Capacity THEN since + 1 ELSE since
    /\ left' = [t \in Threads |-> IF left[t] > 0 THEN left[t] - 1 ELSE 0]
    /\ UNCHANGED <<rate, tokens, pc, want, calls>>

CallAcquire(t) ==
    /\ pc[t] = "idle"
    /\ calls[t] < MaxCalls
    /\ \E n \in Requests : want' = [want EXCEPT ![t] = n]
    /\ pc' = [pc EXCEPT ![t] = "acquire"]
    /\ calls' = [calls EXCEPT ![t] = @ + 1]
    /\ UNCHANGED <<bucketVars, left>>

Return(t) ==
    /\ pc' = [pc EXCEPT ![t] = "idle"]
    /\ want' = [want EXCEPT ![t] = 0]

(* A pass of acquire that finds the tokens. *)
Grant(t) ==
    /\ pc[t] = "acquire"
    /\ Refilled >= want[t]
    /\ tokens' = Refilled - want[t]
    /\ since' = 0
    /\ Return(t)
    /\ UNCHANGED <<rate, left, calls>>

(* A pass that is short of a sliver: it is handed over. *)
GrantSliver(t) ==
    /\ pc[t] = "acquire"
    /\ Refilled < want[t]
    /\ IsSliver(want[t] - Refilled)
    /\ tokens' = 0
    /\ since' = 0
    /\ Return(t)
    /\ UNCHANGED <<rate, left, calls>>

(* A pass that has to wait: it sleeps for the whole deficit, the lock      *)
(* released.                                                               *)
Sleep(t) ==
    /\ pc[t] = "acquire"
    /\ Refilled < want[t]
    /\ ~IsSliver(want[t] - Refilled)
    /\ tokens' = Refilled
    /\ since' = 0
    /\ left' = [left EXCEPT ![t] = WaitFor(want[t] - Refilled)]
    /\ pc' = [pc EXCEPT ![t] = "sleep"]
    /\ UNCHANGED <<rate, want, calls>>

(* The sleep is over: look again. *)
Wake(t) ==
    /\ pc[t] = "sleep"
    /\ left[t] = 0
    /\ pc' = [pc EXCEPT ![t] = "acquire"]
    /\ UNCHANGED <<bucketVars, want, left, calls>>

(* Whatever a thread inside acquire does next. *)
Pass(t) == Grant(t) \/ GrantSliver(t) \/ Sleep(t) \/ Wake(t)

(* try_acquire(n) takes n grains or leaves the count alone. *)
TryAcquire(t, n) ==
    /\ pc[t] = "idle"
    /\ calls[t] < MaxCalls
    /\ calls' = [calls EXCEPT ![t] = @ + 1]
    /\ tokens' = IF Refilled >= n THEN Refilled - n ELSE Refilled
    /\ since' = 0
    /\ UNCHANGED <<rate, pc, want, left>>

(* Mutant: wait_time moves the refill time on and drops the refill. *)
WaitTimeForfeits ==
    /\ since' = 0
    /\ UNCHANGED <<rate, tokens, threadVars>>

(* wait_time consumes nothing, but it refills. *)
WaitTime ==
    /\ tokens' = Refilled
    /\ since' = 0
    /\ UNCHANGED <<rate, threadVars>>

(* Mutant: the time since the last refill is paid at the new rate. *)
SetRateWithoutRefill(r) ==
    /\ rate' = r
    /\ UNCHANGED <<tokens, since, threadVars>>

SetRate(r) ==
    /\ tokens' = Refilled
    /\ since' = 0
    /\ rate' = r
    /\ UNCHANGED threadVars

Next ==
    \/ Tick
    \/ \E t \in Threads : CallAcquire(t) \/ Pass(t)
    \/ \E t \in Threads, n \in Requests : TryAcquire(t, n)
    \/ WaitTime
    \/ \E r \in Rates : SetRate(r)

Spec == Init /\ [][Next]_vars

(* A thread in acquire runs on when it can, and time goes on. *)
FairSpec ==
    /\ Spec
    /\ WF_vars(Tick)
    /\ \A t \in Threads : WF_vars(Pass(t))

-----------------------------------------------------------------------------
(* Every variable holds a value of its type. *)
TypeOK ==
    /\ rate \in Rates
    /\ tokens \in 0..Capacity
    /\ since \in Nat
    /\ pc \in [Threads -> {"idle", "acquire", "sleep"}]
    /\ want \in [Threads -> Nat]
    /\ left \in [Threads -> Nat]
    /\ calls \in [Threads -> Nat]

(* The lazy bucket is the eager one: what a refill would leave in it is    *)
(* the eager bucket's level, and every step of a thread is one of its      *)
(* steps or none.  In particular set_rate "never mints or forfeits         *)
(* credit", and no two threads are handed the same token.                  *)
Eager == INSTANCE EagerBucket WITH level <- Refilled

ImplementsEager == Eager!EagerSpec

(* A thread waiting in acquire is served, however often others take what   *)
(* it was waiting for, once they stop calling.                             *)
AcquireReturns == \A t \in Threads : pc[t] # "idle" ~> pc[t] = "idle"
=============================================================================
