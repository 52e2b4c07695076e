-------------------------- MODULE TokenBucketProofs --------------------------
(* The lazily refilled bucket of core/ratelimit.py, shared by any number of *)
(* threads, implements the eager one.                                       *)
EXTENDS TokenBucket, TLAPS

(* A refill never leaves more than the capacity, nor less than nothing. *)
LEMMA RefilledType == TypeOK => Refilled \in 0..Capacity /\ Owed \in Nat
<1>. SUFFICES ASSUME TypeOK PROVE Refilled \in 0..Capacity /\ Owed \in Nat
  OBVIOUS
<1>1. rate \in Nat /\ since \in Nat
  BY BucketAssumption DEF TypeOK
<1>2. Owed \in Nat
  BY <1>1 DEF Owed
<1>. QED
  BY <1>2, BucketAssumption DEF Refilled, TypeOK

(* Types hold at first. *)
LEMMA InitType == Init => TypeOK
BY BucketAssumption DEF Init, TypeOK

(* The sleep for a deficit is a number of ticks. *)
LEMMA WaitForType ==
    ASSUME TypeOK, NEW d \in Nat
    PROVE  WaitFor(d) \in Nat
<1>1. rate \in Nat \ {0}
  BY BucketAssumption DEF TypeOK
<1>2. d + rate - 1 \in Nat
  BY <1>1
<1>. QED
  BY <1>1, <1>2 DEF WaitFor

(* Every step keeps them. *)
LEMMA NextType == TypeOK /\ [Next]_vars => TypeOK'
<1>. SUFFICES ASSUME TypeOK, [Next]_vars PROVE TypeOK'
  OBVIOUS
<1>0. Refilled \in 0..Capacity /\ Capacity \in Nat
  BY RefilledType, BucketAssumption
<1>. USE DEF TypeOK
<1>1. CASE Tick
  BY <1>1 DEF Tick
<1>2. ASSUME NEW t \in Threads, CallAcquire(t) PROVE TypeOK'
  BY <1>2 DEF CallAcquire, bucketVars, Requests
<1>3. ASSUME NEW t \in Threads, Grant(t) PROVE TypeOK'
  BY <1>0, <1>3 DEF Grant, Return
<1>4. ASSUME NEW t \in Threads, GrantSliver(t) PROVE TypeOK'
  BY <1>0, <1>4 DEF GrantSliver, Return
<1>5. ASSUME NEW t \in Threads, Sleep(t) PROVE TypeOK'
  <2>1. want[t] - Refilled \in Nat
    BY <1>0, <1>5 DEF Sleep
  <2>2. WaitFor(want[t] - Refilled) \in Nat
    BY <2>1, WaitForType
  <2>. QED
    BY <1>0, <1>5, <2>2 DEF Sleep
<1>6. ASSUME NEW t \in Threads, Wake(t) PROVE TypeOK'
  BY <1>6 DEF Wake, bucketVars
<1>7. ASSUME NEW t \in Threads, NEW n \in Requests, TryAcquire(t, n) PROVE TypeOK'
  BY <1>0, <1>7 DEF TryAcquire, Requests
<1>8. CASE WaitTime
  BY <1>0, <1>8 DEF WaitTime, threadVars
<1>9. ASSUME NEW r \in Rates, SetRate(r) PROVE TypeOK'
  BY <1>0, <1>9 DEF SetRate, threadVars
<1>10. CASE UNCHANGED vars
  BY <1>10 DEF vars, bucketVars, threadVars
<1>. HIDE DEF TypeOK
<1>. QED
  BY <1>1, <1>2, <1>3, <1>4, <1>5, <1>6, <1>7, <1>8, <1>9, <1>10 DEF Next, Pass

(* Type correctness: among others, the count stays between 0 and the       *)
(* capacity whatever the threads do.                                       *)
THEOREM TypeCorrect == Spec => []TypeOK
BY InitType, NextType, PTL DEF Spec

-----------------------------------------------------------------------------
(* No time earns nothing. *)
LEMMA ZeroTimes == \A r \in Nat : 0 * r = 0
OBVIOUS

(* A refill of nothing changes nothing. *)
LEMMA NothingOwed ==
    \A c \in Nat : \A k \in 0..c : (IF k + 0 < c THEN k + 0 ELSE c) = k
OBVIOUS

(* A refill right after a refill adds nothing. *)
LEMMA JustRefilled == TypeOK' /\ since' = 0 => Refilled' = tokens'
<1>. SUFFICES ASSUME TypeOK', since' = 0 PROVE Refilled' = tokens'
  OBVIOUS
<1>1. rate' \in Nat /\ tokens' \in 0..Capacity /\ Capacity \in Nat
  BY BucketAssumption DEF TypeOK
<1>2. Owed' = 0
  BY <1>1, ZeroTimes DEF Owed
<1>3. Refilled' = IF tokens' + 0 < Capacity THEN tokens' + 0 ELSE Capacity
  BY <1>2 DEF Refilled
<1>. QED
  BY <1>1, <1>3, NothingOwed

(* A tick earns the rate, up to the capacity. *)
LEMMA TickEarns ==
    ASSUME TypeOK, Tick
    PROVE  /\ Refilled' = IF Refilled + rate < Capacity THEN Refilled + rate
                          ELSE Capacity
           /\ rate' = rate
<1>1. /\ rate \in Nat \ {0}
      /\ since \in Nat
      /\ tokens \in 0..Capacity
      /\ Capacity \in Nat
  BY BucketAssumption DEF TypeOK
<1>2. Owed \in Nat
  BY <1>1 DEF Owed
<1>3. tokens' = tokens /\ rate' = rate
  BY DEF Tick
<1>4. CASE Owed < Capacity
  <2>1. since' = since + 1
    BY <1>4 DEF Tick
  <2>2. (since + 1) * rate = since * rate + rate
    BY <1>1
  <2>3. Owed' = Owed + rate
    BY <1>3, <2>1, <2>2 DEF Owed
  <2>. QED
    BY <1>1, <1>2, <1>3, <2>3 DEF Refilled
<1>5. CASE ~(Owed < Capacity)
  <2>1. Owed' = Owed
    BY <1>3, <1>5 DEF Tick, Owed
  <2>. QED
    BY <1>1, <1>2, <1>3, <1>5, <2>1 DEF Refilled
<1>. QED
  BY <1>4, <1>5

(* What a waiting thread asked for is a possible request. *)
Asked == \A t \in Threads : pc[t] # "idle" => want[t] \in Requests

(* Every step keeps the requests possible ones. *)
LEMMA AskedInductive == TypeOK /\ Asked /\ [Next]_vars => Asked'
<1>. SUFFICES ASSUME TypeOK, Asked, [Next]_vars PROVE Asked'
  OBVIOUS
<1>. USE DEF TypeOK, Asked
<1>1. CASE Tick
  BY <1>1 DEF Tick
<1>2. ASSUME NEW t \in Threads, CallAcquire(t) PROVE Asked'
  BY <1>2 DEF CallAcquire
<1>3. ASSUME NEW t \in Threads, Grant(t) \/ GrantSliver(t) PROVE Asked'
  BY <1>3 DEF Grant, GrantSliver, Return
<1>4. ASSUME NEW t \in Threads, Sleep(t) \/ Wake(t) PROVE Asked'
  BY <1>4 DEF Sleep, Wake
<1>5. ASSUME NEW t \in Threads, NEW n \in Requests, TryAcquire(t, n) PROVE Asked'
  BY <1>5 DEF TryAcquire
<1>6. CASE WaitTime
  BY <1>6 DEF WaitTime, threadVars
<1>7. ASSUME NEW r \in Rates, SetRate(r) PROVE Asked'
  BY <1>7 DEF SetRate, threadVars
<1>8. CASE UNCHANGED vars
  BY <1>8 DEF vars, threadVars
<1>. HIDE DEF TypeOK, Asked
<1>. QED
  BY <1>1, <1>2, <1>3, <1>4, <1>5, <1>6, <1>7, <1>8 DEF Next, Pass

(* The lazy bucket starts as the eager one does. *)
LEMMA InitMaps == Init => Eager!EagerInit
<1>. SUFFICES ASSUME Init PROVE Eager!EagerInit
  OBVIOUS
<1>1. rate \in Nat /\ Capacity \in Nat
  BY BucketAssumption DEF Init
<1>2. Owed = 0
  BY <1>1, ZeroTimes DEF Init, Owed
<1>. QED
  BY <1>1, <1>2 DEF Init, Refilled, Eager!EagerInit

(* Every step of a thread is a step of the eager bucket, or none. *)
LEMMA StepMaps ==
    TypeOK /\ Asked /\ [Next]_vars => [Eager!EagerNext]_(Eager!eagerVars)
<1>. SUFFICES ASSUME TypeOK, Asked, [Next]_vars
              PROVE  [Eager!EagerNext]_(Eager!eagerVars)
  OBVIOUS
<1>. DEFINE Mapped == Eager!EagerNext \/ UNCHANGED Eager!eagerVars
<1>0. TypeOK'
  BY NextType
<1>a. since' = 0 => Refilled' = tokens'
  BY <1>0, JustRefilled
<1>b. Refilled \in Int
  BY RefilledType
<1>1. CASE Tick
  BY <1>1, TickEarns DEF Eager!Earn, Eager!EagerNext
<1>2. ASSUME NEW t \in Threads, Grant(t) PROVE Mapped
  <2>1. want[t] \in Eager!Requests
    BY <1>2 DEF Grant, Asked, Requests, Eager!Requests
  <2>2. Eager!Take(want[t])
    BY <1>2, <1>a DEF Grant, Eager!Take
  <2>. QED
    BY <2>1, <2>2 DEF Eager!EagerNext
<1>3. ASSUME NEW t \in Threads, GrantSliver(t) PROVE Mapped
  <2>1. want[t] \in Eager!Requests
    BY <1>3 DEF GrantSliver, Asked, Requests, Eager!Requests
  <2>2. Eager!TakeSliver(want[t])
    BY <1>3, <1>a DEF GrantSliver, IsSliver, Eager!TakeSliver
  <2>. QED
    BY <2>1, <2>2 DEF Eager!EagerNext
<1>4. ASSUME NEW t \in Threads, Sleep(t) PROVE Mapped
  BY <1>4, <1>a DEF Sleep, Eager!eagerVars
<1>5. ASSUME NEW t \in Threads, CallAcquire(t) \/ Wake(t) PROVE Mapped
  BY <1>5 DEF CallAcquire, Wake, bucketVars, Refilled, Owed, Eager!eagerVars
<1>6. ASSUME NEW t \in Threads, NEW n \in Requests, TryAcquire(t, n) PROVE Mapped
  <2>1. n \in Eager!Requests
    BY DEF Requests, Eager!Requests
  <2>2. CASE Refilled >= n
    BY <1>6, <1>a, <2>1, <2>2 DEF TryAcquire, Eager!Take, Eager!EagerNext
  <2>3. CASE ~(Refilled >= n)
    BY <1>6, <1>a, <2>3 DEF TryAcquire, Eager!eagerVars
  <2>. QED
    BY <2>2, <2>3
<1>7. CASE WaitTime
  BY <1>7, <1>a DEF WaitTime, Eager!eagerVars
<1>8. ASSUME NEW r \in Rates, SetRate(r) PROVE Mapped
  BY <1>8, <1>a DEF SetRate, Eager!ChangeRate, Eager!EagerNext
<1>9. CASE UNCHANGED vars
  BY <1>9 DEF vars, bucketVars, Refilled, Owed, Eager!eagerVars
<1>. QED
  BY <1>1, <1>2, <1>3, <1>4, <1>5, <1>6, <1>7, <1>8, <1>9 DEF Next, Pass

(* The bucket shared by any number of threads is the eager bucket: no      *)
(* token is handed out twice, no credit is minted or forfeited by a change *)
(* of rate, by a query or by a thread that gives up its turn to sleep.     *)
THEOREM Refinement == Spec => ImplementsEager
<1>1. Init => TypeOK /\ Asked
  BY InitType DEF Init, Asked
<1>2. TypeOK /\ Asked /\ [Next]_vars => (TypeOK /\ Asked)'
  BY NextType, AskedInductive
<1>. QED
  BY <1>1, <1>2, InitMaps, StepMaps, PTL
     DEF Spec, ImplementsEager, Eager!EagerSpec
=============================================================================
