----------------------------- MODULE EagerBucket -----------------------------
(***************************************************************************)
(* What testinghq/core/ratelimit.py promises, without threads, locks,      *)
(* sleeps or a lazy refill: a level that every tick of the clock raises by *)
(* the rate, up to the capacity, and that a grant lowers.                  *)
(***************************************************************************)
EXTENDS Integers

CONSTANTS
    Token,           \* grains in a token
    Capacity,        \* capacity, in grains
    Rates,           \* the possible rates, in grains per tick
    MinWaitInverse   \* ticks per _MIN_WAIT, inverted

ASSUME EagerAssumption ==
    /\ Token \in Nat \ {0}
    /\ Capacity \in Nat \ {0}
    /\ Rates \subseteq Nat \ {0}
    /\ MinWaitInverse \in Nat \ {0}

VARIABLES
    rate,
    level    \* the grains on hand

eagerVars == <<rate, level>>

EagerInit == rate \in Rates /\ level = Capacity

Requests == {n \in 1..Capacity : n % Token = 0}

(* Mutant: an idle bucket fills without limit. *)
EarnWithoutCap == level' = level + rate /\ UNCHANGED rate

Earn ==
    /\ level' = IF level + rate < Capacity THEN level + rate ELSE Capacity
    /\ UNCHANGED rate

(* Mutant: a grant that forgets to take the tokens. *)
TakeNothing(n) == level >= n /\ UNCHANGED eagerVars

Take(n) ==
    /\ level >= n
    /\ level' = level - n
    /\ UNCHANGED rate

(* Short of a sliver, a grant empties the bucket. *)
TakeSliver(n) ==
    /\ level < n
    /\ (n - level) * MinWaitInverse <= rate
    /\ level' = 0
    /\ UNCHANGED rate

ChangeRate(r) ==
    /\ rate' = r
    /\ UNCHANGED level

EagerNext ==
    \/ Earn
    \/ \E n \in Requests : Take(n) \/ TakeSliver(n)
    \/ \E r \in Rates : ChangeRate(r)

EagerSpec == EagerInit /\ [][EagerNext]_eagerVars

EagerTypeOK ==
    /\ rate \in Rates
    /\ level \in 0..Capacity
=============================================================================
