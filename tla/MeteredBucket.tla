---------------------------- MODULE MeteredBucket ----------------------------
(***************************************************************************)
(* EagerBucket watched over a stretch of time that starts at any moment:   *)
(* how much it hands out is compared with what that time was worth.        *)
(***************************************************************************)
EXTENDS EagerBucket

CONSTANT MaxMeter   \* bound: the meter stops at this many grains

VARIABLES
    granted,  \* grains handed out since the stretch began
    earned,   \* grains the rates in force were worth since then
    slivers   \* grains rounded off since then

meter == <<granted, earned, slivers>>
meteredVars == <<eagerVars, meter>>

MeteredInit ==
    /\ EagerInit
    /\ granted = 0
    /\ earned = 0
    /\ slivers = 0

StartMeter ==
    /\ granted' = 0
    /\ earned' = 0
    /\ slivers' = 0
    /\ UNCHANGED eagerVars

MeterEarn ==
    /\ earned < MaxMeter
    /\ Earn
    /\ earned' = earned + rate
    /\ UNCHANGED <<granted, slivers>>

MeterTake(n) ==
    /\ granted < MaxMeter
    /\ Take(n)
    /\ granted' = granted + n
    /\ UNCHANGED <<earned, slivers>>

MeterTakeSliver(n) ==
    /\ granted < MaxMeter
    /\ TakeSliver(n)
    /\ granted' = granted + n
    /\ slivers' = slivers + (n - level)
    /\ UNCHANGED earned

MeterRate(r) == ChangeRate(r) /\ UNCHANGED meter

MeteredNext ==
    \/ StartMeter
    \/ MeterEarn
    \/ \E n \in Requests : MeterTake(n) \/ MeterTakeSliver(n)
    \/ \E r \in Rates : MeterRate(r)

MeteredSpec == MeteredInit /\ [][MeteredNext]_meteredVars

-----------------------------------------------------------------------------
(* Every variable holds a value of its type. *)
MeteredTypeOK ==
    /\ EagerTypeOK
    /\ granted \in Nat
    /\ earned \in Nat
    /\ slivers \in Nat

(* The rate limit: in any stretch of time no more is handed out than the   *)
(* bucket can hold plus what that time was worth at the rates in force,    *)
(* but for the slivers rounded off.                                        *)
NeverOverIssued == granted <= Capacity + earned + slivers
=============================================================================
