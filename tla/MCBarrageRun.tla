---------------------------- MODULE MCBarrageRun ----------------------------
(* Two workers; three arrivals, two of them due at once, or two stages of   *)
(* which the second is slower.                                              *)
EXTENDS BarrageRun

CONSTANTS w1, w2

MCWorkers == {w1, w2}

MCOffsets == <<0, 0, 1>>

MCStages == <<[end |-> 2, rate |-> 3], [end |-> 3, rate |-> 2]>>

MCOneStage == <<[end |-> 2, rate |-> 2]>>
=============================================================================
