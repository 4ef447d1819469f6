------------------------- MODULE MCVolumeAggregates -------------------------
(* Small instances of VolumeAggregates for TLC. *)
EXTENDS VolumeAggregates, TLC

BothSizes == <<"hour", "day">>
HourOnly  == <<"hour">>

\* An hour of two ticks, a day of two hours; the windows are no multiples of them.
Lengths == [size \in {"hour", "day"} |-> IF size = "hour" THEN 2 ELSE 4]
Windows == [size \in {"hour", "day"} |-> IF size = "hour" THEN 1 ELSE 3]

\* Refreshers are interchangeable.
RefreshSymmetry == Permutations(Refreshers)
=============================================================================
