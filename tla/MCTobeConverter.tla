-------------------------- MODULE MCTobeConverter --------------------------
(***************************************************************************)
(* The instances of TobeConverter that TLC checks: two regions of one      *)
(* dimension and one of another.  The chunk c2 of the first region holds   *)
(* an actor that stands in c3 of the second, next to one that c3 holds     *)
(* itself; c4 is absent.                                                   *)
(***************************************************************************)
EXTENDS TobeConverter

CONSTANTS c1, c2, c3, c4, c5, r1, r2, r3, a1, a2, a3

MCDims == {1, 2}
MCRegions == {r1, r2, r3}
MCDimOf == [r \in MCRegions |-> IF r = r3 THEN 2 ELSE 1]
MCChunksOf == [r \in MCRegions |->
                 CASE r = r1 -> <<c1, c2>> [] r = r2 -> <<c3, c4>> [] r = r3 -> <<c5>>]
MCAbsent == {c4}
MCActors == {a1, a2, a3}
MCHeldBy == [a \in MCActors |-> CASE a = a1 -> c2 [] a = a2 -> c3 [] a = a3 -> c5]
MCStandsIn == [a \in MCActors |-> CASE a = a1 -> c3 [] a = a2 -> c3 [] a = a3 -> c5]
=============================================================================
