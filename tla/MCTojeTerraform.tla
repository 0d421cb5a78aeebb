-------------------------- MODULE MCTojeTerraform --------------------------
(***************************************************************************)
(* The instances of TojeTerraform that TLC checks: a dimension with three  *)
(* regions in a box of four positions, and one with a single region.       *)
(***************************************************************************)
EXTENDS TojeTerraform

MCChunksIn ==
  [d \in Dims |->
     IF d = 0 THEN [r \in {<<0, 0>>, <<1, 0>>, <<1, 1>>} |->
                      IF r = <<1, 0>> THEN 2 ELSE 1]
     ELSE [r \in {<<-1, 0>>} |-> 2]]
=============================================================================
