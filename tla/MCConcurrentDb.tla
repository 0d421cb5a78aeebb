--------------------------- MODULE MCConcurrentDb ---------------------------
(***************************************************************************)
(* The instance of ConcurrentDb that TLC checks.  Three keys of one        *)
(* prefix fill a table and a half and pass the cap of two on the count of  *)
(* a prefix; a key of a second prefix is built at the same time.           *)
(***************************************************************************)
EXTENDS ConcurrentDb

MCKeys == {<<0, 0>>, <<0, 1>>, <<0, 2>>, <<1, 0>>}
=============================================================================
