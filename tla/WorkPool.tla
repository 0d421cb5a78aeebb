------------------------------ MODULE WorkPool ------------------------------
(***************************************************************************)
(* What Parallel::Map and Parallel::Reduce promise to the code that calls  *)
(* them: every work is handed to func exactly once, the works overlap in   *)
(* time in any way, and the call returns only when every result is part,   *)
(* exactly once, of the value it returns.                                  *)
(***************************************************************************)
EXTENDS Naturals

CONSTANT Works          \* the indices of the vector of works

VARIABLES
  started,              \* works func has been entered for
  finished,             \* works func has returned for
  returned,             \* the call to Map or Reduce has returned
  value                 \* how often each result is part of the returned value

poolVars == <<started, finished, returned, value>>

Init ==
  /\ started = {}
  /\ finished = {}
  /\ returned = FALSE
  /\ value = [w \in Works |-> 0]

Start(w) ==
  /\ w \notin started
  /\ started' = started \cup {w}
  /\ UNCHANGED <<finished, returned, value>>

Finish(w) ==
  /\ w \in started \ finished
  /\ finished' = finished \cup {w}
  /\ UNCHANGED <<started, returned, value>>

Return ==
  /\ ~returned
  /\ finished = Works
  /\ returned' = TRUE
  /\ value' = [w \in Works |-> 1]
  /\ UNCHANGED <<started, finished>>

Next ==
  \/ \E w \in Works : Start(w) \/ Finish(w)
  \/ Return

SafeSpec == Init /\ [][Next]_poolVars

Spec == SafeSpec /\ WF_poolVars(Next)
=============================================================================
