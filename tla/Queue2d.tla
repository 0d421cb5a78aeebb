------------------------------ MODULE Queue2d ------------------------------
(***************************************************************************)
(* src/src/_queue2d.hpp: the queue of grid positions that the terraform    *)
(* passes share.  next() hands out a position that is not done and whose   *)
(* whole neighbourhood is unlocked, and locks that neighbourhood until the *)
(* caller unlocks it.  The class has no mutex: both callers hold one of    *)
(* their own around every method, so a method is one step and the queue is *)
(* a value, with one operator per method.  A position is <<x, z>>.  The    *)
(* setters setDone and setWeight are only called while the queue is made   *)
(* (TojeTerraform, QueueOf).                                               *)
(***************************************************************************)
EXTENDS Integers, FiniteSets

Absolute(n) == IF n < 0 THEN -n ELSE n

Grid(origin, width, height) ==
  (origin[1] .. origin[1] + width - 1) \X (origin[2] .. origin[2] + height - 1)

\* The queue as constructed: nothing done, nothing locked, no weight.
NewQueue(cells, lockRadius) ==
  [cells |-> cells,
   lockRadius |-> lockRadius,
   done |-> {},
   lock |-> {},
   weight |-> [c \in cells |-> 0]]

\* The square of side 2 * lockRadius + 1 around a position, cut to the grid.
Around(q, c) ==
  {p \in q.cells : /\ Absolute(p[1] - c[1]) <= q.lockRadius
                   /\ Absolute(p[2] - c[2]) <= q.lockRadius}

\* Mutant: only the position itself has to be unlocked.
AvailableAtCentre(q) == {c \in q.cells \ q.done : c \notin q.lock}

\* The positions next() may choose from.
Available(q) == {c \in q.cells \ q.done : Around(q, c) \cap q.lock = {}}

\* The weight next() maximises: the sum over the positions around c that are
\* not done yet (each p counted weight[p] times).
WeightAround(q, c) ==
  Cardinality(UNION {{p} \X (1 .. q.weight[p]) : p \in Around(q, c) \ q.done})

\* next() scans the rows of x inside z and replaces its choice only by a
\* strictly heavier one: the set of the position it returns, empty for nullopt.
ScannedBefore(c, d) == c[2] < d[2] \/ (c[2] = d[2] /\ c[1] < d[1])

NextPosition(q) ==
  LET weighed == {<<c, WeightAround(q, c)>> : c \in Available(q)}
      heaviest == {e[1] : e \in {f \in weighed : \A g \in weighed : g[2] <= f[2]}}
  IN  {c \in heaviest : \A d \in heaviest \ {c} : ScannedBefore(c, d)}

\* Mutant: the position is not marked done when it is handed out.
TakeNotDone(q, c) == [q EXCEPT !.lock = @ \cup Around(q, c)]

\* Mutant: the locked square is not cut to the grid.
TakeUncut(q, c) ==
  [q EXCEPT !.done = @ \cup {c},
            !.lock = @ \cup (c[1] - q.lockRadius .. c[1] + q.lockRadius)
                              \X (c[2] - q.lockRadius .. c[2] + q.lockRadius)]

\* What next() does to the queue for the position it returns.
Take(q, c) ==
  [q EXCEPT !.done = @ \cup {c}, !.lock = @ \cup Around(q, c)]

\* Mutant: only the position itself is unlocked.
UnlockCentre(q, p) == [q EXCEPT !.lock = @ \ {p}]

UnlockAround(q, p) == [q EXCEPT !.lock = @ \ Around(q, p)]

Unlock(q, positions) == [q EXCEPT !.lock = @ \ positions]
=============================================================================
