----------------------- MODULE TojeTerraform_proofs -----------------------
(***************************************************************************)
(* Proofs about TojeTerraform for every set of workers and every set of    *)
(* regions in every number of dimensions.  The inductive invariant IInv    *)
(* has one part per idea:                                                  *)
(*   TypeInv      the types;                                               *)
(*   PlaceInv     what a worker holds is a region and was handed out;      *)
(*   LockInv      holders hold different regions, which are the locks;     *)
(*   FileInv      no region is written before it is handed out, nor while  *)
(*                it is still read;                                        *)
(*   WorkInv      what was handed out is written or in somebody's hands;   *)
(*   StayInv      regions are left over only while a worker is left;       *)
(*   TurnInv      a region is the last one of one worker only;             *)
(*   ResultInv    a result means that everybody has left.                  *)
(***************************************************************************)
EXTENDS TojeTerraform, FiniteSetTheorems, WellFoundedInduction, TLAPS

Labels == {"loop", "next", "open", "chunks", "write", "unlock", "left"}

\* The grid of a dimension.
Cells(d) == Box(RegionsOf(d))

QueueType(d) ==
  [cells : {Cells(d)}, lockRadius : {0}, done : SUBSET Cells(d),
   lock : SUBSET Cells(d),
   weight : {[c \in Cells(d) |-> IF c \in RegionsOf(d) THEN ChunksIn[d][c] ELSE 0]}]

TypeInv ==
  /\ pc \in [Workers -> Labels]
  /\ region \in [Workers -> Regions \cup {None}]
  /\ todo \in [Workers -> Nat]
  /\ DOMAIN queues = NonEmpty
  /\ \A d \in NonEmpty : queues[d] \in QueueType(d) /\ Cells(d) \ RegionsOf(d) \subseteq queues[d].done
  /\ out \in [Regions -> {"absent", "partial", "terraformed"}]
  /\ ok \in BOOLEAN
  /\ done \in Nat
  /\ result \in {None, "ok", "error"}

PlaceInv ==
  \A w \in Workers : Holding(w) =>
    region[w] \in Regions /\ Pos(w) \in queues[Dim(w)].done

LockInv == OneWorkerPerRegion

\* Where the input of a region is still needed.
Reading(w) == pc[w] \in {"open", "chunks", "write"}

FileInv ==
  /\ \A r \in Regions : out[r] # "absent" => r[2] \in queues[r[1]].done
  /\ \A w \in Workers : Reading(w) => out[region[w]] = "absent"

WorkInv ==
  ok =>
    /\ \A d \in NonEmpty : \A r \in RegionsOf(d) \cap queues[d].done :
         \/ out[<<d, r>>] = "terraformed"
         \/ \E w \in Workers : Reading(w) /\ region[w] = <<d, r>>
    /\ \A w \in Workers : pc[w] = "write" => todo[w] = 0

StayInv ==
  ok /\ result # "error" /\ (\E d \in NonEmpty : queues[d].done # Cells(d)) =>
    \E w \in Workers : pc[w] # "left"

TurnInv ==
  /\ \A w \in Workers : region[w] # None => Pos(w) \in queues[Dim(w)].done
  /\ \A v, w \in Workers : region[v] = region[w] => v = w \/ region[w] = None
  /\ \A w \in Workers : pc[w] = "chunks" => todo[w] <= ChunksOf(region[w])

ResultInv == result # None => \A w \in Workers : pc[w] = "left"

IInv ==
  /\ TypeInv
  /\ PlaceInv
  /\ LockInv
  /\ FileInv
  /\ WorkInv
  /\ StayInv
  /\ TurnInv
  /\ ResultInv

-----------------------------------------------------------------------------
\* A finite set of integers that is not empty has a least and a greatest one.
\* The induction over finite sets is done by hand: among the finite sets that
\* have no greatest element one would be minimal for inclusion.
LEMMA GreatestExists ==
  ASSUME NEW S, IsFiniteSet(S), S \subseteq Int, S # {}
  PROVE  \E n \in S : \A m \in S : m <= n
<1>. DEFINE Bad == {T \in FiniteSubsetsOf(Int) :
                      T # {} /\ ~ \E n \in T : \A m \in T : m <= n}
<1>. SUFFICES ASSUME Bad # {} PROVE FALSE
  BY DEF FiniteSubsetsOf
<1>1. IsWellFoundedOn(StrictSubsetOrdering(Int), FiniteSubsetsOf(Int))
  BY FS_StrictSubsetOrderingWellFounded
<1>2. PICK T \in Bad : \A U \in Bad : ~ (<<U, T>> \in StrictSubsetOrdering(Int))
  <2>1. Bad \subseteq FiniteSubsetsOf(Int)
    OBVIOUS
  <2>. HIDE DEF Bad
  <2>. QED  BY <1>1, <2>1, WFMin
<1>3. PICK x \in T : TRUE
  OBVIOUS
<1>4. IsFiniteSet(T \ {x}) /\ T \subseteq Int
  BY FS_RemoveElement DEF FiniteSubsetsOf
<1>5. T \ {x} \notin Bad
  BY <1>2, <1>3 DEF StrictSubsetOrdering, FiniteSubsetsOf
<1>6. CASE T \ {x} = {}
  <2>1. \A m \in T : m <= x
    BY <1>3, <1>4, <1>6
  <2>. QED  BY <1>3, <2>1
<1>7. CASE T \ {x} # {}
  <2>1. PICK n \in T \ {x} : \A m \in T \ {x} : m <= n
    BY <1>4, <1>5, <1>7 DEF FiniteSubsetsOf
  <2>2. CASE x <= n
    BY <2>1, <2>2
  <2>3. CASE ~ (x <= n)
    <3>1. \A m \in T : m <= x
      BY <2>1, <2>3, <1>3, <1>4
    <3>. QED  BY <1>3, <3>1
  <2>. QED  BY <2>2, <2>3
<1>. QED  BY <1>6, <1>7

LEMMA LeastExists ==
  ASSUME NEW S, IsFiniteSet(S), S \subseteq Int, S # {}
  PROVE  \E n \in S : \A m \in S : n <= m
<1>. DEFINE Negated == {-m : m \in S}
<1>1. IsFiniteSet(Negated)
  <2>1. [m \in S |-> -m] \in Surjection(S, Negated)
    BY DEF Surjection
  <2>. QED  BY <2>1, FS_Surjection
<1>2. Negated \subseteq Int /\ Negated # {}
  OBVIOUS
<1>3. PICK n \in Negated : \A m \in Negated : m <= n
  <2>. HIDE DEF Negated
  <2>. QED  BY <1>1, <1>2, GreatestExists
<1>4. PICK k \in S : n = -k
  OBVIOUS
<1>5. \A m \in S : k <= m
  <2>. SUFFICES ASSUME NEW m \in S PROVE k <= m
    OBVIOUS
  <2>1. -m <= n
    BY <1>3
  <2>. QED  BY <2>1, <1>4
<1>. QED  BY <1>5

\* Every region lies in the grid of its dimension.
LEMMA RegionInGrid ==
  ASSUME NEW d \in NonEmpty PROVE RegionsOf(d) \subseteq Cells(d)
<1>. DEFINE R == RegionsOf(d)
            xs == {r[1] : r \in R}
            zs == {r[2] : r \in R}
<1>1. R \subseteq Int \X Int /\ IsFiniteSet(R) /\ R # {}
  BY DimsAssumption DEF NonEmpty, RegionsOf
<1>2. xs \subseteq Int /\ xs # {} /\ zs \subseteq Int /\ zs # {}
  BY <1>1
<1>3. IsFiniteSet(xs) /\ IsFiniteSet(zs)
  <2>1. [r \in R |-> r[1]] \in Surjection(R, xs)
    BY DEF Surjection
  <2>2. [r \in R |-> r[2]] \in Surjection(R, zs)
    BY DEF Surjection
  <2>. QED  BY <1>1, <2>1, <2>2, FS_Surjection
<1>4. /\ Least(xs) \in xs /\ \A m \in xs : Least(xs) <= m
      /\ Greatest(xs) \in xs /\ \A m \in xs : m <= Greatest(xs)
      /\ Least(zs) \in zs /\ \A m \in zs : Least(zs) <= m
      /\ Greatest(zs) \in zs /\ \A m \in zs : m <= Greatest(zs)
  <2>. HIDE DEF xs, zs
  <2>. QED  BY <1>2, <1>3, LeastExists, GreatestExists DEF Least, Greatest
<1>5. ASSUME NEW r \in R
      PROVE  r \in (Least(xs) .. Greatest(xs)) \X (Least(zs) .. Greatest(zs))
  <2>1. r[1] \in xs /\ r[2] \in zs /\ r \in Int \X Int
    BY <1>1
  <2>. HIDE DEF xs, zs
  <2>2. r[1] \in Least(xs) .. Greatest(xs) /\ r[2] \in Least(zs) .. Greatest(zs)
    BY <1>2, <1>4, <2>1
  <2>3. r = <<r[1], r[2]>>
    BY <2>1
  <2>. QED  BY <2>2, <2>3
<1>. QED  BY <1>5 DEF Cells, Box

-----------------------------------------------------------------------------
\* With lockRadius 0 the neighbourhood of a cell is the cell.
LEMMA AroundIsCell ==
  ASSUME TypeInv, NEW d \in NonEmpty, NEW c \in Cells(d)
  PROVE  Around(queues[d], c) = {c}
<1>1. queues[d].cells = Cells(d) /\ queues[d].lockRadius = 0
  BY DEF TypeInv, QueueType
<1>2. Cells(d) \subseteq Int \X Int
  <2>. DEFINE xs == {r[1] : r \in RegionsOf(d)}
              zs == {r[2] : r \in RegionsOf(d)}
  <2>1. \A a, b : a .. b \subseteq Int
    OBVIOUS
  <2>. QED  BY <2>1 DEF Cells, Box
<1>3. \A n \in Int : Absolute(n) <= 0 => n = 0
  BY DEF Absolute
<1>4. ASSUME NEW p \in Cells(d), Absolute(p[1] - c[1]) <= 0, Absolute(p[2] - c[2]) <= 0
      PROVE  p = c
  <2>1. p[1] \in Int /\ p[2] \in Int /\ c[1] \in Int /\ c[2] \in Int
    BY <1>2
  <2>2. p[1] = c[1] /\ p[2] = c[2]
    BY <1>3, <1>4, <2>1
  <2>. QED  BY <1>2, <2>2
<1>5. Absolute(c[1] - c[1]) <= 0 /\ Absolute(c[2] - c[2]) <= 0
  BY <1>2 DEF Absolute
<1>. QED  BY <1>1, <1>4, <1>5 DEF Around

\* next() hands out an available position.
LEMMA NextIsAvailable == ASSUME NEW q PROVE NextPosition(q) \subseteq Available(q)
  BY DEF NextPosition

\* A position is available when it is neither done nor locked, and then it is a
\* region.
LEMMA AvailableIsFree ==
  ASSUME TypeInv, NEW d \in NonEmpty
  PROVE  /\ Available(queues[d]) = Cells(d) \ (queues[d].done \cup queues[d].lock)
         /\ Available(queues[d]) \subseteq RegionsOf(d)
<1>1. /\ queues[d].cells = Cells(d)
      /\ Cells(d) \ RegionsOf(d) \subseteq queues[d].done
  BY DEF TypeInv, QueueType
<1>2. \A c \in Cells(d) : Around(queues[d], c) = {c}
  BY AroundIsCell
<1>. QED  BY <1>1, <1>2 DEF Available

\* What taking region r of dimension d does, in the terms of the invariant.
Taken(w, d, r) ==
  /\ r \in RegionsOf(d) \ (queues[d].done \cup queues[d].lock)
  /\ \A e \in NonEmpty :
       /\ queues'[e].done = queues[e].done \cup (IF e = d THEN {r} ELSE {})
       /\ queues'[e].lock = queues[e].lock \cup (IF e = d THEN {r} ELSE {})
  /\ region' = [region EXCEPT ![w] = <<d, r>>]
  /\ pc' = [pc EXCEPT ![w] = "open"]

QueuesInv ==
  /\ DOMAIN queues = NonEmpty
  /\ \A d \in NonEmpty :
       queues[d] \in QueueType(d) /\ Cells(d) \ RegionsOf(d) \subseteq queues[d].done

\* Taking a region marks it done and locks it, and nothing else.
LEMMA TakeEffect ==
  ASSUME TypeInv, NEW w \in Workers, NEW d \in NonEmpty, NEW r \in Available(queues[d]),
         queues' = [queues EXCEPT ![d] = Take(@, r)],
         region' = [region EXCEPT ![w] = <<d, r>>],
         pc' = [pc EXCEPT ![w] = "open"]
  PROVE  Taken(w, d, r) /\ QueuesInv'
<1>1. r \in RegionsOf(d) \ (queues[d].done \cup queues[d].lock) /\ r \in Cells(d)
  BY AvailableIsFree
<1>2. Around(queues[d], r) = {r}
  BY <1>1, AroundIsCell
<1>3. QueuesInv
  BY DEF TypeInv, QueuesInv
<1>4. /\ Take(queues[d], r).done = queues[d].done \cup {r}
      /\ Take(queues[d], r).lock = queues[d].lock \cup {r}
      /\ Take(queues[d], r) \in QueueType(d)
  BY <1>1, <1>2, <1>3 DEF QueuesInv, QueueType, Take
<1>5. queues' = [queues EXCEPT ![d] = Take(queues[d], r)]
  OBVIOUS
<1>6. \A e \in NonEmpty : queues'[e] = IF e = d THEN Take(queues[d], r) ELSE queues[e]
  BY <1>3, <1>5 DEF QueuesInv
<1>7. QueuesInv'
  BY <1>3, <1>4, <1>5, <1>6 DEF QueuesInv
<1>. QED  BY <1>1, <1>4, <1>6, <1>7 DEF Taken

\* NextRegion takes a region of some dimension; or it finds none and leaves.
LEMMA NextRegionEffect ==
  ASSUME TypeInv, NEW w \in Workers, NextRegion(w)
  PROVE  \/ (\E d \in NonEmpty : \E r \in RegionsOf(d) : Taken(w, d, r)) /\ QueuesInv'
         \/ /\ \A d \in NonEmpty : Available(queues[d]) = {}
            /\ pc' = [pc EXCEPT ![w] = "left"]
            /\ UNCHANGED <<queues, region>>
<1>1. CASE \E d \in NonEmpty :
             /\ \E r \in NextPosition(queues[d]) :
                  /\ queues' = [queues EXCEPT ![d] = Take(@, r)]
                  /\ region' = [region EXCEPT ![w] = <<d, r>>]
             /\ Goto(w, "open")
  <2>0. PICK d \in NonEmpty :
          /\ \E r \in NextPosition(queues[d]) :
               /\ queues' = [queues EXCEPT ![d] = Take(@, r)]
               /\ region' = [region EXCEPT ![w] = <<d, r>>]
          /\ Goto(w, "open")
    BY <1>1
  <2>1. PICK r \in NextPosition(queues[d]) :
          /\ queues' = [queues EXCEPT ![d] = Take(@, r)]
          /\ region' = [region EXCEPT ![w] = <<d, r>>]
    BY <2>0
  <2>2. r \in Available(queues[d])
    BY NextIsAvailable
  <2>3. Taken(w, d, r) /\ QueuesInv'
    BY <2>0, <2>1, <2>2, TakeEffect DEF Goto
  <2>. QED  BY <2>3 DEF Taken
<1>2. CASE /\ \A d \in NonEmpty : Available(queues[d]) = {}
           /\ Goto(w, "left")
           /\ UNCHANGED <<queues, region>>
  BY <1>2 DEF Goto
<1>. QED  BY <1>1, <1>2 DEF NextRegion

\* UnlockRegion unlocks the region of the worker, and nothing else.
LEMMA UnlockEffect ==
  ASSUME TypeInv, PlaceInv, NEW w \in Workers, UnlockRegion(w)
  PROVE  /\ Holding(w) /\ Dim(w) \in NonEmpty /\ region[w] = <<Dim(w), Pos(w)>>
         /\ \A e \in NonEmpty :
              /\ queues'[e].done = queues[e].done
              /\ queues'[e].lock = queues[e].lock \ (IF e = Dim(w) THEN {Pos(w)} ELSE {})
         /\ QueuesInv'
         /\ pc' = [pc EXCEPT ![w] = "loop"]
<1>1. Holding(w)
  BY DEF UnlockRegion, Holding
<1>2. region[w] \in Regions
  BY <1>1 DEF PlaceInv
<1>3. Dim(w) \in NonEmpty /\ region[w] = <<Dim(w), Pos(w)>>
  BY <1>2 DEF Regions, NonEmpty, Dim, Pos
<1>. DEFINE d == Dim(w)
            q == Unlock(queues[d], {Pos(w)})
<1>4. QueuesInv
  BY DEF TypeInv, QueuesInv
<1>5. q.done = queues[d].done /\ q.lock = queues[d].lock \ {Pos(w)} /\ q \in QueueType(d)
  BY <1>3, <1>4 DEF QueuesInv, QueueType, Unlock
<1>6. queues' = [queues EXCEPT ![d] = q]
  BY DEF UnlockRegion
<1>7. \A e \in NonEmpty : queues'[e] = IF e = d THEN q ELSE queues[e]
  BY <1>4, <1>6 DEF QueuesInv
<1>8. QueuesInv'
  <2>. HIDE DEF q, d
  <2>. QED  BY <1>3, <1>4, <1>5, <1>6, <1>7 DEF QueuesInv
<1>9. pc' = [pc EXCEPT ![w] = "loop"]
  BY DEF UnlockRegion, Goto
<1>. QED  BY <1>1, <1>3, <1>5, <1>7, <1>8, <1>9

-----------------------------------------------------------------------------
\* The initial states.
LEMMA InitInv == Init => IInv
<1>. SUFFICES ASSUME Init PROVE IInv
  OBVIOUS
<1>1. \A d \in NonEmpty :
        /\ queues[d] \in QueueType(d)
        /\ queues[d].done = Cells(d) \ RegionsOf(d)
        /\ queues[d].lock = {}
  <2>. SUFFICES ASSUME NEW d \in NonEmpty
                PROVE  /\ queues[d] \in QueueType(d)
                       /\ queues[d].done = Cells(d) \ RegionsOf(d)
                       /\ queues[d].lock = {}
    OBVIOUS
  <2>1. queues[d] = QueueOf(d)
    BY DEF Init
  <2>. DEFINE w == [c \in Cells(d) |-> IF c \in RegionsOf(d) THEN ChunksIn[d][c] ELSE 0]
  <2>2. QueueOf(d) = [NewQueue(Cells(d), 0) EXCEPT !.done = Cells(d) \ RegionsOf(d),
                                                  !.weight = w]
    BY Zenon DEF QueueOf, Cells
  <2>. HIDE DEF w
  <2>3. QueueOf(d) = [cells |-> Cells(d), lockRadius |-> 0,
                     done |-> Cells(d) \ RegionsOf(d), lock |-> {}, weight |-> w]
    BY <2>2 DEF NewQueue
  <2>. QED  BY <2>1, <2>3 DEF QueueType, w
<1>2. TypeInv
  BY <1>1 DEF Init, TypeInv, Labels
<1>3. PlaceInv /\ LockInv
  BY <1>1 DEF Init, PlaceInv, LockInv, OneWorkerPerRegion, Holding
<1>4. FileInv /\ WorkInv
  BY <1>1 DEF Init, FileInv, WorkInv, Reading
<1>5. StayInv
  BY WorkersAssumption DEF Init, StayInv
<1>6. TurnInv /\ ResultInv
  BY DEF Init, TurnInv, ResultInv
<1>. QED  BY <1>2, <1>3, <1>4, <1>5, <1>6 DEF IInv

\* The steps that leave the queues and what the workers took last alone.
Inside(w) ==
  \/ TestOk(w)
  \/ OpenRegion(w)
  \/ DoChunk(w)
  \/ ChunkFails(w)
  \/ ChunksEnd(w)
  \/ WriteRegion(w)

LEMMA InsideUnchanged ==
  ASSUME NEW w \in Workers, Inside(w)
  PROVE  UNCHANGED <<queues, region, result>>
  BY DEF Inside, TestOk, OpenRegion, DoChunk, ChunkFails, ChunksEnd, WriteRegion

\* A step keeps the types.
LEMMA NextTypes == ASSUME TypeInv, PlaceInv, [Next]_vars PROVE TypeInv'
<1>. USE DEF TypeInv, Labels, Goto
<1>1. ASSUME NEW w \in Workers, NextRegion(w) PROVE TypeInv'
  <2>1. UNCHANGED <<todo, out, ok, done, result>>
    BY <1>1 DEF NextRegion
  <2>2. ASSUME NEW d \in NonEmpty, NEW r \in RegionsOf(d), Taken(w, d, r), QueuesInv'
        PROVE  TypeInv'
    <3>1. <<d, r>> \in Regions
      BY DEF Regions, NonEmpty
    <3>. QED  BY <2>1, <2>2, <3>1 DEF Taken, QueuesInv
  <2>3. ASSUME pc' = [pc EXCEPT ![w] = "left"], UNCHANGED <<queues, region>>
        PROVE  TypeInv'
    BY <2>1, <2>3
  <2>. QED  BY <1>1, <2>2, <2>3, NextRegionEffect
<1>2. ASSUME NEW w \in Workers, OpenRegion(w) PROVE TypeInv'
  <2>1. region[w] \in Regions
    BY <1>2 DEF OpenRegion, PlaceInv, Holding
  <2>2. ChunksIn[Dim(w)][Pos(w)] \in Nat
    BY <2>1, DimsAssumption DEF Regions, RegionsOf, Dim, Pos
  <2>. QED  BY <1>2, <2>2 DEF OpenRegion
<1>3. ASSUME NEW w \in Workers, DoChunk(w) PROVE TypeInv'
  <2>1. todo' \in [Workers -> Nat] /\ done' \in Nat
    BY <1>3 DEF DoChunk
  <2>2. pc' \in [Workers -> Labels] /\ ok' \in BOOLEAN
    BY <1>3 DEF DoChunk
  <2>. QED  BY <1>3, <2>1, <2>2 DEF DoChunk
<1>4. ASSUME NEW w \in Workers, WriteRegion(w) PROVE TypeInv'
  BY <1>4 DEF WriteRegion
<1>5. ASSUME NEW w \in Workers, UnlockRegion(w) PROVE TypeInv'
  <2>1. QueuesInv' /\ pc' = [pc EXCEPT ![w] = "loop"]
    BY <1>5, UnlockEffect
  <2>. QED  BY <1>5, <2>1 DEF UnlockRegion, QueuesInv
<1>6. ASSUME NEW w \in Workers, TestOk(w) \/ ChunkFails(w) \/ ChunksEnd(w) PROVE TypeInv'
  BY <1>6 DEF TestOk, ChunkFails, ChunksEnd
<1>7. ASSUME CancelFirst PROVE TypeInv'
  BY <1>7 DEF CancelFirst
<1>8. ASSUME Return PROVE TypeInv'
  <2>1. result' \in {None, "ok", "error"}
    BY <1>8 DEF Return
  <2>. QED  BY <1>8, <2>1 DEF Return
<1>9. ASSUME UNCHANGED vars PROVE TypeInv'
  BY <1>9 DEF vars
<1>. QED  BY <1>1, <1>2, <1>3, <1>4, <1>5, <1>6, <1>7, <1>8, <1>9
            DEF Next, Step, Terminated

\* What is held is a region that was handed out.
LEMMA NextPlace == ASSUME TypeInv, PlaceInv, [Next]_vars PROVE PlaceInv'
<1>1. ASSUME NEW w \in Workers, NextRegion(w) PROVE PlaceInv'
  <2>1. ASSUME NEW d \in NonEmpty, NEW r \in RegionsOf(d), Taken(w, d, r)
        PROVE  PlaceInv'
    <3>. SUFFICES ASSUME NEW v \in Workers, Holding(v)'
                  PROVE  (region[v] \in Regions /\ Pos(v) \in queues[Dim(v)].done)'
      BY DEF PlaceInv
    <3>1. CASE v = w
      <4>1. region'[v] = <<d, r>>
        BY <2>1, <3>1 DEF Taken, TypeInv
      <4>2. <<d, r>> \in Regions
        BY DEF Regions, NonEmpty
      <4>. QED  BY <2>1, <4>1, <4>2 DEF Taken, Dim, Pos
    <3>2. CASE v # w
      <4>1. Holding(v) /\ region'[v] = region[v]
        BY <2>1, <3>2 DEF Taken, TypeInv, Holding
      <4>2. region[v] \in Regions /\ Pos(v) \in queues[Dim(v)].done
        BY <4>1 DEF PlaceInv
      <4>3. Dim(v) \in NonEmpty
        BY <4>2 DEF Regions, NonEmpty, Dim
      <4>. QED  BY <2>1, <4>1, <4>2, <4>3 DEF Taken, Dim, Pos
    <3>. QED  BY <3>1, <3>2
  <2>2. ASSUME pc' = [pc EXCEPT ![w] = "left"], UNCHANGED <<queues, region>>
        PROVE  PlaceInv'
    BY <2>2 DEF PlaceInv, Holding, TypeInv, Dim, Pos
  <2>. QED  BY <1>1, <2>1, <2>2, NextRegionEffect
<1>2. ASSUME NEW w \in Workers, UnlockRegion(w) PROVE PlaceInv'
  <2>. SUFFICES ASSUME NEW v \in Workers, Holding(v)'
                PROVE  (region[v] \in Regions /\ Pos(v) \in queues[Dim(v)].done)'
    BY DEF PlaceInv
  <2>1. region' = region /\ Holding(v)
    BY <1>2, UnlockEffect DEF UnlockRegion, Holding, TypeInv
  <2>2. region[v] \in Regions /\ Pos(v) \in queues[Dim(v)].done
    BY <2>1 DEF PlaceInv
  <2>3. Dim(v) \in NonEmpty
    BY <2>2 DEF Regions, NonEmpty, Dim
  <2>. QED  BY <1>2, <2>1, <2>2, <2>3, UnlockEffect DEF Dim, Pos
<1>3. ASSUME NEW w \in Workers, Inside(w) PROVE PlaceInv'
  <2>1. UNCHANGED <<queues, region>>
    BY <1>3, InsideUnchanged
  <2>2. \A v \in Workers : Holding(v)' => Holding(v)
    BY <1>3 DEF Inside, TestOk, OpenRegion, DoChunk, ChunkFails, ChunksEnd,
                WriteRegion, Goto, Holding, TypeInv
  <2>. QED  BY <2>1, <2>2 DEF PlaceInv, Dim, Pos
<1>4. ASSUME CancelFirst \/ Return \/ UNCHANGED vars PROVE PlaceInv'
  <2>1. UNCHANGED <<queues, region>> /\ \A v \in Workers : Holding(v)' => Holding(v)
    BY <1>4 DEF CancelFirst, Return, vars, Holding
  <2>. QED  BY <2>1 DEF PlaceInv, Dim, Pos
<1>. QED  BY <1>1, <1>2, <1>3, <1>4 DEF Next, Step, Inside, Terminated

\* Holders keep different regions, locked, and nothing else is locked.
LEMMA NextLock == ASSUME TypeInv, PlaceInv, LockInv, [Next]_vars PROVE LockInv'
<1>. USE DEF LockInv, OneWorkerPerRegion
<1>0. \A v \in Workers : Holding(v) =>
        /\ region[v] \in Regions /\ Dim(v) \in NonEmpty
        /\ region[v] = <<Dim(v), Pos(v)>>
  BY DEF PlaceInv, Regions, NonEmpty, Dim, Pos
<1>1. ASSUME NEW w \in Workers, NextRegion(w) PROVE LockInv'
  <2>0. UNCHANGED ok /\ ~ Holding(w)
    BY <1>1 DEF NextRegion, Holding
  <2>1. ASSUME NEW d \in NonEmpty, NEW r \in RegionsOf(d), Taken(w, d, r)
        PROVE  LockInv'
    <3>1. region'[w] = <<d, r>> /\ Dim(w)' = d /\ Pos(w)' = r /\ Holding(w)'
      BY <2>1 DEF Taken, TypeInv, Dim, Pos, Holding
    <3>2. \A v \in Workers \ {w} :
            /\ Holding(v)' <=> Holding(v)
            /\ region'[v] = region[v] /\ Dim(v)' = Dim(v) /\ Pos(v)' = Pos(v)
      BY <2>1 DEF Taken, TypeInv, Dim, Pos, Holding
    <3>3. ASSUME NEW v \in Workers \ {w}, Holding(v) PROVE region[v] # <<d, r>>
      <4>1. Pos(v) \in queues[Dim(v)].lock
        BY <3>3
      <4>2. region[v] = <<d, r>> => Dim(v) = d /\ Pos(v) = r
        BY DEF Dim, Pos
      <4>. QED  BY <2>1, <4>1, <4>2 DEF Taken
    <3>4. \A u, v \in Workers :
            u # v /\ Holding(u)' /\ Holding(v)' => region'[u] # region'[v]
      BY <3>1, <3>2, <3>3
    <3>5. ASSUME NEW v \in Workers, Holding(v)'
          PROVE  Pos(v)' \in queues'[Dim(v)'].lock
      <4>1. CASE v = w
        BY <2>1, <3>1, <4>1 DEF Taken
      <4>2. CASE v # w
        <5>1. Dim(v) \in NonEmpty /\ Pos(v) \in queues[Dim(v)].lock
          BY <1>0, <3>2, <3>5, <4>2
        <5>. QED  BY <2>1, <3>2, <4>2, <5>1 DEF Taken
      <4>. QED  BY <4>1, <4>2
    <3>6. ASSUME ok, NEW e \in NonEmpty, NEW p \in queues'[e].lock
          PROVE  \E v \in Workers : Holding(v)' /\ region'[v] = <<e, p>>
      <4>1. CASE p \in queues[e].lock
        <5>1. PICK v \in Workers : Holding(v) /\ region[v] = <<e, p>>
          BY <3>6, <4>1
        <5>2. v # w
          BY <2>0, <5>1
        <5>. QED  BY <3>2, <5>1, <5>2
      <4>2. CASE p \notin queues[e].lock
        <5>1. e = d /\ p = r
          BY <2>1, <3>6, <4>2 DEF Taken
        <5>. QED  BY <3>1, <5>1
      <4>. QED  BY <4>1, <4>2
    <3>. QED  BY <2>0, <3>4, <3>5, <3>6
  <2>2. ASSUME pc' = [pc EXCEPT ![w] = "left"], UNCHANGED <<queues, region>>
        PROVE  LockInv'
    <3>1. \A v \in Workers : Holding(v)' <=> Holding(v)
      BY <2>0, <2>2 DEF Holding, TypeInv
    <3>. QED  BY <2>0, <2>2, <3>1 DEF Dim, Pos
  <2>. QED  BY <1>1, <2>1, <2>2, NextRegionEffect
<1>2. ASSUME NEW w \in Workers, UnlockRegion(w) PROVE LockInv'
  <2>1. UNCHANGED <<region, ok>>
    BY <1>2 DEF UnlockRegion
  <2>2. \A v \in Workers : Holding(v)' <=> Holding(v) /\ v # w
    BY <1>2, UnlockEffect DEF Holding, TypeInv
  <2>3. Holding(w) /\ region[w] = <<Dim(w), Pos(w)>> /\ Dim(w) \in NonEmpty
    BY <1>2, UnlockEffect
  <2>4. \A e \in NonEmpty :
          queues'[e].lock = queues[e].lock \ (IF e = Dim(w) THEN {Pos(w)} ELSE {})
    BY <1>2, UnlockEffect
  <2>5. ASSUME NEW v \in Workers, Holding(v)' PROVE Pos(v) \in queues'[Dim(v)].lock
    <3>1. Holding(v) /\ v # w
      BY <2>2, <2>5
    <3>2. region[v] # region[w] /\ region[v] = <<Dim(v), Pos(v)>> /\ Dim(v) \in NonEmpty
      BY <1>0, <2>3, <3>1
    <3>3. Pos(v) \in queues[Dim(v)].lock
      BY <3>1
    <3>. QED  BY <2>3, <2>4, <3>2, <3>3
  <2>6. ASSUME ok, NEW e \in NonEmpty, NEW p \in queues'[e].lock
        PROVE  \E v \in Workers : Holding(v)' /\ region[v] = <<e, p>>
    <3>1. p \in queues[e].lock /\ <<e, p>> # region[w]
      BY <2>3, <2>4, <2>6
    <3>2. PICK v \in Workers : Holding(v) /\ region[v] = <<e, p>>
      BY <2>6, <3>1
    <3>. QED  BY <2>2, <3>1, <3>2
  <2>7. \A v \in Workers : Dim(v)' = Dim(v) /\ Pos(v)' = Pos(v)
    BY <2>1 DEF Dim, Pos
  <2>. QED  BY <2>1, <2>2, <2>5, <2>6, <2>7
<1>3. ASSUME NEW w \in Workers, Inside(w) PROVE LockInv'
  <2>1. UNCHANGED <<queues, region>>
    BY <1>3, InsideUnchanged
  <2>2. \A v \in Workers : Holding(v)' => Holding(v)
    BY <1>3 DEF Inside, TestOk, OpenRegion, DoChunk, ChunkFails, ChunksEnd,
                WriteRegion, Goto, Holding, TypeInv
  <2>3. ok' => ok /\ \A v \in Workers : Holding(v) => Holding(v)'
    BY <1>3 DEF Inside, TestOk, OpenRegion, DoChunk, ChunkFails, ChunksEnd,
                WriteRegion, Goto, Holding, TypeInv
  <2>. QED  BY <2>1, <2>2, <2>3 DEF Dim, Pos
<1>4. ASSUME CancelFirst \/ Return \/ UNCHANGED vars PROVE LockInv'
  <2>1. UNCHANGED <<queues, region, ok>> /\ \A v \in Workers : Holding(v)' <=> Holding(v)
    BY <1>4 DEF CancelFirst, Return, vars, Holding, TypeInv
  <2>. QED  BY <2>1 DEF Dim, Pos
<1>. QED  BY <1>1, <1>2, <1>3, <1>4 DEF Next, Step, Inside, Terminated

\* Holders of one region are one worker.
LEMMA OneHolder ==
  ASSUME LockInv, NEW v \in Workers, NEW w \in Workers, Holding(v), Holding(w),
         region[v] = region[w]
  PROVE  v = w
  BY DEF LockInv, OneWorkerPerRegion

\* What is written was handed out, and no longer read by anybody.
LEMMA NextFile == ASSUME TypeInv, PlaceInv, LockInv, FileInv, [Next]_vars PROVE FileInv'
<1>1. ASSUME NEW w \in Workers, NextRegion(w) PROVE FileInv'
  <2>0. UNCHANGED out
    BY <1>1 DEF NextRegion
  <2>1. ASSUME NEW d \in NonEmpty, NEW r \in RegionsOf(d), Taken(w, d, r)
        PROVE  FileInv'
    <3>1. \A s \in Regions : s[1] \in NonEmpty
      BY DEF Regions, NonEmpty
    <3>2. \A s \in Regions : out[s] # "absent" => s[2] \in queues'[s[1]].done
      BY <2>1, <3>1 DEF FileInv, Taken
    <3>3. <<d, r>> \in Regions
      BY DEF Regions, NonEmpty
    <3>4. out[<<d, r>>] = "absent"
      BY <2>1, <3>3 DEF FileInv, Taken
    <3>5. \A v \in Workers : Reading(v)' => out[region'[v]] = "absent"
      BY <2>1, <3>4 DEF FileInv, Taken, TypeInv, Reading
    <3>. QED  BY <2>0, <3>2, <3>5 DEF FileInv
  <2>2. ASSUME pc' = [pc EXCEPT ![w] = "left"], UNCHANGED <<queues, region>>
        PROVE  FileInv'
    BY <2>0, <2>2 DEF FileInv, Reading, TypeInv
  <2>. QED  BY <1>1, <2>1, <2>2, NextRegionEffect
<1>2. ASSUME NEW w \in Workers, UnlockRegion(w) PROVE FileInv'
  <2>1. UNCHANGED <<out, region>> /\ \A v \in Workers : Reading(v)' => Reading(v)
    BY <1>2, UnlockEffect DEF UnlockRegion, Reading, TypeInv
  <2>2. \A e \in NonEmpty : queues'[e].done = queues[e].done
    BY <1>2, UnlockEffect
  <2>3. \A s \in Regions : s[1] \in NonEmpty
    BY DEF Regions, NonEmpty
  <2>. QED  BY <2>1, <2>2, <2>3 DEF FileInv
<1>3. ASSUME NEW w \in Workers, WriteRegion(w) PROVE FileInv'
  <2>1. Holding(w) /\ region[w] \in Regions /\ Pos(w) \in queues[Dim(w)].done
    BY <1>3 DEF WriteRegion, Holding, PlaceInv
  <2>2. UNCHANGED <<queues, region>> /\ pc' = [pc EXCEPT ![w] = "unlock"]
    BY <1>3 DEF WriteRegion, Goto
  <2>3. \A s \in Regions : s # region[w] => out'[s] = out[s]
    BY <1>3 DEF WriteRegion, TypeInv
  <2>4. \A s \in Regions : out'[s] # "absent" => s[2] \in queues[s[1]].done
    BY <2>1, <2>3 DEF FileInv, Dim, Pos
  <2>5. ASSUME NEW v \in Workers, Reading(v)' PROVE out'[region[v]] = "absent"
    <3>1. Reading(v) /\ v # w
      BY <2>2, <2>5 DEF Reading, TypeInv
    <3>2. Holding(v)
      BY <3>1 DEF Reading, Holding
    <3>3. region[v] # region[w] /\ region[v] \in Regions
      BY <2>1, <3>1, <3>2, OneHolder DEF PlaceInv
    <3>. QED  BY <2>3, <3>1, <3>3 DEF FileInv
  <2>. QED  BY <2>2, <2>4, <2>5 DEF FileInv
<1>4. ASSUME NEW w \in Workers,
             TestOk(w) \/ OpenRegion(w) \/ DoChunk(w) \/ ChunkFails(w) \/ ChunksEnd(w)
      PROVE  FileInv'
  <2>1. UNCHANGED <<queues, region, out>>
    BY <1>4 DEF TestOk, OpenRegion, DoChunk, ChunkFails, ChunksEnd
  <2>2. \A v \in Workers : Reading(v)' => Reading(v)
    BY <1>4 DEF TestOk, OpenRegion, DoChunk, ChunkFails, ChunksEnd, Goto, Reading,
                TypeInv
  <2>. QED  BY <2>1, <2>2 DEF FileInv
<1>5. ASSUME CancelFirst \/ Return \/ UNCHANGED vars PROVE FileInv'
  <2>1. UNCHANGED <<queues, region, out>> /\ \A v \in Workers : Reading(v)' => Reading(v)
    BY <1>5 DEF CancelFirst, Return, vars, Reading
  <2>. QED  BY <2>1 DEF FileInv
<1>. QED  BY <1>1, <1>2, <1>3, <1>4, <1>5 DEF Next, Step, Terminated

\* While ok is set, what was handed out is in somebody's hands or complete.
LEMMA NextWork == ASSUME TypeInv, PlaceInv, WorkInv, [Next]_vars PROVE WorkInv'
<1>1. ASSUME NEW w \in Workers, NextRegion(w) PROVE WorkInv'
  <2>0. UNCHANGED <<out, ok, todo>> /\ ~ Reading(w)
    BY <1>1 DEF NextRegion, Reading
  <2>1. ASSUME NEW d \in NonEmpty, NEW r \in RegionsOf(d), Taken(w, d, r)
        PROVE  WorkInv'
    <3>. SUFFICES ASSUME ok PROVE WorkInv'
      BY <2>0 DEF WorkInv
    <3>1. Reading(w)' /\ region'[w] = <<d, r>>
      BY <2>1 DEF Taken, TypeInv, Reading
    <3>2. \A v \in Workers \ {w} : pc'[v] = pc[v] /\ region'[v] = region[v]
      BY <2>1 DEF Taken, TypeInv
    <3>3. ASSUME NEW e \in NonEmpty, NEW s \in RegionsOf(e) \cap queues'[e].done,
                 out[<<e, s>>] # "terraformed"
          PROVE  \E v \in Workers : Reading(v)' /\ region'[v] = <<e, s>>
      <4>1. CASE s \in queues[e].done
        <5>1. PICK v \in Workers : Reading(v) /\ region[v] = <<e, s>>
          BY <3>3, <4>1 DEF WorkInv
        <5>2. v # w
          BY <2>0, <5>1
        <5>. QED  BY <3>2, <5>1, <5>2 DEF Reading
      <4>2. CASE s \notin queues[e].done
        <5>1. e = d /\ s = r
          BY <2>1, <3>3, <4>2 DEF Taken
        <5>. QED  BY <3>1, <5>1
      <4>. QED  BY <4>1, <4>2
    <3>4. \A v \in Workers : pc'[v] = "write" => todo[v] = 0
      BY <2>1 DEF Taken, TypeInv, WorkInv
    <3>. QED  BY <2>0, <3>3, <3>4 DEF WorkInv
  <2>2. ASSUME pc' = [pc EXCEPT ![w] = "left"], UNCHANGED <<queues, region>>
        PROVE  WorkInv'
    <3>1. \A v \in Workers : Reading(v) => Reading(v)'
      BY <2>0, <2>2 DEF Reading, TypeInv
    <3>2. \A v \in Workers : pc'[v] = "write" => pc[v] = "write"
      BY <2>2 DEF TypeInv
    <3>. QED  BY <2>0, <2>2, <3>1, <3>2 DEF WorkInv
  <2>. QED  BY <1>1, <2>1, <2>2, NextRegionEffect
<1>2. ASSUME NEW w \in Workers, UnlockRegion(w) PROVE WorkInv'
  <2>1. UNCHANGED <<out, region, ok, todo>> /\ \A e \in NonEmpty : queues'[e].done = queues[e].done
    BY <1>2, UnlockEffect DEF UnlockRegion
  <2>2. \A v \in Workers : (Reading(v) => Reading(v)') /\ (pc'[v] = "write" => pc[v] = "write")
    BY <1>2, UnlockEffect DEF UnlockRegion, Reading, TypeInv
  <2>. QED  BY <2>1, <2>2 DEF WorkInv
<1>3. ASSUME NEW w \in Workers, WriteRegion(w) PROVE WorkInv'
  <2>. SUFFICES ASSUME ok' PROVE WorkInv'
    BY DEF WorkInv
  <2>1. region[w] \in Regions
    BY <1>3 DEF WriteRegion, Holding, PlaceInv
  <2>2. /\ ok /\ UNCHANGED <<queues, region, todo>>
        /\ pc' = [pc EXCEPT ![w] = "unlock"]
        /\ out' = [out EXCEPT ![region[w]] = IF todo[w] = 0 THEN "terraformed" ELSE "partial"]
    BY <1>3 DEF WriteRegion, Goto
  <2>3. todo[w] = 0
    BY <1>3, <2>2 DEF WriteRegion, WorkInv
  <2>4. out' = [out EXCEPT ![region[w]] = "terraformed"]
    BY <2>2, <2>3
  <2>5. ASSUME NEW e \in NonEmpty, NEW s \in RegionsOf(e) \cap queues[e].done,
               out'[<<e, s>>] # "terraformed"
        PROVE  \E v \in Workers : Reading(v)' /\ region[v] = <<e, s>>
    <3>1. <<e, s>> \in Regions
      BY DEF Regions, NonEmpty
    <3>2. <<e, s>> # region[w] /\ out[<<e, s>>] # "terraformed"
      BY <2>1, <2>4, <2>5, <3>1 DEF TypeInv
    <3>3. PICK v \in Workers : Reading(v) /\ region[v] = <<e, s>>
      BY <2>2, <3>2 DEF WorkInv
    <3>. QED  BY <2>2, <3>2, <3>3 DEF Reading, TypeInv
  <2>6. \A v \in Workers : pc'[v] = "write" => todo[v] = 0
    BY <2>2 DEF WorkInv, TypeInv
  <2>. QED  BY <2>2, <2>5, <2>6 DEF WorkInv
<1>4. ASSUME NEW w \in Workers,
             TestOk(w) \/ OpenRegion(w) \/ DoChunk(w) \/ ChunkFails(w) \/ ChunksEnd(w)
      PROVE  WorkInv'
  <2>. SUFFICES ASSUME ok' PROVE WorkInv'
    BY DEF WorkInv
  <2>1. ok /\ UNCHANGED <<queues, region, out>>
    BY <1>4 DEF TestOk, OpenRegion, DoChunk, ChunkFails, ChunksEnd
  <2>2. \A v \in Workers : Reading(v) => Reading(v)'
    BY <1>4 DEF TestOk, OpenRegion, DoChunk, ChunkFails, ChunksEnd, Goto, Reading,
                TypeInv
  <2>3. \A v \in Workers : pc'[v] = "write" => todo'[v] = 0
    BY <1>4, <2>1 DEF TestOk, OpenRegion, DoChunk, ChunkFails, ChunksEnd, Goto,
                      TypeInv, WorkInv
  <2>. QED  BY <2>1, <2>2, <2>3 DEF WorkInv
<1>5. ASSUME CancelFirst PROVE WorkInv'
  <2>1. UNCHANGED <<queues, region, out, ok>>
    BY <1>5 DEF CancelFirst
  <2>2. \A v \in Workers : ~ Reading(v) /\ pc'[v] # "write"
    BY <1>5 DEF CancelFirst, Reading
  <2>. QED  BY <2>1, <2>2 DEF WorkInv
<1>6. ASSUME Return \/ UNCHANGED vars PROVE WorkInv'
  <2>1. UNCHANGED <<pc, queues, region, out, ok, todo>>
    BY <1>6 DEF Return, vars
  <2>. QED  BY <2>1 DEF WorkInv, Reading
<1>. QED  BY <1>1, <1>2, <1>3, <1>4, <1>5, <1>6 DEF Next, Step, Terminated

\* A worker leaves only when all regions are done: the lock of one that is not
\* done has no holder.
LEMMA NextStay ==
  ASSUME TypeInv, PlaceInv, LockInv, StayInv, ResultInv, [Next]_vars PROVE StayInv'
<1>1. ASSUME NEW w \in Workers, NextRegion(w) PROVE StayInv'
  <2>0. UNCHANGED <<ok, result>> /\ pc[w] # "left"
    BY <1>1 DEF NextRegion
  <2>1. ASSUME NEW d \in NonEmpty, NEW r \in RegionsOf(d), Taken(w, d, r)
        PROVE  StayInv'
    <3>1. pc'[w] # "left"
      BY <2>1 DEF Taken, TypeInv
    <3>. QED  BY <3>1 DEF StayInv
  <2>2. ASSUME \A d \in NonEmpty : Available(queues[d]) = {}, UNCHANGED <<queues, region>>
        PROVE  StayInv'
    <3>. SUFFICES ASSUME ok, NEW d \in NonEmpty, NEW c \in Cells(d), c \notin queues[d].done
                  PROVE  FALSE
      <4>1. \A d \in NonEmpty : queues'[d].done # Cells(d) =>
                                  \E c \in Cells(d) : c \notin queues[d].done
        BY <2>2 DEF TypeInv, QueueType
      <4>. QED  BY <2>0, <4>1 DEF StayInv
    <3>1. c \in queues[d].lock
      BY <2>2, AvailableIsFree
    <3>2. PICK v \in Workers : Holding(v) /\ region[v] = <<d, c>>
      BY <3>1 DEF LockInv, OneWorkerPerRegion
    <3>. QED  BY <3>2 DEF PlaceInv, Dim, Pos
  <2>. QED  BY <1>1, <2>1, <2>2, NextRegionEffect
<1>2. ASSUME NEW w \in Workers, UnlockRegion(w) PROVE StayInv'
  <2>1. pc'[w] # "left"
    BY <1>2, UnlockEffect DEF TypeInv
  <2>. QED  BY <2>1 DEF StayInv
<1>3. ASSUME NEW w \in Workers, Inside(w) PROVE StayInv'
  <2>1. ok' => pc'[w] # "left"
    BY <1>3 DEF Inside, TestOk, OpenRegion, DoChunk, ChunkFails, ChunksEnd,
                WriteRegion, Goto, TypeInv
  <2>. QED  BY <2>1 DEF StayInv
<1>4. ASSUME CancelFirst PROVE StayInv'
  BY <1>4 DEF CancelFirst, StayInv
<1>5. ASSUME Return PROVE StayInv'
  <2>1. UNCHANGED <<pc, queues, ok>> /\ result # "error"
    BY <1>5, NoneAssumption DEF Return
  <2>. QED  BY <2>1 DEF StayInv
<1>6. ASSUME UNCHANGED vars PROVE StayInv'
  BY <1>6 DEF StayInv, vars
<1>. QED  BY <1>1, <1>2, <1>3, <1>4, <1>5, <1>6 DEF Next, Step, Inside, Terminated

\* Nothing happens behind the result.
LEMMA NextResult == ASSUME TypeInv, ResultInv, [Next]_vars PROVE ResultInv'
<1>1. ASSUME NEW w \in Workers, Step(w) PROVE ResultInv'
  <2>1. pc[w] # "left" /\ UNCHANGED result
    BY <1>1 DEF Step, TestOk, NextRegion, OpenRegion, DoChunk, ChunkFails, ChunksEnd,
                WriteRegion, UnlockRegion
  <2>. QED  BY <2>1 DEF ResultInv
<1>2. ASSUME CancelFirst PROVE ResultInv'
  BY <1>2 DEF CancelFirst, ResultInv
<1>3. ASSUME Return \/ UNCHANGED vars PROVE ResultInv'
  BY <1>3 DEF Return, vars, ResultInv
<1>. QED  BY <1>1, <1>2, <1>3 DEF Next, Terminated

\* A region is handed out once, so that it is the last one of one worker only.
LEMMA NextTurn == ASSUME TypeInv, PlaceInv, TurnInv, [Next]_vars PROVE TurnInv'
<1>0. \A w \in Workers : region[w] # None =>
        region[w] \in Regions /\ Dim(w) \in NonEmpty /\ region[w] = <<Dim(w), Pos(w)>>
  BY DEF TypeInv, Regions, NonEmpty, Dim, Pos
<1>1. ASSUME NEW w \in Workers, NextRegion(w) PROVE TurnInv'
  <2>0. todo' = todo
    BY <1>1 DEF NextRegion
  <2>1. ASSUME NEW d \in NonEmpty, NEW r \in RegionsOf(d), Taken(w, d, r)
        PROVE  TurnInv'
    <3>0. r \notin queues[d].done /\ region'[w] = <<d, r>> /\ pc'[w] = "open"
          /\ \A v \in Workers \ {w} : region'[v] = region[v] /\ pc'[v] = pc[v]
      BY <2>1 DEF Taken, TypeInv
    <3>1. \A v \in Workers : region[v] # <<d, r>>
      BY <3>0, <1>0, NoneAssumption DEF TurnInv, Regions, NonEmpty, Dim, Pos
    <3>2. ASSUME NEW v \in Workers, region'[v] # None
          PROVE  (Pos(v) \in queues[Dim(v)].done)'
      <4>1. CASE v = w
        BY <4>1, <3>0, <2>1 DEF Taken, Dim, Pos
      <4>2. CASE v # w
        BY <4>2, <3>0, <3>2, <1>0, <2>1 DEF Taken, Dim, Pos, TurnInv
      <4>. QED  BY <4>1, <4>2
    <3>3. ASSUME NEW u \in Workers, NEW v \in Workers, region'[u] = region'[v]
          PROVE  u = v \/ region'[v] = None
      BY <3>0, <3>1, <3>3 DEF TurnInv
    <3>4. ASSUME NEW v \in Workers, pc'[v] = "chunks"
          PROVE  todo'[v] <= ChunksOf(region[v])'
      BY <3>0, <3>4, <2>0 DEF TurnInv, ChunksOf
    <3>. QED  BY <3>2, <3>3, <3>4 DEF TurnInv
  <2>2. ASSUME pc' = [pc EXCEPT ![w] = "left"], UNCHANGED <<queues, region>>
        PROVE  TurnInv'
    BY <2>0, <2>2 DEF TurnInv, TypeInv, Dim, Pos, ChunksOf
  <2>. QED  BY <1>1, <2>1, <2>2, NextRegionEffect
<1>2. ASSUME NEW w \in Workers, UnlockRegion(w) PROVE TurnInv'
  <2>1. /\ region' = region /\ todo' = todo
        /\ \A v \in Workers : pc'[v] = "chunks" => pc[v] = "chunks"
        /\ \A e \in NonEmpty : queues'[e].done = queues[e].done
    BY <1>2, UnlockEffect DEF UnlockRegion, TypeInv
  <2>. QED  BY <1>0, <2>1 DEF TurnInv, Dim, Pos, ChunksOf
<1>3. ASSUME NEW w \in Workers, Inside(w) PROVE TurnInv'
  <2>1. UNCHANGED <<queues, region>>
    BY <1>3, InsideUnchanged
  <2>2. ASSUME NEW v \in Workers, pc'[v] = "chunks"
        PROVE  todo'[v] <= ChunksOf(region'[v])
    <3>1. CASE pc[v] = "chunks" /\ todo'[v] = todo[v]
      BY <3>1, <2>1 DEF TurnInv
    <3>2. CASE OpenRegion(w)
      <4>1. region[w] # None
        BY <3>2, NoneAssumption DEF OpenRegion, PlaceInv, Holding
      <4>2. ChunksOf(region[w]) \in Nat
        BY <4>1, <1>0, DimsAssumption DEF ChunksOf, Regions, RegionsOf
      <4>3. v = w => todo'[v] = ChunksOf(region[w])
        BY <3>2, <2>2 DEF OpenRegion, Goto, TypeInv, ChunksOf, Dim, Pos
      <4>4. v # w => pc[v] = "chunks" /\ todo'[v] = todo[v]
        BY <3>2, <2>2 DEF OpenRegion, Goto, TypeInv
      <4>. QED  BY <2>1, <4>2, <4>3, <4>4, <3>1
    <3>3. CASE DoChunk(w)
      <4>1. pc[v] = "chunks"
        BY <3>3, <2>2 DEF DoChunk, Goto, TypeInv
      <4>2. region[v] \in Regions /\ ChunksOf(region[v]) \in Nat
        BY <4>1, DimsAssumption DEF PlaceInv, Holding, ChunksOf, Regions, RegionsOf
      <4>3. todo'[v] = todo[v] \/ todo'[v] = todo[v] - 1
        BY <3>3 DEF DoChunk, TypeInv
      <4>4. todo[v] \in Nat /\ todo[v] <= ChunksOf(region[v])
        BY <4>1 DEF TurnInv, TypeInv
      <4>. QED  BY <2>1, <4>2, <4>3, <4>4
    <3>4. CASE TestOk(w) \/ ChunkFails(w) \/ ChunksEnd(w) \/ WriteRegion(w)
      <4>1. pc[v] = "chunks" /\ todo'[v] = todo[v]
        BY <3>4, <2>2 DEF TestOk, ChunkFails, ChunksEnd, WriteRegion, Goto, TypeInv
      <4>. QED  BY <3>1, <4>1
    <3>. QED  BY <1>3, <3>2, <3>3, <3>4 DEF Inside
  <2>. QED  BY <2>1, <2>2 DEF TurnInv, Dim, Pos, ChunksOf
<1>4. ASSUME CancelFirst PROVE TurnInv'
  BY <1>4 DEF CancelFirst, TurnInv, Dim, Pos
<1>5. ASSUME Return \/ UNCHANGED vars PROVE TurnInv'
  BY <1>5 DEF Return, vars, TurnInv, Dim, Pos, ChunksOf
<1>. QED  BY <1>1, <1>2, <1>3, <1>4, <1>5 DEF Next, Step, Inside, Terminated

\* Every step keeps the inductive invariant.
LEMMA NextInv == IInv /\ [Next]_vars => IInv'
  BY NextTypes, NextPlace, NextLock, NextFile, NextWork, NextStay, NextTurn,
     NextResult DEF IInv

\* The inductive invariant holds in every state that can be reached.
THEOREM Invariance == SafeSpec => []IInv
  BY InitInv, NextInv, PTL DEF SafeSpec

-----------------------------------------------------------------------------
\* Two workers never rewrite the same region at the same time, and the locks are
\* the regions being rewritten (toje-converter.cpp:233-238, 331).
THEOREM OneWorkerPerRegionHolds == SafeSpec => []OneWorkerPerRegion
<1>1. IInv => OneWorkerPerRegion
  BY DEF IInv, LockInv
<1>. QED  BY <1>1, Invariance, PTL

\* A good result without a failure means that every region of every dimension is
\* written completely and unlocked (toje-converter.cpp:231-340).
THEOREM AllTerraformedHolds == SafeSpec => []AllTerraformed
<1>1. IInv => AllTerraformed
  <2>. SUFFICES ASSUME IInv, result = "ok", ok
                PROVE  /\ \A r \in Regions : out[r] = "terraformed"
                       /\ \A d \in NonEmpty : queues[d].lock = {}
    BY DEF AllTerraformed
  <2>1. \A w \in Workers : pc[w] = "left"
    BY NoneAssumption DEF IInv, ResultInv
  <2>2. \A d \in NonEmpty : queues[d].done = Cells(d)
    BY <2>1 DEF IInv, StayInv
  <2>3. \A d \in NonEmpty : queues[d].lock = {}
    BY <2>1 DEF IInv, LockInv, OneWorkerPerRegion, Holding
  <2>4. ASSUME NEW r \in Regions PROVE out[r] = "terraformed"
    <3>1. PICK d \in NonEmpty : r \in {d} \X RegionsOf(d)
      BY DEF Regions, NonEmpty
    <3>2. r = <<d, r[2]>> /\ r[2] \in RegionsOf(d) \cap queues[d].done
      BY <3>1, <2>2, RegionInGrid
    <3>. QED  BY <2>1, <3>2 DEF IInv, WorkInv, Reading
  <2>. QED  BY <2>3, <2>4
<1>. QED  BY <1>1, Invariance, PTL

\* No region is written twice (toje-converter.cpp:325).
THEOREM WrittenOnceHolds == SafeSpec => WrittenOnce
<1>1. IInv /\ [Next]_vars =>
        [\A r \in Regions : out[r] # "absent" => out'[r] = out[r]]_vars
  <2>. SUFFICES ASSUME IInv, [Next]_vars, NEW r \in Regions, out[r] # "absent"
                PROVE  out'[r] = out[r]
    OBVIOUS
  <2>1. ASSUME NEW w \in Workers, WriteRegion(w) PROVE out'[r] = out[r]
    <3>1. out[region[w]] = "absent"
      BY <2>1 DEF WriteRegion, Reading, IInv, FileInv
    <3>. QED  BY <2>1, <3>1 DEF WriteRegion, IInv, TypeInv
  <2>2. ASSUME UNCHANGED out PROVE out'[r] = out[r]
    BY <2>2
  <2>. QED  BY <2>1, <2>2
              DEF Next, Step, CancelFirst, TestOk, NextRegion, OpenRegion, DoChunk,
                  ChunkFails, ChunksEnd, UnlockRegion, Return, Terminated, vars
<1>. QED  BY <1>1, Invariance, PTL DEF SafeSpec, WrittenOnce

-----------------------------------------------------------------------------
\* A worker never has more steps left than a region it has not got yet would take.
LEMMA TurnsBound ==
  ASSUME TypeInv, PlaceInv, TurnInv, NEW w \in Workers
  PROVE  /\ TurnsLeft(w) \in Nat
         /\ pc[w] # "left" => TurnsLeft(w) > 0
         /\ region[w] # None => /\ ChunksOf(region[w]) \in Nat
                                /\ TurnsLeft(w) < ChunksOf(region[w]) + 7
         /\ region[w] = None => TurnsLeft(w) = StepsLeft[pc[w]] /\ TurnsLeft(w) <= 2
<1>1. \A r \in Regions : ChunksOf(r) \in Nat
  BY DimsAssumption DEF ChunksOf, Regions, RegionsOf
<1>2. /\ pc[w] \in Labels /\ todo[w] \in Nat /\ region[w] \in Regions \cup {None}
      /\ region[w] = None => pc[w] \in {"loop", "next", "left"}
  BY NoneAssumption DEF TypeInv, PlaceInv, Holding, Labels
<1>3. pc[w] = "chunks" => todo[w] <= ChunksOf(region[w])
  BY DEF TurnInv
<1>4. CASE region[w] = None
  BY <1>2, <1>4 DEF TurnsLeft, StepsLeft
<1>5. CASE region[w] # None
  <2>1. ChunksOf(region[w]) \in Nat
    BY <1>1, <1>2, <1>5
  <2>. QED  BY <1>2, <1>3, <1>5, <2>1 DEF TurnsLeft, StepsLeft, Labels
<1>. QED  BY <1>4, <1>5

\* A worker that goes on with its region, or looks for its first one, uses up one
\* of the steps it had left.
LEMMA WorkerUsesUp ==
  ASSUME TypeInv, PlaceInv, TurnInv, NEW w \in Workers,
         region' = region, \A d \in NonEmpty : queues'[d].done = queues[d].done,
         \A v \in Workers \ {w} : TurnsLeft(v)' = TurnsLeft(v) /\ pc'[v] = pc[v],
         TurnsLeft(w)' \in Nat, TurnsLeft(w)' < TurnsLeft(w),
         region[w] = None => TurnsLeft(w)' = StepsLeft[pc'[w]]
  PROVE  /\ RegionSteps' \subseteq RegionSteps /\ WorkerSteps' \subseteq WorkerSteps
         /\ <<RegionSteps, WorkerSteps>>' # <<RegionSteps, WorkerSteps>>
<1>0. DEFINE All == UNION {{r} \X (1 .. ChunksOf(r) + 7) : r \in Regions}
<1>1. /\ \A v \in Workers : TurnsLeft(v) \in Nat /\ TurnsLeft(v)' \in Nat
      /\ \A v \in Workers : TurnsLeft(v)' <= TurnsLeft(v)
  BY TurnsBound
<1>2. \A s \in All : s[1] \in Regions /\ s[1][1] \in NonEmpty /\ s[2] \in Int
  <2>1. \A r \in Regions : ChunksOf(r) \in Nat /\ r[1] \in NonEmpty
    BY DimsAssumption DEF ChunksOf, Regions, RegionsOf, NonEmpty
  <2>. QED  BY <2>1
<1>3. /\ RegionSteps = {s \in All : \/ s[1][2] \notin queues[s[1][1]].done
                                   \/ \E v \in Workers : region[v] = s[1] /\ s[2] <= TurnsLeft(v)}
      /\ RegionSteps' = {s \in All : \/ s[1][2] \notin queues'[s[1][1]].done
                                    \/ \E v \in Workers : region'[v] = s[1] /\ s[2] <= TurnsLeft(v)'}
  BY DEF RegionSteps, ChunksOf
<1>. HIDE DEF All
<1>4. RegionSteps' \subseteq RegionSteps
  <2>. SUFFICES ASSUME NEW s \in RegionSteps' PROVE s \in RegionSteps
    OBVIOUS
  <2>1. s \in All
    BY <1>3
  <2>2. CASE s[1][2] \notin queues'[s[1][1]].done
    BY <2>1, <2>2, <1>2, <1>3
  <2>3. ASSUME NEW v \in Workers, region'[v] = s[1], s[2] <= TurnsLeft(v)'
        PROVE  s \in RegionSteps
    <3>1. s[2] <= TurnsLeft(v)
      BY <2>1, <2>3, <1>1, <1>2
    <3>. QED  BY <2>1, <2>3, <3>1, <1>3
  <2>. QED  BY <2>2, <2>3, <1>3
<1>5. WorkerSteps' \subseteq WorkerSteps
  <2>. SUFFICES ASSUME NEW s \in WorkerSteps' PROVE s \in WorkerSteps
    OBVIOUS
  <2>1. s \in Workers \X (1 .. 2) /\ region[s[1]] = None /\ s[2] <= StepsLeft[pc'[s[1]]]
    BY DEF WorkerSteps
  <2>2. CASE s[1] # w
    BY <2>1, <2>2 DEF WorkerSteps
  <2>3. CASE s[1] = w
    <3>1. StepsLeft[pc'[w]] = TurnsLeft(w)' /\ StepsLeft[pc[w]] = TurnsLeft(w)
      BY <2>1, <2>3, TurnsBound
    <3>2. s[2] \in Int /\ s[2] <= StepsLeft[pc[w]]
      BY <2>1, <2>3, <3>1, <1>1
    <3>. QED  BY <2>1, <2>3, <3>2 DEF WorkerSteps
  <2>. QED  BY <2>2, <2>3
<1>6. CASE region[w] = None
  <2>1. StepsLeft[pc'[w]] = TurnsLeft(w)' /\ StepsLeft[pc[w]] = TurnsLeft(w) /\ TurnsLeft(w) \in 1 .. 2
    BY <1>6, <1>1, TurnsBound
  <2>2. <<w, TurnsLeft(w)>> \in WorkerSteps
    BY <2>1, <1>6 DEF WorkerSteps
  <2>3. <<w, TurnsLeft(w)>> \notin WorkerSteps'
    BY <2>1, <1>1 DEF WorkerSteps
  <2>. QED  BY <1>4, <1>5, <2>2, <2>3
<1>7. CASE region[w] # None
  <2>1. /\ region[w] \in Regions /\ Dim(w) \in NonEmpty /\ Pos(w) \in queues'[Dim(w)].done
        /\ \A v \in Workers : region[v] = region[w] => v = w
    BY <1>7 DEF TurnInv, TypeInv, Regions, NonEmpty, Dim
  <2>2. TurnsLeft(w) \in 1 .. ChunksOf(region[w]) + 7
    BY <1>7, <1>1, TurnsBound
  <2>3. <<region[w], TurnsLeft(w)>> \in All
    BY <2>1, <2>2 DEF All
  <2>4. <<region[w], TurnsLeft(w)>> \in RegionSteps
    BY <2>3, <1>1, <1>3
  <2>5. <<region[w], TurnsLeft(w)>> \notin RegionSteps'
    <3>1. \A v \in Workers : region'[v] = region[w] => ~(TurnsLeft(w) <= TurnsLeft(v)')
      BY <2>1, <1>1
    <3>. QED  BY <2>1, <3>1, <1>3 DEF Dim, Pos
  <2>. QED  BY <1>4, <1>5, <2>4, <2>5
<1>. QED  BY <1>6, <1>7

\* Taking a region uses up the first of its steps.
LEMMA TakeUsesUp ==
  ASSUME TypeInv, PlaceInv, TurnInv, NEW w \in Workers, todo' = todo,
         NEW d \in NonEmpty, NEW r \in RegionsOf(d), Taken(w, d, r)
  PROVE  /\ RegionSteps' \subseteq RegionSteps /\ WorkerSteps' \subseteq WorkerSteps
         /\ RegionSteps' # RegionSteps
<1>0. DEFINE All == UNION {{q} \X (1 .. ChunksOf(q) + 7) : q \in Regions}
             t == <<d, r>>
<1>1. /\ r \notin queues[d].done /\ region'[w] = t /\ pc'[w] = "open"
      /\ \A v \in Workers \ {w} : region'[v] = region[v] /\ pc'[v] = pc[v]
      /\ \A e \in NonEmpty : queues'[e].done = queues[e].done \cup (IF e = d THEN {r} ELSE {})
  BY DEF Taken, TypeInv
<1>2. t \in Regions /\ t # None /\ ChunksOf(t) \in Nat
  <2>1. t \in Regions
    BY DEF Regions, NonEmpty
  <2>2. t # None
    BY <2>1, NoneAssumption
  <2>3. ChunksOf(t) \in Nat
    BY DimsAssumption DEF ChunksOf, RegionsOf, NonEmpty
  <2>. QED  BY <2>1, <2>2, <2>3
<1>3. \A v \in Workers : region[v] # t
  BY <1>1, <1>2 DEF TurnInv, Dim, Pos
<1>4. \A v \in Workers \ {w} : TurnsLeft(v)' = TurnsLeft(v)
  BY <1>1 DEF TurnsLeft, ChunksOf
<1>5. TurnsLeft(w)' = ChunksOf(t) + 6
  BY <1>1, <1>2 DEF TurnsLeft, StepsLeft, ChunksOf
<1>6. \A s \in All : s[1] \in Regions /\ s[1][1] \in NonEmpty /\ s[2] \in Int /\ s[1] = <<s[1][1], s[1][2]>>
  <2>1. \A q \in Regions : ChunksOf(q) \in Nat /\ q[1] \in NonEmpty /\ q = <<q[1], q[2]>>
    BY DimsAssumption DEF ChunksOf, Regions, RegionsOf, NonEmpty
  <2>. QED  BY <2>1
<1>7. /\ RegionSteps = {s \in All : \/ s[1][2] \notin queues[s[1][1]].done
                                   \/ \E v \in Workers : region[v] = s[1] /\ s[2] <= TurnsLeft(v)}
      /\ RegionSteps' = {s \in All : \/ s[1][2] \notin queues'[s[1][1]].done
                                    \/ \E v \in Workers : region'[v] = s[1] /\ s[2] <= TurnsLeft(v)'}
  BY DEF RegionSteps, ChunksOf
<1>8. <<t, ChunksOf(t) + 7>> \in All
  BY <1>2
<1>. HIDE DEF All
<1>9. RegionSteps' \subseteq RegionSteps
  <2>. SUFFICES ASSUME NEW s \in RegionSteps' PROVE s \in RegionSteps
    OBVIOUS
  <2>1. s \in All
    BY <1>7
  <2>2. CASE s[1] = t \/ s[1][2] \notin queues'[s[1][1]].done
    BY <2>1, <2>2, <1>1, <1>6, <1>7
  <2>3. ASSUME s[1] # t, NEW v \in Workers, region'[v] = s[1], s[2] <= TurnsLeft(v)'
        PROVE  s \in RegionSteps
    <3>1. v # w
      BY <2>3, <1>1
    <3>. QED  BY <3>1, <2>1, <2>3, <1>1, <1>4, <1>7
  <2>. QED  BY <2>2, <2>3, <1>7
<1>10. WorkerSteps' \subseteq WorkerSteps
  <2>. SUFFICES ASSUME NEW s \in WorkerSteps' PROVE s \in WorkerSteps
    OBVIOUS
  <2>1. s \in Workers \X (1 .. 2) /\ region'[s[1]] = None /\ s[2] <= StepsLeft[pc'[s[1]]]
    BY DEF WorkerSteps
  <2>2. s[1] # w
    BY <2>1, <1>1, <1>2
  <2>. QED  BY <2>1, <2>2, <1>1 DEF WorkerSteps
<1>11. <<t, ChunksOf(t) + 7>> \in RegionSteps
  BY <1>1, <1>7, <1>8
<1>12. <<t, ChunksOf(t) + 7>> \notin RegionSteps'
  <2>1. \A v \in Workers : region'[v] = t => v = w
    BY <1>1, <1>3
  <2>2. r \in queues'[d].done
    BY <1>1
  <2>. QED  BY <2>1, <2>2, <1>2, <1>5, <1>7
<1>. QED  BY <1>9, <1>10, <1>11, <1>12

\* A step leaves nothing more to do than there was, and less of something.
UsesUp ==
  /\ RegionSteps' \subseteq RegionSteps
  /\ WorkerSteps' \subseteq WorkerSteps
  /\ ResultSteps' \subseteq ResultSteps
  /\ <<RegionSteps, WorkerSteps, ResultSteps>>' # <<RegionSteps, WorkerSteps, ResultSteps>>

\* Every step of Terraform does so.
LEMMA StepUsesUp == ASSUME IInv, Next, vars' # vars PROVE UsesUp
<1>. USE DEF UsesUp
<1>0. /\ TypeInv /\ PlaceInv /\ TurnInv
      /\ \A v \in Workers : todo[v] \in Nat /\ (Holding(v) => ChunksOf(region[v]) \in Nat)
  BY TurnsBound, NoneAssumption DEF IInv, TypeInv, PlaceInv
<1>1. ASSUME NEW w \in Workers, NextRegion(w) PROVE UsesUp
  <2>1. pc[w] = "next" /\ ResultSteps' = ResultSteps /\ todo' = todo
    BY <1>1 DEF NextRegion, ResultSteps
  <2>2. ASSUME NEW d \in NonEmpty, NEW r \in RegionsOf(d), Taken(w, d, r) PROVE UsesUp
    BY <1>0, <2>1, <2>2, TakeUsesUp
  <2>3. CASE pc' = [pc EXCEPT ![w] = "left"] /\ UNCHANGED <<queues, region>>
    <3>1. /\ TurnsLeft(w)' = 0 /\ TurnsLeft(w) = 1
          /\ \A v \in Workers \ {w} : TurnsLeft(v)' = TurnsLeft(v) /\ pc'[v] = pc[v]
          /\ StepsLeft[pc'[w]] = 0
      BY <1>0, <2>1, <2>3 DEF TurnsLeft, StepsLeft, TypeInv, ChunksOf
    <3>. QED  BY <1>0, <2>1, <2>3, <3>1, WorkerUsesUp
  <2>. QED  BY <1>0, <1>1, <2>2, <2>3, NextRegionEffect
<1>2. ASSUME NEW w \in Workers, UnlockRegion(w) PROVE UsesUp
  <2>1. /\ region' = region /\ todo' = todo /\ ResultSteps' = ResultSteps /\ pc[w] = "unlock"
        /\ pc' = [pc EXCEPT ![w] = "loop"]
        /\ \A e \in NonEmpty : queues'[e].done = queues[e].done
    BY <1>0, <1>2, UnlockEffect DEF UnlockRegion, ResultSteps
  <2>2. /\ TurnsLeft(w)' = 2 /\ TurnsLeft(w) = 3
        /\ \A v \in Workers \ {w} : TurnsLeft(v)' = TurnsLeft(v) /\ pc'[v] = pc[v]
        /\ StepsLeft[pc'[w]] = 2
    BY <1>0, <2>1 DEF TurnsLeft, StepsLeft, TypeInv, ChunksOf
  <2>. QED  BY <1>0, <2>1, <2>2, WorkerUsesUp
<1>3. ASSUME NEW w \in Workers, Inside(w) PROVE UsesUp
  <2>1. UNCHANGED <<queues, region, result>>
    BY <1>3, InsideUnchanged
  <2>2. \A v \in Workers \ {w} : pc'[v] = pc[v] /\ todo'[v] = todo[v]
    BY <1>0, <1>3 DEF Inside, TestOk, OpenRegion, DoChunk, ChunkFails, ChunksEnd, WriteRegion,
                      Goto, TypeInv
  <2>3. \A v \in Workers \ {w} : TurnsLeft(v)' = TurnsLeft(v)
    BY <2>1, <2>2 DEF TurnsLeft, ChunksOf
  <2>4. TurnsLeft(w)' \in Nat /\ TurnsLeft(w)' < TurnsLeft(w)
    <3>1. CASE TestOk(w)
      BY <1>0, <3>1 DEF TestOk, Goto, TypeInv, TurnsLeft, StepsLeft
    <3>2. CASE OpenRegion(w)
      <4>1. /\ pc[w] = "open" /\ ChunksOf(region[w]) \in Nat
            /\ TurnsLeft(w) = 6 + ChunksOf(region[w])
        BY <1>0, <3>2 DEF OpenRegion, Holding, TurnsLeft, StepsLeft
      <4>2. \/ pc'[w] = "chunks" /\ todo'[w] = ChunksOf(region[w])
            \/ pc'[w] = "left"
        BY <1>0, <3>2 DEF OpenRegion, Goto, TypeInv, ChunksOf, Dim, Pos
      <4>3. TurnsLeft(w)' = 5 + ChunksOf(region[w]) \/ TurnsLeft(w)' = 0
        BY <4>2 DEF TurnsLeft, StepsLeft
      <4>. QED  BY <4>1, <4>3
    <3>3. CASE DoChunk(w) \/ ChunkFails(w) \/ ChunksEnd(w)
      <4>1. pc[w] = "chunks" /\ todo[w] \in Nat /\ TurnsLeft(w) = 5 + todo[w]
        BY <1>0, <3>3 DEF DoChunk, ChunkFails, ChunksEnd, TurnsLeft, StepsLeft
      <4>2. \/ pc'[w] = "chunks" /\ todo'[w] = todo[w] - 1 /\ todo[w] > 0
            \/ pc'[w] = "write"
        BY <1>0, <3>3 DEF DoChunk, ChunkFails, ChunksEnd, Goto, TypeInv
      <4>3. (TurnsLeft(w)' = 5 + (todo[w] - 1) /\ todo[w] > 0) \/ TurnsLeft(w)' = 4
        BY <4>2 DEF TurnsLeft, StepsLeft
      <4>. QED  BY <4>1, <4>3
    <3>4. CASE WriteRegion(w)
      BY <1>0, <3>4 DEF WriteRegion, Goto, TypeInv, TurnsLeft, StepsLeft
    <3>. QED  BY <1>3, <3>1, <3>2, <3>3, <3>4 DEF Inside
  <2>5. region[w] = None => TurnsLeft(w)' = StepsLeft[pc'[w]]
    <3>1. ~Holding(w) => TestOk(w)
      BY <1>3 DEF Inside, TestOk, OpenRegion, DoChunk, ChunkFails, ChunksEnd, WriteRegion, Holding
    <3>2. Holding(w) => region[w] # None
      BY <1>0, NoneAssumption DEF PlaceInv
    <3>. QED  BY <1>0, <3>1, <3>2 DEF TestOk, Goto, TypeInv, TurnsLeft, StepsLeft
  <2>6. ResultSteps' = ResultSteps
    BY <2>1 DEF ResultSteps
  <2>. QED  BY <1>0, <2>1, <2>2, <2>3, <2>4, <2>5, <2>6, WorkerUsesUp
<1>4. ASSUME CancelFirst \/ Return PROVE UsesUp
  <2>1. /\ result = None /\ result' # None
        /\ UNCHANGED <<region, todo, queues>>
        /\ \A v \in Workers : pc'[v] = pc[v] \/ (pc[v] = "loop" /\ pc'[v] = "left")
    BY <1>4, <1>0, NoneAssumption DEF CancelFirst, Return, TypeInv
  <2>2. 1 \in ResultSteps /\ ResultSteps' = {}
    BY <2>1 DEF ResultSteps
  <2>3. \A v \in Workers : /\ TurnsLeft(v) \in Int /\ TurnsLeft(v)' \in Int
                            /\ TurnsLeft(v)' <= TurnsLeft(v)
                            /\ StepsLeft[pc[v]] \in Int /\ StepsLeft[pc'[v]] \in Int
                            /\ StepsLeft[pc'[v]] <= StepsLeft[pc[v]]
    <3>. SUFFICES ASSUME NEW v \in Workers
                  PROVE  /\ TurnsLeft(v) \in Int /\ TurnsLeft(v)' \in Int
                         /\ TurnsLeft(v)' <= TurnsLeft(v)
                         /\ StepsLeft[pc[v]] \in Int /\ StepsLeft[pc'[v]] \in Int
                         /\ StepsLeft[pc'[v]] <= StepsLeft[pc[v]]
      OBVIOUS
    <3>1. CASE pc'[v] = pc[v]
      <4>1. TurnsLeft(v)' = TurnsLeft(v) /\ TurnsLeft(v) \in Nat
        BY <1>0, <2>1, <3>1, TurnsBound DEF TurnsLeft, ChunksOf
      <4>2. StepsLeft[pc[v]] \in Int
        BY <1>0 DEF StepsLeft, TypeInv, Labels
      <4>. QED  BY <3>1, <4>1, <4>2
    <3>2. CASE pc[v] = "loop" /\ pc'[v] = "left"
      BY <3>2 DEF TurnsLeft, StepsLeft
    <3>. QED  BY <2>1, <3>1, <3>2
  <2>4. RegionSteps' \subseteq RegionSteps
    <3>. SUFFICES ASSUME NEW s \in RegionSteps' PROVE s \in RegionSteps
      OBVIOUS
    <3>1. s \in UNION {{r} \X (1 .. ChunksOf(r) + 7) : r \in Regions}
      BY DEF RegionSteps, ChunksOf
    <3>2. s[2] \in Int
      <4>1. \A r \in Regions : ChunksOf(r) \in Nat
        BY DimsAssumption DEF ChunksOf, Regions, RegionsOf
      <4>. QED  BY <3>1, <4>1
    <3>3. CASE s[1][2] \notin queues[s[1][1]].done
      BY <3>1, <3>3 DEF RegionSteps
    <3>4. ASSUME NEW v \in Workers, region[v] = s[1], s[2] <= TurnsLeft(v)'
          PROVE  s \in RegionSteps
      <4>1. s[2] <= TurnsLeft(v)
        BY <3>2, <3>4, <2>3
      <4>. QED  BY <3>1, <3>4, <4>1 DEF RegionSteps
    <3>. QED  BY <2>1, <3>3, <3>4 DEF RegionSteps
  <2>5. WorkerSteps' \subseteq WorkerSteps
    <3>. SUFFICES ASSUME NEW s \in WorkerSteps' PROVE s \in WorkerSteps
      OBVIOUS
    <3>1. s \in Workers \X (1 .. 2) /\ region[s[1]] = None /\ s[2] <= StepsLeft[pc'[s[1]]]
      BY <2>1 DEF WorkerSteps
    <3>2. s[2] <= StepsLeft[pc[s[1]]]
      BY <3>1, <2>3
    <3>. QED  BY <3>1, <3>2 DEF WorkerSteps
  <2>. QED  BY <2>2, <2>4, <2>5
<1>. QED  BY <1>1, <1>2, <1>3, <1>4 DEF Next, Step, Inside, Terminated

\* What is left to do is finite, and every step uses some of it up: Terraform
\* cannot go on for ever (toje-converter.cpp:231-340).
THEOREM StepsUsedUpHolds == SafeSpec => StepsUsedUp
<1>1. IInv /\ [Next]_vars => [UsesUp]_vars
  BY StepUsesUp
<1>. QED  BY <1>1, Invariance, PTL DEF SafeSpec, StepsUsedUp, UsesUp

\* There are finitely many of them: the sets are cut from products of constants.
LEMMA StepsAreFinite ==
  IsFiniteSet(RegionSteps) /\ IsFiniteSet(WorkerSteps) /\ IsFiniteSet(ResultSteps)
<1>0. \A n \in Nat : IsFiniteSet(1 .. n)
  BY FS_Interval
<1>1. IsFiniteSet(Regions)
  <2>1. ASSUME NEW d \in Dims PROVE IsFiniteSet({d} \X RegionsOf(d))
    BY DimsAssumption, FS_Singleton, FS_Product DEF RegionsOf
  <2>2. IsFiniteSet({{d} \X RegionsOf(d) : d \in Dims})
    <3>. DEFINE f == [d \in Dims |-> {d} \X RegionsOf(d)]
                Image == {{d} \X RegionsOf(d) : d \in Dims}
    <3>1. f \in Surjection(Dims, Image)
      BY DEF Surjection
    <3>. HIDE DEF f, Image
    <3>2. IsFiniteSet(Image)
      BY <3>1, DimsAssumption, FS_Surjection
    <3>. QED  BY <3>2 DEF Image
  <2>3. \A S \in {{d} \X RegionsOf(d) : d \in Dims} : IsFiniteSet(S)
    BY <2>1
  <2>. QED  BY <2>2, <2>3, FS_UNION DEF Regions
<1>2. ASSUME NEW r \in Regions PROVE IsFiniteSet({r} \X (1 .. ChunksOf(r) + 7))
  <2>1. ChunksOf(r) + 7 \in Nat
    BY DimsAssumption DEF ChunksOf, Regions, RegionsOf
  <2>. QED  BY <2>1, <1>0, FS_Singleton, FS_Product
<1>3. IsFiniteSet(UNION {{r} \X (1 .. ChunksOf(r) + 7) : r \in Regions})
  <2>1. IsFiniteSet({{r} \X (1 .. ChunksOf(r) + 7) : r \in Regions})
    <3>. DEFINE f == [r \in Regions |-> {r} \X (1 .. ChunksOf(r) + 7)]
                Image == {{r} \X (1 .. ChunksOf(r) + 7) : r \in Regions}
    <3>1. f \in Surjection(Regions, Image)
      BY DEF Surjection
    <3>. HIDE DEF f, Image
    <3>2. IsFiniteSet(Image)
      BY <3>1, <1>1, FS_Surjection
    <3>. QED  BY <3>2 DEF Image
  <2>2. \A S \in {{r} \X (1 .. ChunksOf(r) + 7) : r \in Regions} : IsFiniteSet(S)
    BY <1>2
  <2>. QED  BY <2>1, <2>2, FS_UNION
<1>4. RegionSteps \subseteq UNION {{r} \X (1 .. ChunksOf(r) + 7) : r \in Regions}
  BY DEF RegionSteps
<1>5. IsFiniteSet(1 .. 1) /\ IsFiniteSet(1 .. 2)
  BY <1>0
<1>6. IsFiniteSet(Workers \X (1 .. 2))
  BY <1>5, WorkersAssumption, FS_Product
<1>7. WorkerSteps \subseteq Workers \X (1 .. 2) /\ ResultSteps \subseteq 1 .. 1
  BY DEF WorkerSteps, ResultSteps
<1>. QED  BY <1>3, <1>4, <1>5, <1>6, <1>7, FS_Subset

\* A smaller part of a finite set has fewer members.
LEMMA FewerMembers ==
  ASSUME NEW S, NEW T, IsFiniteSet(S), T \subseteq S
  PROVE  /\ Cardinality(S) \in Nat /\ Cardinality(T) \in Nat
         /\ Cardinality(T) <= Cardinality(S)
         /\ T # S => Cardinality(T) < Cardinality(S)
<1>1. IsFiniteSet(T) /\ Cardinality(T) <= Cardinality(S)
      /\ (Cardinality(S) = Cardinality(T) => S = T)
  BY FS_Subset
<1>2. Cardinality(S) \in Nat /\ Cardinality(T) \in Nat
  BY <1>1, FS_CardinalityType
<1>. QED  BY <1>1, <1>2

\* A sum of three gets smaller with one of them, when none gets larger.
LEMMA SmallerSum ==
  ASSUME NEW a \in Nat, NEW b \in Nat, NEW c \in Nat,
         NEW x \in Nat, NEW y \in Nat, NEW z \in Nat,
         x <= a, y <= b, z <= c, x < a \/ y < b \/ z < c
  PROVE  a + b + c \in Nat /\ x + y + z \in Nat /\ x + y + z < a + b + c
  OBVIOUS

\* How many steps are left at most.
StepsRemaining == Cardinality(RegionSteps) + Cardinality(WorkerSteps) + Cardinality(ResultSteps)

\* A step leaves fewer of them.
FewerRemain ==
  /\ StepsRemaining \in Nat
  /\ StepsRemaining' \in Nat
  /\ StepsRemaining' < StepsRemaining

\* The number of steps left is a natural number that every step of every thread
\* makes smaller: Terraform makes at most as many steps as it starts with, whatever
\* the schedule, the failures and the answers of the progress callback
\* (toje-converter.cpp:231-340).
THEOREM StepsRunOut == SafeSpec => [][FewerRemain]_vars
<1>1. IInv /\ [Next]_vars => [FewerRemain]_vars
  <2>. SUFFICES ASSUME IInv, Next, vars' # vars
                PROVE  FewerRemain
    OBVIOUS
  <2>1. /\ RegionSteps' \subseteq RegionSteps
        /\ WorkerSteps' \subseteq WorkerSteps
        /\ ResultSteps' \subseteq ResultSteps
        /\ \/ RegionSteps' # RegionSteps
           \/ WorkerSteps' # WorkerSteps
           \/ ResultSteps' # ResultSteps
    BY StepUsesUp DEF UsesUp
  <2>2. IsFiniteSet(RegionSteps) /\ IsFiniteSet(WorkerSteps) /\ IsFiniteSet(ResultSteps)
    BY StepsAreFinite
  <2>3. /\ Cardinality(RegionSteps) \in Nat /\ Cardinality(RegionSteps') \in Nat
        /\ Cardinality(RegionSteps') <= Cardinality(RegionSteps)
        /\ RegionSteps' # RegionSteps => Cardinality(RegionSteps') < Cardinality(RegionSteps)
    BY <2>1, <2>2, FewerMembers
  <2>4. /\ Cardinality(WorkerSteps) \in Nat /\ Cardinality(WorkerSteps') \in Nat
        /\ Cardinality(WorkerSteps') <= Cardinality(WorkerSteps)
        /\ WorkerSteps' # WorkerSteps => Cardinality(WorkerSteps') < Cardinality(WorkerSteps)
    BY <2>1, <2>2, FewerMembers
  <2>5. /\ Cardinality(ResultSteps) \in Nat /\ Cardinality(ResultSteps') \in Nat
        /\ Cardinality(ResultSteps') <= Cardinality(ResultSteps)
        /\ ResultSteps' # ResultSteps => Cardinality(ResultSteps') < Cardinality(ResultSteps)
    BY <2>1, <2>2, FewerMembers
  <2>6. \/ Cardinality(RegionSteps') < Cardinality(RegionSteps)
        \/ Cardinality(WorkerSteps') < Cardinality(WorkerSteps)
        \/ Cardinality(ResultSteps') < Cardinality(ResultSteps)
    BY <2>1, <2>3, <2>4, <2>5
  <2>. QED  BY <2>3, <2>4, <2>5, <2>6, SmallerSum DEF StepsRemaining, FewerRemain
<1>. QED  BY <1>1, Invariance, PTL DEF SafeSpec
=============================================================================
