--------------------------- MODULE TojeTerraform ---------------------------
(***************************************************************************)
(* src/src/toje-converter.cpp, Terraform: the second pass of the Bedrock   *)
(* to Java conversion.  The first pass has left one region file per region *)
(* in a temporary directory of each dimension.  concurrency threads take   *)
(* regions from one Queue2d per dimension, the heaviest first, rewrite the *)
(* chunks of the region (leaves, light) reading its neighbours from the    *)
(* temporary directory, and write the region file of the output.           *)
(***************************************************************************)
EXTENDS Integers, FiniteSets, Queue2d

CONSTANTS
  Workers,              \* the threads, the caller included
  Dims,                 \* the dimensions, in the order of the map
  ChunksIn,             \* per dimension: how many chunks each of its regions has
  Faults,               \* "open", "chunk", "write" and "cancel": what can go wrong
  None                  \* no region

ASSUME WorkersAssumption == IsFiniteSet(Workers) /\ Workers # {}
ASSUME FaultsAssumption == Faults \subseteq {"open", "chunk", "write", "cancel"}
ASSUME DimsAssumption ==
  /\ Dims \subseteq Nat /\ IsFiniteSet(Dims) /\ DOMAIN ChunksIn = Dims
  /\ \A d \in Dims : DOMAIN ChunksIn[d] \subseteq Int \X Int
                       /\ IsFiniteSet(DOMAIN ChunksIn[d])
                       /\ \A r \in DOMAIN ChunksIn[d] : ChunksIn[d][r] \in Nat \ {0}

RegionsOf(d) == DOMAIN ChunksIn[d]
Regions == UNION {{d} \X RegionsOf(d) : d \in Dims}
NonEmpty == {d \in Dims : RegionsOf(d) # {}}

ASSUME NoneAssumption == None \notin Regions \cup {"ok", "error"}

VARIABLES
  pc,                   \* where each worker is
  region,               \* <<dimension, region>> each worker took last
  todo,                 \* the chunks of it that are not rewritten
  queues,               \* the Queue2d of each dimension, under mut
  out,                  \* the region files of the output
  ok,                   \* the shared flag
  done,                 \* chunks rewritten
  result                \* what Terraform returns

vars == <<pc, region, todo, queues, out, ok, done, result>>

\* The box around the regions of a dimension.
Least(S) == CHOOSE n \in S : \A m \in S : n <= m
Greatest(S) == CHOOSE n \in S : \A m \in S : m <= n
Box(R) ==
  LET xs == {r[1] : r \in R}
      zs == {r[2] : r \in R}
  IN  (Least(xs) .. Greatest(xs)) \X (Least(zs) .. Greatest(zs))

\* Every position of the box is set done, then the regions not done, each with
\* its number of chunks as its weight.
QueueOf(d) ==
  LET cells == Box(RegionsOf(d))
  IN  [NewQueue(cells, 0) EXCEPT
         !.done = cells \ RegionsOf(d),
         !.weight = [c \in cells |-> IF c \in RegionsOf(d) THEN ChunksIn[d][c] ELSE 0]]

Init ==
  /\ pc = [w \in Workers |-> "loop"]
  /\ region = [w \in Workers |-> None]
  /\ todo = [w \in Workers |-> 0]
  /\ queues = [d \in NonEmpty |-> QueueOf(d)]
  /\ out = [r \in Regions |-> "absent"]
  /\ ok = TRUE
  /\ done = 0
  /\ result = None

Goto(w, label) == pc' = [pc EXCEPT ![w] = label]
Dim(w) == region[w][1]
Pos(w) == region[w][2]

-----------------------------------------------------------------------------
\* reportTerraform(0, numChunks) answers false before any thread is started.
CancelFirst ==
  /\ "cancel" \in Faults
  /\ result = None
  /\ \A w \in Workers : pc[w] = "loop" /\ region[w] = None
  /\ result' = "error"
  /\ pc' = [w \in Workers |-> "left"]
  /\ UNCHANGED <<region, todo, queues, out, ok, done>>

\* while (ok)
TestOk(w) ==
  /\ pc[w] = "loop"
  /\ Goto(w, IF ok THEN "next" ELSE "left")
  /\ UNCHANGED <<region, todo, queues, out, ok, done, result>>

\* Mutant: a worker that finds no region in the first dimension leaves.
NextInFirst(w) ==
  /\ pc[w] = "next"
  /\ \E d \in NonEmpty :
       /\ \A e \in NonEmpty : d <= e
       /\ \/ \E r \in NextPosition(queues[d]) :
               /\ queues' = [queues EXCEPT ![d] = Take(@, r)]
               /\ region' = [region EXCEPT ![w] = <<d, r>>]
               /\ Goto(w, "open")
          \/ /\ Available(queues[d]) = {}
             /\ Goto(w, "left")
             /\ UNCHANGED <<queues, region>>
  /\ UNCHANGED <<todo, out, ok, done, result>>

\* Mutant: a worker that finds no region looks again instead of leaving.
NextRegionSpins(w) ==
  /\ pc[w] = "next"
  /\ \/ \E d \in NonEmpty :
          /\ \A e \in NonEmpty : e < d => Available(queues[e]) = {}
          /\ \E r \in NextPosition(queues[d]) :
               /\ queues' = [queues EXCEPT ![d] = Take(@, r)]
               /\ region' = [region EXCEPT ![w] = <<d, r>>]
          /\ Goto(w, "open")
     \/ /\ \A d \in NonEmpty : Available(queues[d]) = {}
        /\ Goto(w, "loop")
        /\ UNCHANGED <<queues, region>>
  /\ UNCHANGED <<todo, out, ok, done, result>>

\* Under mut: the first dimension whose queue hands out a region; none ends the
\* loop.
NextRegion(w) ==
  /\ pc[w] = "next"
  /\ \/ \E d \in NonEmpty :
          /\ \A e \in NonEmpty : e < d => Available(queues[e]) = {}
          /\ \E r \in NextPosition(queues[d]) :
               /\ queues' = [queues EXCEPT ![d] = Take(@, r)]
               /\ region' = [region EXCEPT ![w] = <<d, r>>]
          /\ Goto(w, "open")
     \/ /\ \A d \in NonEmpty : Available(queues[d]) = {}
        /\ Goto(w, "left")
        /\ UNCHANGED <<queues, region>>
  /\ UNCHANGED <<todo, out, ok, done, result>>

\* McaEditor::Open of the temporary region file; a failure leaves the loop with
\* the region still locked.
OpenRegion(w) ==
  /\ pc[w] = "open"
  /\ \/ /\ todo' = [todo EXCEPT ![w] = ChunksIn[Dim(w)][Pos(w)]]
        /\ Goto(w, "chunks")
        /\ UNCHANGED ok
     \/ /\ "open" \in Faults
        /\ ok' = FALSE
        /\ Goto(w, "left")
        /\ UNCHANGED todo
  /\ UNCHANGED <<region, queues, out, done, result>>

\* TerraformChunk for the next chunk of the region, and the progress report.
DoChunk(w) ==
  /\ pc[w] = "chunks"
  /\ todo[w] > 0
  /\ todo' = [todo EXCEPT ![w] = @ - 1]
  /\ done' = done + 1
  /\ \/ UNCHANGED <<pc, ok>>
     \/ "cancel" \in Faults /\ ok' = FALSE /\ Goto(w, "write")
  /\ UNCHANGED <<region, queues, out, result>>

\* TerraformChunk fails.
ChunkFails(w) ==
  /\ "chunk" \in Faults
  /\ pc[w] = "chunks"
  /\ todo[w] > 0
  /\ ok' = FALSE
  /\ Goto(w, "write")
  /\ UNCHANGED <<region, todo, queues, out, done, result>>

\* The chunks are done; or another thread has cleared ok, which is looked at
\* after every row of chunks (where a row ends is left open).
ChunksEnd(w) ==
  /\ pc[w] = "chunks"
  /\ todo[w] = 0 \/ ~ok
  /\ Goto(w, "write")
  /\ UNCHANGED <<region, todo, queues, out, ok, done, result>>

\* editor->write(mcaOut), whatever happened to the chunks.
WriteRegion(w) ==
  /\ pc[w] = "write"
  /\ \/ /\ out' = [out EXCEPT ![region[w]] =
                     IF todo[w] = 0 THEN "terraformed" ELSE "partial"]
        /\ UNCHANGED ok
     \/ /\ "write" \in Faults
        /\ out' = [out EXCEPT ![region[w]] = "partial"]
        /\ ok' = FALSE
  /\ Goto(w, "unlock")
  /\ UNCHANGED <<region, todo, queues, done, result>>

\* Mutant: the worker unlocks the region in the queue of another dimension.
UnlockElsewhere(w) ==
  /\ pc[w] = "unlock"
  /\ queues' = [d \in NonEmpty |-> Unlock(queues[d], IF d # Dim(w) THEN {Pos(w)} ELSE {})]
  /\ Goto(w, "loop")
  /\ UNCHANGED <<region, todo, out, ok, done, result>>

\* queues[dim]->unlock({region}) under mut.
UnlockRegion(w) ==
  /\ pc[w] = "unlock"
  /\ queues' = [queues EXCEPT ![Dim(w)] = Unlock(@, {Pos(w)})]
  /\ Goto(w, "loop")
  /\ UNCHANGED <<region, todo, out, ok, done, result>>

\* The threads are joined; reportTerraform(1, numChunks) may answer false.  The
\* flag ok is not looked at.
Return ==
  /\ result = None
  /\ \A w \in Workers : pc[w] = "left"
  /\ result' \in {"ok"} \cup {"error" : f \in Faults \cap {"cancel"}}
  /\ UNCHANGED <<pc, region, todo, queues, out, ok, done>>

\* Terraform has returned.
Terminated == result # None /\ UNCHANGED vars

Step(w) ==
  \/ TestOk(w)
  \/ NextRegion(w)
  \/ OpenRegion(w)
  \/ DoChunk(w)
  \/ ChunkFails(w)
  \/ ChunksEnd(w)
  \/ WriteRegion(w)
  \/ UnlockRegion(w)

Next ==
  \/ CancelFirst
  \/ \E w \in Workers : Step(w)
  \/ Return
  \/ Terminated

SafeSpec == Init /\ [][Next]_vars

\* Some thread that can run is run, and file operations return.
Spec == SafeSpec /\ WF_vars(Next)

-----------------------------------------------------------------------------
Holding(w) == pc[w] \in {"open", "chunks", "write", "unlock"}

\* Two workers never rewrite the same region at the same time, and the locks are
\* those of the regions being rewritten, as long as nothing has failed.
OneWorkerPerRegion ==
  /\ \A v, w \in Workers : v # w /\ Holding(v) /\ Holding(w) => region[v] # region[w]
  /\ \A w \in Workers : Holding(w) => Pos(w) \in queues[Dim(w)].lock
  /\ ok => \A d \in NonEmpty : \A r \in queues[d].lock :
             \E w \in Workers : Holding(w) /\ region[w] = <<d, r>>

\* If nothing failed, every region of every dimension is written completely by
\* the time Terraform returns, and nothing is locked any more.
AllTerraformed ==
  result = "ok" /\ ok =>
    /\ \A r \in Regions : out[r] = "terraformed"
    /\ \A d \in NonEmpty : queues[d].lock = {}

\* A region is written once: what has been rewritten is not read as input again.
WrittenOnce ==
  [][\A r \in Regions : out[r] # "absent" => out'[r] = out[r]]_vars

\* What is left to do: for a region the steps until its worker leaves or has taken
\* another one, one for each chunk among them; the first steps of a worker, which
\* has no region yet; the end.
StepsLeft ==
  [open |-> 6, chunks |-> 5, write |-> 4, unlock |-> 3, loop |-> 2, next |-> 1,
   left |-> 0]

ChunksOf(r) == ChunksIn[r[1]][r[2]]

TurnsLeft(w) ==
  StepsLeft[pc[w]] + (IF pc[w] = "open" THEN ChunksOf(region[w])
                      ELSE IF pc[w] = "chunks" THEN todo[w] ELSE 0)

RegionSteps ==
  {s \in UNION {{r} \X (1 .. ChunksOf(r) + 7) : r \in Regions} :
     \/ s[1][2] \notin queues[s[1][1]].done
     \/ \E w \in Workers : region[w] = s[1] /\ s[2] <= TurnsLeft(w)}

WorkerSteps ==
  {s \in Workers \X (1 .. 2) : region[s[1]] = None /\ s[2] <= StepsLeft[pc[s[1]]]}

ResultSteps == {n \in 1 .. 1 : result = None}

\* Every step uses something up for good, so that Terraform cannot go on for
\* ever: no worker comes back to the queues without having finished a region, and
\* no chunk or region is done again.
StepsUsedUp ==
  [][/\ RegionSteps' \subseteq RegionSteps
     /\ WorkerSteps' \subseteq WorkerSteps
     /\ ResultSteps' \subseteq ResultSteps
     /\ <<RegionSteps, WorkerSteps, ResultSteps>>' # <<RegionSteps, WorkerSteps, ResultSteps>>]_vars

\* Terraform returns, whatever fails or is cancelled.
Termination == <>(result # None)

\* "CHECK(st.ok());" and then "Compare initial Java input and final Java output."
\* (test/j2b2j.hpp:1044, 1046): Ok means that every region file was written.
OkMeansTerraformed ==
  result = "ok" => \A r \in Regions : out[r] = "terraformed"
=============================================================================
