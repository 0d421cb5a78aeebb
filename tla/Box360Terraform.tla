-------------------------- MODULE Box360Terraform --------------------------
(***************************************************************************)
(* src/src/box360-terraform.cpp: the pass that rewrites every chunk of a   *)
(* dimension after the Xbox 360 conversion.  concurrency threads take      *)
(* chunks from one Queue2d with lock radius 1, read the 3 x 3 files around *)
(* their chunk, rewrite the chunk's own file in place and merge the points *)
(* of interest found.  The first failure, or a progress callback that      *)
(* answers false, makes all threads stop at their next look at ok.         *)
(***************************************************************************)
EXTENDS Integers, FiniteSets, Queue2d

CONSTANTS
  Workers,              \* the threads that run the action, the caller included
  Width, Height,        \* the grid of chunks, 64 x 64 in the code
  MaxUnread,            \* bound: how many files may turn out absent or unreadable
  None                  \* no chunk yet, no result yet

ASSUME WorkersAssumption == IsFiniteSet(Workers) /\ Workers # {}
ASSUME SizeAssumption == Width \in Nat \ {0} /\ Height \in Nat \ {0}

LockRadius == 1
Chunks == Grid(<<0, 0>>, Width, Height)

ASSUME UnreadAssumption == MaxUnread \in Nat
ASSUME NoneAssumption == None \notin Chunks /\ None \notin {"ok", "error", "pooled"}

VARIABLES
  pc,                   \* where each worker is in the loop of action
  chunk,                \* the chunk each worker took last
  queue,                \* the Queue2d, under queueMut
  file,                 \* the state of each chunk's file
  unread,               \* history: the chunks whose file was absent or not readable
  poi,                  \* the chunks whose points of interest are merged
  count,                \* chunks counted for the progress report
  ok,                   \* the shared flag
  result                \* what MultiThread, then Do, returns

vars == <<pc, chunk, queue, file, unread, poi, count, ok, result>>

Labels == {"loop", "next", "read", "write", "merge", "unlock", "report", "left"}

TypeOK ==
  /\ pc \in [Workers -> Labels]
  /\ chunk \in [Workers -> Chunks \cup {None}]
  /\ queue \in [cells : {Chunks}, lockRadius : {LockRadius},
                done : SUBSET Chunks, lock : SUBSET Chunks,
                weight : {[c \in Chunks |-> 0]}]
  /\ file \in [Chunks -> {"input", "torn", "terraformed"}]
  /\ unread \subseteq Chunks
  /\ poi \subseteq Chunks
  /\ count \in Nat
  /\ ok \in BOOLEAN
  /\ result \in {None, "pooled", "ok", "error"}

Init ==
  /\ pc = [w \in Workers |-> "loop"]
  /\ chunk = [w \in Workers |-> None]
  /\ queue = NewQueue(Chunks, LockRadius)
  /\ file = [c \in Chunks |-> "input"]
  /\ unread = {}
  /\ poi = {}
  /\ count = 0
  /\ ok = TRUE
  /\ result = None

Goto(w, label) == pc' = [pc EXCEPT ![w] = label]

\* Mutant: the worker leaves the loop without clearing ok.
FailSilently(w) ==
  /\ ok' = ok
  /\ Goto(w, "left")

\* ok = false; break: the worker leaves the loop and counts the latch down.
\* What it locked stays locked.
Fail(w) ==
  /\ ok' = FALSE
  /\ Goto(w, "left")

-----------------------------------------------------------------------------
\* while (ok)
TestOk(w) ==
  /\ pc[w] = "loop"
  /\ Goto(w, IF ok THEN "next" ELSE "left")
  /\ UNCHANGED <<chunk, queue, file, unread, poi, count, ok, result>>

\* Mutant: the worker tries again when no position is handed out.
NextChunkSpins(w) ==
  /\ pc[w] = "next"
  /\ \/ \E c \in NextPosition(queue) :
          /\ queue' = Take(queue, c)
          /\ chunk' = [chunk EXCEPT ![w] = c]
          /\ Goto(w, "read")
     \/ /\ Available(queue) = {}
        /\ Goto(w, "loop")
        /\ UNCHANGED <<queue, chunk>>
  /\ UNCHANGED <<file, unread, poi, count, ok, result>>

\* queue.next() under queueMut; no position to hand out ends the loop.
NextChunk(w) ==
  /\ pc[w] = "next"
  /\ \/ \E c \in NextPosition(queue) :
          /\ queue' = Take(queue, c)
          /\ chunk' = [chunk EXCEPT ![w] = c]
          /\ Goto(w, "read")
     \/ /\ Available(queue) = {}
        /\ Goto(w, "left")
        /\ UNCHANGED <<queue, chunk>>
  /\ UNCHANGED <<file, unread, poi, count, ok, result>>

\* DoChunk up to the output stream: the chunk and its neighbours are read.
\* ReadCompressed returns null for a file that is not there as for one that is
\* damaged or cannot be opened: the chunk is left as it is and counts as done.
\* A file that holds no chunk fails; otherwise opening the output stream
\* truncates the file.
ReadChunk(w) ==
  /\ pc[w] = "read"
  /\ \/ /\ Cardinality(unread) < MaxUnread
        /\ unread' = unread \cup {chunk[w]}
        /\ Goto(w, "merge")
        /\ UNCHANGED <<file, ok>>
     \/ /\ file' = [file EXCEPT ![chunk[w]] = "torn"]
        /\ Goto(w, "write")
        /\ UNCHANGED <<unread, ok>>
     \/ /\ Fail(w)
        /\ UNCHANGED <<file, unread>>
  /\ UNCHANGED <<chunk, queue, poi, count, result>>

\* chunk->write(*output): it completes the file, or fails and leaves it as is.
WriteChunk(w) ==
  /\ pc[w] = "write"
  /\ \/ /\ file' = [file EXCEPT ![chunk[w]] = "terraformed"]
        /\ Goto(w, "merge")
        /\ UNCHANGED ok
     \/ /\ Fail(w)
        /\ UNCHANGED file
  /\ UNCHANGED <<chunk, queue, unread, poi, count, result>>

\* result->fPoi.mergeInto(poi) under joinMut.
MergePoi(w) ==
  /\ pc[w] = "merge"
  /\ poi' = IF chunk[w] \in unread THEN poi ELSE poi \cup {chunk[w]}
  /\ Goto(w, "unlock")
  /\ UNCHANGED <<chunk, queue, file, unread, count, ok, result>>

\* queue.unlockAround(result->fChunk) under queueMut.
UnlockChunk(w) ==
  /\ pc[w] = "unlock"
  /\ queue' = UnlockAround(queue, chunk[w])
  /\ Goto(w, "report")
  /\ UNCHANGED <<chunk, file, unread, poi, count, ok, result>>

\* The count and the progress callback, which may ask to stop.
Report(w) ==
  /\ pc[w] = "report"
  /\ count' = count + 1
  /\ \/ Goto(w, "loop") /\ UNCHANGED ok
     \/ Fail(w)
  /\ UNCHANGED <<chunk, queue, file, unread, poi, result>>

\* latch.wait(), the joins and the return of MultiThread.
Join ==
  /\ result = None
  /\ \A w \in Workers : pc[w] = "left"
  /\ result' = IF ok THEN "pooled" ELSE "error"
  /\ UNCHANGED <<pc, chunk, queue, file, unread, poi, count, ok>>

\* Do: poi.write, whose failure is an error of the pass.
WritePoi ==
  /\ result = "pooled"
  /\ result' \in {"ok", "error"}
  /\ UNCHANGED <<pc, chunk, queue, file, unread, poi, count, ok>>

Step(w) ==
  \/ TestOk(w)
  \/ NextChunk(w)
  \/ ReadChunk(w)
  \/ WriteChunk(w)
  \/ MergePoi(w)
  \/ UnlockChunk(w)
  \/ Report(w)

\* The pass has returned.
Terminated ==
  /\ result \in {"ok", "error"}
  /\ UNCHANGED vars

Next ==
  \/ \E w \in Workers : Step(w)
  \/ Join
  \/ WritePoi
  \/ Terminated

SafeSpec == Init /\ [][Next]_vars

\* Some thread that can run is run, and file operations return.  No fairness
\* between the threads is needed: none of them can loop without using up chunks.
Spec == SafeSpec /\ WF_vars(Next)

-----------------------------------------------------------------------------
\* The worker took a chunk and has not unlocked around it yet.
Holding(w) == pc[w] \in {"read", "write", "merge", "unlock"}

\* While a worker may read the files of its neighbourhood, no other worker has
\* any of them open for writing: nobody ever reads a half-written chunk.
NoTornRead ==
  \A v, w \in Workers :
    v # w /\ pc[v] = "write" /\ pc[w] \in {"read", "write"} =>
      chunk[v] \notin Around(queue, chunk[w])

\* As long as nothing failed the locked positions are exactly the disjoint
\* neighbourhoods of the workers that hold a chunk, so unlocking around one
\* chunk never unlocks a position another worker relies on.
LocksAreHeld ==
  /\ \A v, w \in Workers :
       v # w /\ Holding(v) /\ Holding(w) =>
         Around(queue, chunk[v]) \cap Around(queue, chunk[w]) = {}
  /\ \A w \in Workers : Holding(w) => Around(queue, chunk[w]) \subseteq queue.lock
  /\ ok => \A p \in queue.lock :
             \E w \in Workers : Holding(w) /\ p \in Around(queue, chunk[w])

\* A worker that finds every remaining chunk locked leaves for good.  Still, as
\* long as nothing failed, chunks are only left over while a worker is there
\* to take them: the last one to unlock comes back for them.
NoStrandedChunk ==
  ok /\ queue.done # Chunks => \E w \in Workers : pc[w] # "left"

\* The pass returns Ok only if every chunk that could be read was rewritten
\* completely and its points of interest are in the merged set, and every chunk
\* it could not read has its file as it was, none of it half written.
OkMeansTerraformed ==
  result \in {"pooled", "ok"} =>
    /\ \A c \in Chunks : file[c] = IF c \in unread THEN "input" ELSE "terraformed"
    /\ poi = Chunks \ unread

\* A chunk that has been rewritten is not opened for writing again: applying
\* the rewriting twice is not the same as once.
RewrittenOnce ==
  [][\A c \in Chunks : file[c] = "terraformed" => file'[c] = "terraformed"]_vars

\* What is left to do: for a chunk the steps until its worker leaves or has taken
\* another one; the first steps of a worker, which has no chunk yet; the end.
StepsLeft ==
  [read |-> 7, write |-> 6, merge |-> 5, unlock |-> 4, report |-> 3, loop |-> 2,
   next |-> 1, left |-> 0]

ChunkSteps ==
  {s \in Chunks \X (1 .. 8) :
     \/ s[1] \notin queue.done
     \/ \E w \in Workers : chunk[w] = s[1] /\ s[2] <= StepsLeft[pc[w]]}

WorkerSteps ==
  {s \in Workers \X (1 .. 2) : chunk[s[1]] = None /\ s[2] <= StepsLeft[pc[s[1]]]}

ResultSteps ==
  {n \in 1 .. 2 : result = None \/ (result = "pooled" /\ n = 1)}

\* Every step uses something up for good, so that the pass cannot go on for
\* ever: no worker comes back to the queue without having finished a chunk, and
\* none that has been handed out comes back to be done again.
StepsUsedUp ==
  [][/\ ChunkSteps' \subseteq ChunkSteps
     /\ WorkerSteps' \subseteq WorkerSteps
     /\ ResultSteps' \subseteq ResultSteps
     /\ <<ChunkSteps, WorkerSteps, ResultSteps>>' # <<ChunkSteps, WorkerSteps, ResultSteps>>]_vars

\* The pass returns, whichever chunk fails and whenever progress says stop.
Termination == <>(result \in {"ok", "error"})
=============================================================================
