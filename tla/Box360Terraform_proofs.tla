---------------------- MODULE Box360Terraform_proofs ----------------------
(***************************************************************************)
(* Proofs about Box360Terraform for every grid, every set of workers and   *)
(* any number of chunks that cannot be read.  The inductive invariant IInv *)
(* has one part per idea:                                                  *)
(*   TypeOK       the types;                                               *)
(*   PlaceInv     what a worker holds was handed out;                      *)
(*   LockInv      squares of holders are disjoint, and are the locks;      *)
(*   UnreadInv    the file of a chunk that was not read is as it was;      *)
(*   FileInv      only chunks handed out are rewritten, nobody rereads;    *)
(*   WorkInv      what was handed out is rewritten or in somebody's hands; *)
(*   StayInv      chunks are left over only while a worker is left;        *)
(*   TurnInv      a chunk is the last one of one worker only;              *)
(*   ResultInv    a good result means that everybody left with ok set.     *)
(***************************************************************************)
EXTENDS Box360Terraform, FiniteSetTheorems, TLAPS

\* The square around a chunk, cut to the grid.
Square(c) ==
  {p \in Chunks : /\ Absolute(p[1] - c[1]) <= LockRadius
                  /\ Absolute(p[2] - c[2]) <= LockRadius}

PlaceInv == \A w \in Workers : Holding(w) => chunk[w] \in queue.done

LockInv ==
  /\ \A v, w \in Workers :
       v # w /\ Holding(v) /\ Holding(w) => Square(chunk[v]) \cap Square(chunk[w]) = {}
  /\ \A w \in Workers : Holding(w) => Square(chunk[w]) \subseteq queue.lock
  /\ ok => \A p \in queue.lock :
             \E w \in Workers : Holding(w) /\ p \in Square(chunk[w])

UnreadInv ==
  /\ unread \subseteq queue.done
  /\ \A c \in unread : file[c] = "input"
  /\ \A w \in Workers : pc[w] \in {"read", "write"} => chunk[w] \notin unread
  /\ poi \cap unread = {}
  /\ \A w \in Workers : pc[w] = "read" => chunk[w] \notin poi /\ file[chunk[w]] = "input"
  /\ poi \subseteq queue.done
  /\ \A c \in Chunks \ queue.done : file[c] = "input"

FileInv ==
  /\ \A c \in Chunks : file[c] = "terraformed" => c \in queue.done
  /\ \A w \in Workers : pc[w] \in {"read", "write"} => file[chunk[w]] # "terraformed"

WorkInv ==
  ok => \A c \in queue.done :
    /\ \/ c \in unread \/ file[c] = "terraformed"
       \/ \E w \in Workers : pc[w] \in {"read", "write"} /\ chunk[w] = c
    /\ \/ c \in poi \cup unread
       \/ \E w \in Workers : pc[w] \in {"read", "write", "merge"} /\ chunk[w] = c

StayInv == ok /\ queue.done # Chunks => \E w \in Workers : pc[w] # "left"

TurnInv ==
  /\ \A w \in Workers : chunk[w] # None => chunk[w] \in queue.done
  /\ \A v, w \in Workers : chunk[v] = chunk[w] => v = w \/ chunk[w] = None
  /\ \A w \in Workers : pc[w] \notin {"loop", "next", "left"} => chunk[w] # None

ResultInv == result \in {"pooled", "ok"} => ok /\ \A w \in Workers : pc[w] = "left"

IInv ==
  /\ TypeOK
  /\ PlaceInv
  /\ LockInv
  /\ UnreadInv
  /\ FileInv
  /\ WorkInv
  /\ StayInv
  /\ TurnInv
  /\ ResultInv

-----------------------------------------------------------------------------
\* A chunk is in its own square.
LEMMA InOwnSquare == \A c \in Chunks : c \in Square(c)
  BY SizeAssumption DEF Square, Chunks, Grid, Absolute, LockRadius

\* With the types the neighbourhood of the queue is the square.
LEMMA AroundIsSquare == ASSUME TypeOK, NEW c PROVE Around(queue, c) = Square(c)
  BY DEF TypeOK, Around, Square

\* next() hands out an available position.
LEMMA NextIsAvailable == ASSUME NEW q PROVE NextPosition(q) \subseteq Available(q)
  BY DEF NextPosition

\* What a step may do to the queue, in the terms of the invariant.

Taken(w) ==
  \E c \in Chunks \ queue.done :
    /\ Square(c) \cap queue.lock = {}
    /\ queue'.done = queue.done \cup {c}
    /\ queue'.lock = queue.lock \cup Square(c)
    /\ chunk' = [chunk EXCEPT ![w] = c]
    /\ pc' = [pc EXCEPT ![w] = "read"]

QueueType ==
  [cells : {Chunks}, lockRadius : {LockRadius}, done : SUBSET Chunks,
   lock : SUBSET Chunks, weight : {[c \in Chunks |-> 0]}]

\* Taking a chunk adds it to the done ones and its square to the locks.
LEMMA TakeEffect ==
  ASSUME TypeOK, NEW c \in Available(queue)
  PROVE  /\ c \in Chunks \ queue.done
         /\ Square(c) \cap queue.lock = {}
         /\ Take(queue, c).done = queue.done \cup {c}
         /\ Take(queue, c).lock = queue.lock \cup Square(c)
         /\ Take(queue, c) \in QueueType
<1>1. c \in Chunks \ queue.done /\ Around(queue, c) \cap queue.lock = {}
  BY DEF TypeOK, Available
<1>2. Around(queue, c) = Square(c)
  BY AroundIsSquare
<1>3. Square(c) \subseteq Chunks
  BY DEF Square
<1>4. queue \in QueueType
  BY DEF TypeOK, QueueType
<1>. QED  BY <1>1, <1>2, <1>3, <1>4 DEF Take, QueueType

\* Unlocking around a chunk removes its square from the locks.
LEMMA UnlockEffect ==
  ASSUME TypeOK, NEW c
  PROVE  /\ UnlockAround(queue, c).done = queue.done
         /\ UnlockAround(queue, c).lock = queue.lock \ Square(c)
         /\ UnlockAround(queue, c) \in QueueType
<1>1. Around(queue, c) = Square(c)
  BY AroundIsSquare
<1>2. queue \in QueueType
  BY DEF TypeOK, QueueType
<1>. QED  BY <1>1, <1>2 DEF UnlockAround, QueueType

\* NextChunk takes a chunk, or finds none and leaves.
LEMMA NextChunkEffect ==
  ASSUME TypeOK, NEW w \in Workers, NextChunk(w)
  PROVE  \/ Taken(w) /\ queue' \in QueueType
         \/ /\ Available(queue) = {}
            /\ pc' = [pc EXCEPT ![w] = "left"]
            /\ UNCHANGED <<queue, chunk>>
<1>1. CASE \E c \in NextPosition(queue) :
             /\ queue' = Take(queue, c)
             /\ chunk' = [chunk EXCEPT ![w] = c]
             /\ Goto(w, "read")
  <2>1. PICK c \in NextPosition(queue) :
             /\ queue' = Take(queue, c)
             /\ chunk' = [chunk EXCEPT ![w] = c]
             /\ Goto(w, "read")
    BY <1>1
  <2>2. c \in Available(queue)
    BY NextIsAvailable
  <2>. QED  BY <2>1, <2>2, TakeEffect DEF Taken, Goto
<1>2. CASE Available(queue) = {} /\ Goto(w, "left") /\ UNCHANGED <<queue, chunk>>
  BY <1>2 DEF Goto
<1>. QED  BY <1>1, <1>2 DEF NextChunk

-----------------------------------------------------------------------------
\* The initial states.
LEMMA InitInv == Init => IInv
<1>. SUFFICES ASSUME Init PROVE IInv
  OBVIOUS
<1>. USE NoneAssumption DEF Init, NewQueue, Holding
<1>1. TypeOK
  BY DEF TypeOK, Labels
<1>2. PlaceInv /\ LockInv /\ UnreadInv /\ FileInv /\ WorkInv
  BY DEF PlaceInv, LockInv, UnreadInv, FileInv, WorkInv
<1>3. StayInv
  BY WorkersAssumption DEF StayInv
<1>4. TurnInv /\ ResultInv
  BY DEF TurnInv, ResultInv
<1>. QED  BY <1>1, <1>2, <1>3, <1>4 DEF IInv

\* A step keeps the types.
LEMMA NextTypes == ASSUME TypeOK, PlaceInv, [Next]_vars PROVE TypeOK'
<1>. USE DEF TypeOK, Labels, Goto, Fail
<1>1. ASSUME NEW w \in Workers, TestOk(w) PROVE TypeOK'
  BY <1>1 DEF TestOk
<1>2. ASSUME NEW w \in Workers, NextChunk(w) PROVE TypeOK'
  BY <1>2, NextChunkEffect DEF NextChunk, Taken, QueueType
<1>3. ASSUME NEW w \in Workers, ReadChunk(w) PROVE TypeOK'
  <2>1. chunk[w] \in Chunks
    BY <1>3 DEF ReadChunk, PlaceInv, Holding
  <2>. QED  BY <1>3, <2>1 DEF ReadChunk
<1>4. ASSUME NEW w \in Workers, WriteChunk(w) PROVE TypeOK'
  BY <1>4 DEF WriteChunk
<1>5. ASSUME NEW w \in Workers, MergePoi(w) PROVE TypeOK'
  <2>1. chunk[w] \in Chunks
    BY <1>5 DEF MergePoi, PlaceInv, Holding
  <2>. QED  BY <1>5, <2>1 DEF MergePoi
<1>6. ASSUME NEW w \in Workers, UnlockChunk(w) PROVE TypeOK'
  <2>1. queue' \in QueueType
    BY <1>6, UnlockEffect DEF UnlockChunk
  <2>. QED  BY <1>6, <2>1 DEF UnlockChunk, QueueType
<1>7. ASSUME NEW w \in Workers, Report(w) PROVE TypeOK'
  <2>1. pc' \in [Workers -> Labels] /\ ok' \in BOOLEAN
    BY <1>7 DEF Report
  <2>2. count' \in Nat
    BY <1>7 DEF Report
  <2>. QED  BY <1>7, <2>1, <2>2 DEF Report
<1>8. ASSUME Join \/ WritePoi PROVE TypeOK'
  BY <1>8 DEF Join, WritePoi
<1>9. ASSUME UNCHANGED vars PROVE TypeOK'
  BY <1>9 DEF vars
<1>. QED  BY <1>1, <1>2, <1>3, <1>4, <1>5, <1>6, <1>7, <1>8, <1>9
            DEF Next, Step, Terminated

\* What is held was handed out.
LEMMA NextPlace ==
  ASSUME TypeOK, PlaceInv, [Next]_vars PROVE PlaceInv'
<1>. USE DEF TypeOK, PlaceInv, Holding, Goto, Fail
<1>1. ASSUME NEW w \in Workers, NextChunk(w) PROVE PlaceInv'
  <2>1. CASE Taken(w)
    BY <2>1 DEF Taken
  <2>2. CASE pc' = [pc EXCEPT ![w] = "left"] /\ UNCHANGED <<queue, chunk>>
    BY <2>2
  <2>. QED  BY <1>1, <2>1, <2>2, NextChunkEffect
<1>2. ASSUME NEW w \in Workers, ReadChunk(w) PROVE PlaceInv'
  BY <1>2 DEF ReadChunk
<1>3. ASSUME NEW w \in Workers, UnlockChunk(w) PROVE PlaceInv'
  <2>1. queue'.done = queue.done
    BY <1>3, UnlockEffect DEF UnlockChunk
  <2>. QED  BY <1>3, <2>1 DEF UnlockChunk
<1>4. ASSUME NEW w \in Workers,
             TestOk(w) \/ WriteChunk(w) \/ MergePoi(w) \/ Report(w)
      PROVE  PlaceInv'
  BY <1>4 DEF TestOk, WriteChunk, MergePoi, Report
<1>5. ASSUME Join \/ WritePoi \/ UNCHANGED vars PROVE PlaceInv'
  BY <1>5 DEF Join, WritePoi, vars
<1>. QED  BY <1>1, <1>2, <1>3, <1>4, <1>5 DEF Next, Step, Terminated

\* The squares of the holders stay disjoint and locked, and nothing else is.
LEMMA NextLock ==
  ASSUME TypeOK, PlaceInv, LockInv, [Next]_vars PROVE LockInv'
<1>. USE DEF TypeOK, LockInv, Holding
<1>1. ASSUME NEW w \in Workers, NextChunk(w) PROVE LockInv'
  <2>0. UNCHANGED ok
    BY <1>1 DEF NextChunk
  <2>1. CASE Taken(w)
    <3>1. PICK c \in Chunks \ queue.done :
            /\ Square(c) \cap queue.lock = {}
            /\ queue'.lock = queue.lock \cup Square(c)
            /\ chunk' = [chunk EXCEPT ![w] = c]
            /\ pc' = [pc EXCEPT ![w] = "read"]
      BY <2>1 DEF Taken
    <3>2. \A v \in Workers \ {w} : Holding(v)' => Holding(v) /\ chunk'[v] = chunk[v]
      BY <3>1
    <3>3. \A v \in Workers \ {w} :
            Holding(v)' => Square(chunk'[v]) \cap Square(chunk'[w]) = {}
      BY <3>1, <3>2
    <3>4. \A u, v \in Workers :
            u # v /\ Holding(u)' /\ Holding(v)' =>
              Square(chunk'[u]) \cap Square(chunk'[v]) = {}
      BY <3>2, <3>3
    <3>5. \A v \in Workers : Holding(v)' => Square(chunk'[v]) \subseteq queue'.lock
      BY <3>1, <3>2
    <3>6. ASSUME ok', NEW p \in queue'.lock
          PROVE  \E v \in Workers : Holding(v)' /\ p \in Square(chunk'[v])
      <4>1. CASE p \in Square(c)
        BY <4>1, <3>1
      <4>2. CASE p \in queue.lock
        <5>1. PICK v \in Workers : Holding(v) /\ p \in Square(chunk[v])
          BY <2>0, <3>6, <4>2
        <5>2. v # w
          BY <1>1, <5>1 DEF NextChunk
        <5>. QED  BY <5>1, <5>2, <3>1
      <4>. QED  BY <3>1, <3>6, <4>1, <4>2
    <3>. QED  BY <3>4, <3>5, <3>6
  <2>2. CASE pc' = [pc EXCEPT ![w] = "left"] /\ UNCHANGED <<queue, chunk>>
    BY <1>1, <2>0, <2>2 DEF NextChunk
  <2>. QED  BY <1>1, <2>1, <2>2, NextChunkEffect
<1>2. ASSUME NEW w \in Workers, UnlockChunk(w) PROVE LockInv'
  <2>1. queue'.lock = queue.lock \ Square(chunk[w]) /\ UNCHANGED <<chunk, ok>>
    BY <1>2, UnlockEffect DEF UnlockChunk
  <2>2. \A v \in Workers : Holding(v)' <=> Holding(v) /\ v # w
    BY <1>2 DEF UnlockChunk, Goto
  <2>3. Holding(w)
    BY <1>2 DEF UnlockChunk
  <2>4. \A v \in Workers : Holding(v)' => Square(chunk'[v]) \subseteq queue'.lock
    BY <2>1, <2>2, <2>3
  <2>5. ok' => \A p \in queue'.lock :
                 \E v \in Workers : Holding(v)' /\ p \in Square(chunk'[v])
    BY <2>1, <2>2, <2>3
  <2>. QED  BY <2>1, <2>2, <2>4, <2>5
<1>3. ASSUME NEW w \in Workers,
             TestOk(w) \/ ReadChunk(w) \/ WriteChunk(w) \/ MergePoi(w) \/ Report(w)
      PROVE  LockInv'
  <2>1. UNCHANGED <<queue, chunk>>
    BY <1>3 DEF TestOk, ReadChunk, WriteChunk, MergePoi, Report
  <2>2. \A v \in Workers : Holding(v)' => Holding(v)
    BY <1>3 DEF TestOk, ReadChunk, WriteChunk, MergePoi, Report, Goto, Fail
  <2>3. ok' => ok /\ \A v \in Workers : Holding(v) => Holding(v)'
    BY <1>3 DEF TestOk, ReadChunk, WriteChunk, MergePoi, Report, Goto, Fail
  <2>. QED  BY <2>1, <2>2, <2>3
<1>4. ASSUME Join \/ WritePoi \/ UNCHANGED vars PROVE LockInv'
  BY <1>4 DEF Join, WritePoi, vars
<1>. QED  BY <1>1, <1>2, <1>3, <1>4 DEF Next, Step, Terminated

\* Holders of one chunk are one worker.
LEMMA OneHolder ==
  ASSUME TypeOK, PlaceInv, LockInv, NEW v \in Workers, NEW w \in Workers,
         Holding(v), Holding(w), chunk[v] = chunk[w]
  PROVE  v = w
<1>1. chunk[v] \in Chunks
  BY DEF TypeOK, PlaceInv
<1>2. chunk[v] \in Square(chunk[v])
  BY <1>1, InOwnSquare
<1>. QED  BY <1>2 DEF LockInv

\* What was not read is not written, neither its file nor its points of interest.
LEMMA NextUnread ==
  ASSUME TypeOK, PlaceInv, LockInv, UnreadInv, [Next]_vars PROVE UnreadInv'
<1>. USE DEF TypeOK, UnreadInv, Goto, Fail
<1>0. \A v \in Workers : Holding(v) => chunk[v] \in queue.done /\ chunk[v] \in Chunks
  BY DEF PlaceInv
<1>1. ASSUME NEW w \in Workers, NextChunk(w) PROVE UnreadInv'
  <2>0. UNCHANGED <<file, unread, poi>> /\ pc[w] = "next"
    BY <1>1 DEF NextChunk
  <2>1. CASE Taken(w)
    BY <2>0, <2>1 DEF Taken
  <2>2. CASE pc' = [pc EXCEPT ![w] = "left"] /\ UNCHANGED <<queue, chunk>>
    BY <2>0, <2>2
  <2>. QED  BY <1>1, <2>1, <2>2, NextChunkEffect
<1>2. ASSUME NEW w \in Workers, ReadChunk(w) PROVE UnreadInv'
  <2>1. /\ chunk[w] \in queue.done /\ chunk[w] \in Chunks /\ pc[w] = "read"
        /\ UNCHANGED <<chunk, queue, poi>>
    BY <1>0, <1>2 DEF ReadChunk, Holding
  <2>2. ASSUME NEW v \in Workers, v # w, pc[v] \in {"read", "write"}
        PROVE  chunk[v] # chunk[w] /\ chunk[v] \in Chunks
    BY <1>0, <2>1, <2>2, OneHolder DEF Holding
  <2>3. CASE /\ unread' = unread \cup {chunk[w]} /\ UNCHANGED file
             /\ pc' = [pc EXCEPT ![w] = "merge"]
    BY <2>1, <2>2, <2>3
  <2>4. CASE /\ file' = [file EXCEPT ![chunk[w]] = "torn"] /\ UNCHANGED unread
             /\ pc' = [pc EXCEPT ![w] = "write"]
    BY <2>1, <2>2, <2>4
  <2>5. CASE pc' = [pc EXCEPT ![w] = "left"] /\ UNCHANGED <<file, unread>>
    BY <2>1, <2>5
  <2>. QED  BY <1>2, <2>3, <2>4, <2>5 DEF ReadChunk
<1>3. ASSUME NEW w \in Workers, WriteChunk(w) PROVE UnreadInv'
  <2>1. /\ chunk[w] \in queue.done /\ chunk[w] \in Chunks /\ chunk[w] \notin unread
        /\ pc[w] = "write" /\ UNCHANGED <<chunk, queue, poi, unread>>
    BY <1>0, <1>3 DEF WriteChunk, Holding
  <2>2. ASSUME NEW v \in Workers, v # w, pc[v] \in {"read", "write"}
        PROVE  chunk[v] # chunk[w] /\ chunk[v] \in Chunks
    BY <1>0, <2>1, <2>2, OneHolder DEF Holding
  <2>3. /\ \A c \in Chunks : c # chunk[w] => file'[c] = file[c]
        /\ \A v \in Workers \ {w} : pc'[v] = pc[v]
        /\ pc'[w] \notin {"read", "write"}
    BY <1>3 DEF WriteChunk
  <2>. QED  BY <2>1, <2>2, <2>3
<1>4. ASSUME NEW w \in Workers, MergePoi(w) PROVE UnreadInv'
  <2>1. /\ chunk[w] \in queue.done /\ chunk[w] \in Chunks /\ pc[w] = "merge"
        /\ UNCHANGED <<chunk, queue, file, unread>>
        /\ poi' = IF chunk[w] \in unread THEN poi ELSE poi \cup {chunk[w]}
        /\ pc' = [pc EXCEPT ![w] = "unlock"]
    BY <1>0, <1>4 DEF MergePoi, Holding
  <2>2. ASSUME NEW v \in Workers, v # w, pc[v] = "read" PROVE chunk[v] # chunk[w]
    BY <2>1, <2>2, OneHolder DEF Holding
  <2>. QED  BY <2>1, <2>2
<1>5. ASSUME NEW w \in Workers, UnlockChunk(w) PROVE UnreadInv'
  <2>1. queue'.done = queue.done
    BY <1>5, UnlockEffect DEF UnlockChunk
  <2>. QED  BY <1>5, <2>1 DEF UnlockChunk
<1>6. ASSUME NEW w \in Workers, TestOk(w) \/ Report(w) PROVE UnreadInv'
  BY <1>6 DEF TestOk, Report
<1>7. ASSUME Join \/ WritePoi \/ UNCHANGED vars PROVE UnreadInv'
  BY <1>7 DEF Join, WritePoi, vars
<1>. QED  BY <1>1, <1>2, <1>3, <1>4, <1>5, <1>6, <1>7 DEF Next, Step, Terminated

\* Nobody holds for reading or writing what has been rewritten.
LEMMA NextFile ==
  ASSUME TypeOK, PlaceInv, LockInv, FileInv, [Next]_vars PROVE FileInv'
<1>. USE DEF TypeOK, FileInv, Goto, Fail
<1>1. ASSUME NEW w \in Workers, NextChunk(w) PROVE FileInv'
  <2>0. UNCHANGED file
    BY <1>1 DEF NextChunk
  <2>1. CASE Taken(w)
    BY <2>0, <2>1 DEF Taken
  <2>2. CASE pc' = [pc EXCEPT ![w] = "left"] /\ UNCHANGED <<queue, chunk>>
    BY <2>0, <2>2
  <2>. QED  BY <1>1, <2>1, <2>2, NextChunkEffect
<1>2. ASSUME NEW w \in Workers, ReadChunk(w) PROVE FileInv'
  <2>1. chunk[w] \in queue.done /\ chunk[w] \in Chunks
    BY <1>2 DEF ReadChunk, PlaceInv, Holding
  <2>2. /\ UNCHANGED <<queue, chunk>>
        /\ \A c \in Chunks : file'[c] = "terraformed" => file[c] = "terraformed"
    BY <1>2, <2>1 DEF ReadChunk
  <2>3. \A v \in Workers \ {w} : pc'[v] = pc[v]
    BY <1>2 DEF ReadChunk
  <2>4. pc'[w] \in {"read", "write"} => file'[chunk[w]] # "terraformed"
    BY <1>2, <2>1 DEF ReadChunk
  <2>5. \A v \in Workers : pc[v] \in {"read", "write"} => chunk[v] \in Chunks
    BY DEF PlaceInv, Holding
  <2>. QED  BY <2>2, <2>3, <2>4, <2>5
<1>3. ASSUME NEW w \in Workers, WriteChunk(w) PROVE FileInv'
  <2>1. Holding(w) /\ chunk[w] \in queue.done /\ chunk[w] \in Chunks
    BY <1>3 DEF WriteChunk, PlaceInv, Holding
  <2>2. ASSUME NEW v \in Workers, v # w, pc[v] \in {"read", "write"}
        PROVE  chunk[v] # chunk[w]
    <3>1. Holding(v)
      BY <2>2 DEF Holding
    <3>. QED  BY <2>1, <2>2, <3>1, OneHolder
  <2>3. /\ UNCHANGED <<queue, chunk>>
        /\ \A c \in Chunks : c # chunk[w] => file'[c] = file[c]
    BY <1>3 DEF WriteChunk
  <2>4. \A v \in Workers \ {w} : pc'[v] = pc[v]
    BY <1>3 DEF WriteChunk
  <2>5. pc'[w] \notin {"read", "write"}
    BY <1>3 DEF WriteChunk
  <2>6. \A v \in Workers : pc[v] \in {"read", "write"} => chunk[v] \in Chunks
    BY DEF PlaceInv, Holding
  <2>. QED  BY <2>1, <2>2, <2>3, <2>4, <2>5, <2>6
<1>4. ASSUME NEW w \in Workers, UnlockChunk(w) PROVE FileInv'
  <2>1. queue'.done = queue.done
    BY <1>4, UnlockEffect DEF UnlockChunk
  <2>. QED  BY <1>4, <2>1 DEF UnlockChunk
<1>5. ASSUME NEW w \in Workers, TestOk(w) \/ MergePoi(w) \/ Report(w)
      PROVE  FileInv'
  BY <1>5 DEF TestOk, MergePoi, Report
<1>6. ASSUME Join \/ WritePoi \/ UNCHANGED vars PROVE FileInv'
  BY <1>6 DEF Join, WritePoi, vars
<1>. QED  BY <1>1, <1>2, <1>3, <1>4, <1>5, <1>6 DEF Next, Step, Terminated

\* While ok is set, what was handed out is in somebody's hands or complete.
LEMMA NextWork ==
  ASSUME TypeOK, PlaceInv, UnreadInv, WorkInv, [Next]_vars PROVE WorkInv'
<1>. USE DEF TypeOK, WorkInv, Goto, Fail
<1>1. ASSUME NEW w \in Workers, NextChunk(w) PROVE WorkInv'
  <2>0. UNCHANGED <<file, unread, poi, ok>> /\ pc[w] = "next"
    BY <1>1 DEF NextChunk
  <2>1. CASE Taken(w)
    BY <2>0, <2>1 DEF Taken
  <2>2. CASE pc' = [pc EXCEPT ![w] = "left"] /\ UNCHANGED <<queue, chunk>>
    BY <2>0, <2>2
  <2>. QED  BY <1>1, <2>1, <2>2, NextChunkEffect
<1>2. ASSUME NEW w \in Workers, ReadChunk(w) PROVE WorkInv'
  <2>1. chunk[w] \in Chunks
    BY <1>2 DEF ReadChunk, PlaceInv, Holding
  <2>2. CASE unread' = unread \cup {chunk[w]} /\ pc' = [pc EXCEPT ![w] = "merge"]
             /\ UNCHANGED <<file, ok>>
    BY <1>2, <2>1, <2>2 DEF ReadChunk
  <2>3. CASE file' = [file EXCEPT ![chunk[w]] = "torn"]
             /\ pc' = [pc EXCEPT ![w] = "write"] /\ UNCHANGED <<unread, ok>>
    BY <1>2, <2>1, <2>3 DEF ReadChunk
  <2>4. CASE ~ok'
    BY <2>4
  <2>. QED  BY <1>2, <2>2, <2>3, <2>4 DEF ReadChunk
<1>3. ASSUME NEW w \in Workers, WriteChunk(w) PROVE WorkInv'
  <2>1. chunk[w] \in Chunks
    BY <1>3 DEF WriteChunk, PlaceInv, Holding
  <2>2. CASE file' = [file EXCEPT ![chunk[w]] = "terraformed"]
             /\ pc' = [pc EXCEPT ![w] = "merge"] /\ UNCHANGED ok
    BY <1>3, <2>1, <2>2 DEF WriteChunk
  <2>3. CASE ~ok'
    BY <2>3
  <2>. QED  BY <1>3, <2>2, <2>3 DEF WriteChunk
<1>4. ASSUME NEW w \in Workers, MergePoi(w) PROVE WorkInv'
  <2>1. chunk[w] \in Chunks
    BY <1>4 DEF MergePoi, PlaceInv, Holding
  <2>. QED  BY <1>4, <2>1 DEF MergePoi
<1>5. ASSUME NEW w \in Workers, UnlockChunk(w) PROVE WorkInv'
  <2>1. queue'.done = queue.done
    BY <1>5, UnlockEffect DEF UnlockChunk
  <2>. QED  BY <1>5, <2>1 DEF UnlockChunk
<1>6. ASSUME NEW w \in Workers, TestOk(w) \/ Report(w) PROVE WorkInv'
  <2>1. UNCHANGED <<queue, chunk, file, unread, poi>> /\ (ok' => ok)
    BY <1>6 DEF TestOk, Report
  <2>2. \A v \in Workers : pc[v] \in {"read", "write", "merge"} => pc'[v] = pc[v]
    BY <1>6 DEF TestOk, Report
  <2>. QED  BY <2>1, <2>2
<1>7. ASSUME Join \/ WritePoi \/ UNCHANGED vars PROVE WorkInv'
  <2>1. UNCHANGED <<pc, queue, chunk, file, unread, poi, ok>>
    BY <1>7 DEF Join, WritePoi, vars
  <2>. QED  BY <2>1
<1>. QED  BY <1>1, <1>2, <1>3, <1>4, <1>5, <1>6, <1>7 DEF Next, Step, Terminated

\* When the last chunks are locked, the worker that holds the lock stays.
LEMMA NextStay ==
  ASSUME TypeOK, LockInv, StayInv, [Next]_vars PROVE StayInv'
<1>. USE DEF TypeOK, StayInv, Goto, Fail
<1>1. ASSUME NEW w \in Workers, NextChunk(w) PROVE StayInv'
  <2>1. CASE Taken(w)
    BY <2>1 DEF Taken
  <2>2. CASE Available(queue) = {} /\ pc' = [pc EXCEPT ![w] = "left"]
               /\ UNCHANGED <<queue, chunk>>
    <3>. SUFFICES ASSUME ok', queue'.done # Chunks
                  PROVE  \E v \in Workers : pc'[v] # "left"
      OBVIOUS
    <3>1. ok /\ pc[w] = "next"
      BY <1>1 DEF NextChunk
    <3>2. PICK c \in Chunks : c \notin queue.done
      BY <2>2
    <3>3. PICK p \in queue.lock : p \in Around(queue, c)
      BY <2>2, <3>2 DEF Available
    <3>4. PICK v \in Workers : Holding(v)
      BY <3>1, <3>3 DEF LockInv
    <3>. QED  BY <2>2, <3>1, <3>4 DEF Holding
  <2>. QED  BY <1>1, <2>1, <2>2, NextChunkEffect
<1>2. ASSUME NEW w \in Workers, UnlockChunk(w) PROVE StayInv'
  <2>1. queue'.done = queue.done
    BY <1>2, UnlockEffect DEF UnlockChunk
  <2>. QED  BY <1>2, <2>1 DEF UnlockChunk
<1>3. ASSUME NEW w \in Workers,
             TestOk(w) \/ ReadChunk(w) \/ WriteChunk(w) \/ MergePoi(w) \/ Report(w)
      PROVE  StayInv'
  <2>1. queue' = queue /\ pc[w] # "left"
    BY <1>3 DEF TestOk, ReadChunk, WriteChunk, MergePoi, Report
  <2>2. ok' => ok /\ pc'[w] # "left"
    BY <1>3 DEF TestOk, ReadChunk, WriteChunk, MergePoi, Report
  <2>. QED  BY <2>1, <2>2
<1>4. ASSUME Join \/ WritePoi \/ UNCHANGED vars PROVE StayInv'
  BY <1>4 DEF Join, WritePoi, vars
<1>. QED  BY <1>1, <1>2, <1>3, <1>4 DEF Next, Step, Terminated

\* Nothing happens behind the join.
LEMMA NextResult == ASSUME TypeOK, ResultInv, [Next]_vars PROVE ResultInv'
<1>. USE NoneAssumption DEF TypeOK, ResultInv
<1>1. ASSUME NEW w \in Workers, Step(w) PROVE ResultInv'
  <2>1. pc[w] # "left" /\ UNCHANGED result
    BY <1>1 DEF Step, TestOk, NextChunk, ReadChunk, WriteChunk, MergePoi,
                UnlockChunk, Report
  <2>. QED  BY <2>1
<1>2. ASSUME Join \/ WritePoi \/ UNCHANGED vars PROVE ResultInv'
  BY <1>2 DEF Join, WritePoi, vars
<1>. QED  BY <1>1, <1>2 DEF Next, Terminated

\* A chunk is handed out once, so that it is the last one of one worker only.
LEMMA NextTurn == ASSUME TypeOK, TurnInv, [Next]_vars PROVE TurnInv'
<1>. USE DEF TypeOK, Labels, TurnInv
<1>1. ASSUME NEW w \in Workers, NextChunk(w) PROVE TurnInv'
  <2>1. CASE Taken(w)
    BY <2>1, NoneAssumption DEF Taken
  <2>2. CASE pc' = [pc EXCEPT ![w] = "left"] /\ UNCHANGED <<queue, chunk>>
    BY <2>2
  <2>. QED  BY <1>1, <2>1, <2>2, NextChunkEffect
<1>2. ASSUME NEW w \in Workers, UnlockChunk(w) PROVE TurnInv'
  BY <1>2, UnlockEffect DEF UnlockChunk, Goto
<1>3. ASSUME NEW w \in Workers,
             TestOk(w) \/ ReadChunk(w) \/ WriteChunk(w) \/ MergePoi(w) \/ Report(w)
      PROVE  TurnInv'
  <2>1. UNCHANGED <<queue, chunk>>
    BY <1>3 DEF TestOk, ReadChunk, WriteChunk, MergePoi, Report
  <2>2. \A v \in Workers : pc'[v] \notin {"loop", "next", "left"} => pc[v] \notin {"loop", "next", "left"}
    BY <1>3 DEF TestOk, ReadChunk, WriteChunk, MergePoi, Report, Goto, Fail
  <2>. QED  BY <2>1, <2>2
<1>4. ASSUME Join \/ WritePoi \/ UNCHANGED vars PROVE TurnInv'
  BY <1>4 DEF Join, WritePoi, vars
<1>. QED  BY <1>1, <1>2, <1>3, <1>4 DEF Next, Step, Terminated

\* Every step keeps the inductive invariant.
LEMMA NextInv == IInv /\ [Next]_vars => IInv'
  BY NextTypes, NextPlace, NextLock, NextUnread, NextFile, NextWork, NextStay,
     NextTurn, NextResult DEF IInv

\* The inductive invariant holds in every state that can be reached.
THEOREM Invariance == SafeSpec => []IInv
  BY InitInv, NextInv, PTL DEF SafeSpec

-----------------------------------------------------------------------------
\* The variables keep their types.
THEOREM TypeCorrect == SafeSpec => []TypeOK
<1>1. IInv => TypeOK
  BY DEF IInv
<1>. QED  BY <1>1, Invariance, PTL

\* The squares of the workers are disjoint and are what is locked
\* (box360-terraform.cpp:69-89).
THEOREM LocksAreHeldHolds == SafeSpec => []LocksAreHeld
<1>1. IInv => LocksAreHeld
  <2>. SUFFICES ASSUME IInv PROVE LocksAreHeld
    OBVIOUS
  <2>1. \A c : Around(queue, c) = Square(c)
    BY AroundIsSquare DEF IInv
  <2>. QED  BY <2>1 DEF IInv, LockInv, LocksAreHeld
<1>. QED  BY <1>1, Invariance, PTL

\* No worker reads a chunk file while another one writes it
\* (box360-terraform.cpp:127-191).
THEOREM NoTornReadHolds == SafeSpec => []NoTornRead
<1>1. IInv => NoTornRead
  <2>. SUFFICES ASSUME IInv, NEW v \in Workers, NEW w \in Workers, v # w,
                       pc[v] = "write", pc[w] \in {"read", "write"}
                PROVE  chunk[v] \notin Around(queue, chunk[w])
    BY DEF NoTornRead
  <2>1. Holding(v) /\ Holding(w)
    BY DEF Holding
  <2>2. Square(chunk[v]) \cap Square(chunk[w]) = {}
    BY <2>1 DEF IInv, LockInv
  <2>3. chunk[v] \in Square(chunk[v])
    BY <2>1, InOwnSquare DEF IInv, TypeOK, PlaceInv
  <2>4. Around(queue, chunk[w]) = Square(chunk[w])
    BY AroundIsSquare DEF IInv
  <2>. QED  BY <2>2, <2>3, <2>4
<1>. QED  BY <1>1, Invariance, PTL

\* No chunk is left over behind locks nobody holds (box360-terraform.cpp:75-77).
THEOREM NoStrandedChunkHolds == SafeSpec => []NoStrandedChunk
<1>1. IInv => NoStrandedChunk
  BY DEF IInv, StayInv, NoStrandedChunk
<1>. QED  BY <1>1, Invariance, PTL

\* Ok means that every chunk that could be read was rewritten and its points of
\* interest merged, and that the others are untouched
\* (box360-terraform.cpp:111-114, 129-135).
THEOREM OkMeansTerraformedHolds == SafeSpec => []OkMeansTerraformed
<1>1. IInv => OkMeansTerraformed
  <2>. SUFFICES ASSUME IInv, result \in {"pooled", "ok"}
                PROVE  /\ \A c \in Chunks :
                            file[c] = IF c \in unread THEN "input" ELSE "terraformed"
                       /\ poi = Chunks \ unread
    BY DEF OkMeansTerraformed
  <2>1. ok /\ \A w \in Workers : pc[w] = "left"
    BY DEF IInv, ResultInv
  <2>2. queue.done = Chunks
    BY <2>1 DEF IInv, StayInv
  <2>3. \A c \in Chunks : /\ c \in unread \/ file[c] = "terraformed"
                         /\ c \in poi \cup unread
    BY <2>1, <2>2 DEF IInv, WorkInv
  <2>4. /\ \A c \in unread : file[c] = "input"
        /\ poi \cap unread = {} /\ poi \subseteq Chunks
    BY DEF IInv, TypeOK, UnreadInv
  <2>. QED  BY <2>3, <2>4
<1>. QED  BY <1>1, Invariance, PTL

\* No chunk is rewritten twice (box360-terraform.cpp:190).
THEOREM RewrittenOnceHolds == SafeSpec => RewrittenOnce
<1>1. IInv /\ [Next]_vars =>
        [\A c \in Chunks : file[c] = "terraformed" => file'[c] = "terraformed"]_vars
  <2>. SUFFICES ASSUME IInv, [Next]_vars, NEW c \in Chunks, file[c] = "terraformed"
                PROVE  file'[c] = "terraformed"
    OBVIOUS
  <2>. USE DEF IInv, TypeOK
  <2>1. ASSUME NEW w \in Workers, ReadChunk(w) PROVE file'[c] = "terraformed"
    BY <2>1 DEF ReadChunk, FileInv
  <2>2. ASSUME NEW w \in Workers, WriteChunk(w) PROVE file'[c] = "terraformed"
    BY <2>2 DEF WriteChunk
  <2>3. ASSUME UNCHANGED file PROVE file'[c] = "terraformed"
    BY <2>3
  <2>. QED  BY <2>1, <2>2, <2>3
              DEF Next, Step, TestOk, NextChunk, MergePoi, UnlockChunk, Report, Join,
                  WritePoi, Terminated, vars
<1>. QED  BY <1>1, Invariance, PTL DEF SafeSpec, RewrittenOnce

-----------------------------------------------------------------------------
\* A worker that goes on with its chunk, or looks for its first one, uses up one
\* of the steps it had left.
LEMMA WorkerUsesUp ==
  ASSUME TypeOK, TurnInv, NEW w \in Workers, NEW l \in Labels,
         pc' = [pc EXCEPT ![w] = l], StepsLeft[l] < StepsLeft[pc[w]],
         chunk' = chunk, queue'.done = queue.done
  PROVE  /\ ChunkSteps' \subseteq ChunkSteps /\ WorkerSteps' \subseteq WorkerSteps
         /\ <<ChunkSteps, WorkerSteps>>' # <<ChunkSteps, WorkerSteps>>
<1>. USE DEF TypeOK
<1>1. /\ StepsLeft \in [Labels -> 0 .. 7]
      /\ StepsLeft[l] \in 0 .. 7 /\ StepsLeft[pc[w]] \in 1 .. 7
  BY DEF StepsLeft, Labels
<1>2. \A v \in Workers : StepsLeft[pc'[v]] \in Int /\ StepsLeft[pc[v]] \in Int
                         /\ StepsLeft[pc'[v]] <= StepsLeft[pc[v]]
  BY <1>1
<1>3. ChunkSteps' \subseteq ChunkSteps
  <2>. SUFFICES ASSUME NEW s \in ChunkSteps' PROVE s \in ChunkSteps
    OBVIOUS
  <2>1. s \in Chunks \X (1 .. 8) /\ s[2] \in Int
    BY DEF ChunkSteps
  <2>2. CASE s[1] \notin queue.done
    BY <2>1, <2>2 DEF ChunkSteps
  <2>3. ASSUME NEW v \in Workers, chunk[v] = s[1], s[2] <= StepsLeft[pc'[v]]
        PROVE  s \in ChunkSteps
    BY <2>1, <2>3, <1>2 DEF ChunkSteps
  <2>. QED  BY <2>2, <2>3 DEF ChunkSteps
<1>4. WorkerSteps' \subseteq WorkerSteps
  BY <1>2 DEF WorkerSteps
<1>5. CASE chunk[w] = None
  <2>1. StepsLeft[pc[w]] \in 1 .. 2
    BY <1>1, <1>5 DEF TurnInv, StepsLeft, Labels
  <2>2. <<w, StepsLeft[pc[w]]>> \in WorkerSteps
    BY <2>1, <1>5 DEF WorkerSteps
  <2>3. <<w, StepsLeft[pc[w]]>> \notin WorkerSteps'
    BY <2>1, <1>1 DEF WorkerSteps
  <2>. QED  BY <1>3, <1>4, <2>2, <2>3
<1>6. CASE chunk[w] # None
  <2>1. chunk[w] \in Chunks /\ chunk[w] \in queue.done
        /\ \A v \in Workers : chunk[v] = chunk[w] => v = w
    BY <1>6 DEF TurnInv
  <2>2. <<chunk[w], StepsLeft[pc[w]]>> \in ChunkSteps
    BY <2>1, <1>1 DEF ChunkSteps
  <2>3. <<chunk[w], StepsLeft[pc[w]]>> \notin ChunkSteps'
    BY <2>1, <1>1 DEF ChunkSteps
  <2>. QED  BY <1>3, <1>4, <2>2, <2>3
<1>. QED  BY <1>5, <1>6

\* Taking a chunk uses up the first of its steps.
LEMMA TakeUsesUp ==
  ASSUME TypeOK, TurnInv, NEW w \in Workers, pc[w] = "next", Taken(w)
  PROVE  /\ ChunkSteps' \subseteq ChunkSteps /\ WorkerSteps' \subseteq WorkerSteps
         /\ ChunkSteps' # ChunkSteps
<1>. USE DEF TypeOK
<1>1. PICK c \in Chunks \ queue.done :
        /\ queue'.done = queue.done \cup {c}
        /\ chunk' = [chunk EXCEPT ![w] = c]
        /\ pc' = [pc EXCEPT ![w] = "read"]
  BY DEF Taken
<1>2. c # None /\ \A v \in Workers : chunk[v] # c
  BY NoneAssumption DEF TurnInv
<1>3. ChunkSteps' \subseteq ChunkSteps
  <2>. SUFFICES ASSUME NEW s \in ChunkSteps' PROVE s \in ChunkSteps
    OBVIOUS
  <2>1. s \in Chunks \X (1 .. 8)
    BY DEF ChunkSteps
  <2>2. CASE s[1] = c \/ s[1] \notin queue'.done
    BY <2>1, <2>2, <1>1 DEF ChunkSteps
  <2>3. ASSUME s[1] # c, NEW v \in Workers, chunk'[v] = s[1], s[2] <= StepsLeft[pc'[v]]
        PROVE  s \in ChunkSteps
    <3>1. v # w
      BY <2>3, <1>1
    <3>. QED  BY <3>1, <2>1, <2>3, <1>1 DEF ChunkSteps
  <2>. QED  BY <2>2, <2>3 DEF ChunkSteps
<1>4. WorkerSteps' \subseteq WorkerSteps
  <2>. SUFFICES ASSUME NEW s \in WorkerSteps' PROVE s \in WorkerSteps
    OBVIOUS
  <2>1. s \in Workers \X (1 .. 2) /\ chunk'[s[1]] = None /\ s[2] <= StepsLeft[pc'[s[1]]]
    BY DEF WorkerSteps
  <2>2. s[1] # w
    BY <2>1, <1>1, <1>2
  <2>. QED  BY <2>1, <2>2, <1>1 DEF WorkerSteps
<1>5. <<c, 8>> \in ChunkSteps
  BY DEF ChunkSteps
<1>6. <<c, 8>> \notin ChunkSteps'
  <2>1. \A v \in Workers : chunk'[v] = c => v = w
    BY <1>1, <1>2
  <2>2. StepsLeft[pc'[w]] = 7
    BY <1>1 DEF StepsLeft
  <2>. QED  BY <2>1, <2>2, <1>1 DEF ChunkSteps
<1>. QED  BY <1>3, <1>4, <1>5, <1>6

\* A step leaves nothing more to do than there was, and less of something.
UsesUp ==
  /\ ChunkSteps' \subseteq ChunkSteps
  /\ WorkerSteps' \subseteq WorkerSteps
  /\ ResultSteps' \subseteq ResultSteps
  /\ <<ChunkSteps, WorkerSteps, ResultSteps>>' # <<ChunkSteps, WorkerSteps, ResultSteps>>

\* Every step of the pass does so.
LEMMA StepUsesUp == ASSUME IInv, Next, vars' # vars PROVE UsesUp
<1>. USE DEF IInv, UsesUp
<1>1. ASSUME NEW w \in Workers, NextChunk(w) PROVE UsesUp
  <2>1. pc[w] = "next" /\ ResultSteps' = ResultSteps
    BY <1>1 DEF NextChunk, ResultSteps
  <2>2. CASE Taken(w)
    BY <2>1, <2>2, TakeUsesUp
  <2>3. CASE pc' = [pc EXCEPT ![w] = "left"] /\ UNCHANGED <<queue, chunk>>
    <3>1. "left" \in Labels /\ StepsLeft["left"] < StepsLeft[pc[w]]
      BY <2>1 DEF StepsLeft, Labels
    <3>2. chunk' = chunk /\ queue'.done = queue.done
      BY <2>3
    <3>. QED  BY <2>1, <2>3, <3>1, <3>2, WorkerUsesUp
  <2>. QED  BY <1>1, <2>2, <2>3, NextChunkEffect
<1>2. ASSUME NEW w \in Workers,
             \/ TestOk(w) \/ ReadChunk(w) \/ WriteChunk(w)
             \/ MergePoi(w) \/ UnlockChunk(w) \/ Report(w)
      PROVE  UsesUp
  <2>1. ResultSteps' = ResultSteps /\ chunk' = chunk /\ queue'.done = queue.done
    BY <1>2 DEF TestOk, ReadChunk, WriteChunk, MergePoi, UnlockChunk, Report, UnlockAround,
                ResultSteps, TypeOK
  <2>2. \E l \in Labels : pc' = [pc EXCEPT ![w] = l] /\ StepsLeft[l] < StepsLeft[pc[w]]
    BY <1>2 DEF TestOk, ReadChunk, WriteChunk, MergePoi, UnlockChunk, Report, Goto, Fail,
                StepsLeft, Labels
  <2>. QED  BY <2>1, <2>2, WorkerUsesUp
<1>3. ASSUME Join \/ WritePoi PROVE UsesUp
  <2>1. ChunkSteps' = ChunkSteps /\ WorkerSteps' = WorkerSteps
    BY <1>3 DEF Join, WritePoi, ChunkSteps, WorkerSteps
  <2>2. CASE Join
    <3>1. ResultSteps = {1, 2}
      BY <2>2 DEF Join, ResultSteps
    <3>2. ResultSteps' = {1} \/ ResultSteps' = {}
      BY <2>2, NoneAssumption DEF Join, ResultSteps
    <3>. QED  BY <2>1, <3>1, <3>2
  <2>3. CASE WritePoi
    <3>1. ResultSteps = {1}
      BY <2>3, NoneAssumption DEF WritePoi, ResultSteps
    <3>2. ResultSteps' = {}
      BY <2>3, NoneAssumption DEF WritePoi, ResultSteps
    <3>. QED  BY <2>1, <3>1, <3>2
  <2>. QED  BY <1>3, <2>2, <2>3
<1>. QED  BY <1>1, <1>2, <1>3 DEF Next, Step, Terminated

\* What is left to do is finite, and every step uses some of it up: the pass
\* cannot go on for ever (box360-terraform.cpp:67-97).
THEOREM StepsUsedUpHolds == SafeSpec => StepsUsedUp
<1>1. IInv /\ [Next]_vars => [UsesUp]_vars
  BY StepUsesUp
<1>. QED  BY <1>1, Invariance, PTL DEF SafeSpec, StepsUsedUp, UsesUp

\* There are finitely many of them: the sets are cut from products of constants.
LEMMA StepsAreFinite ==
  IsFiniteSet(ChunkSteps) /\ IsFiniteSet(WorkerSteps) /\ IsFiniteSet(ResultSteps)
<1>1. IsFiniteSet(1 .. 8) /\ IsFiniteSet(1 .. 2)
  <2>1. \A n \in Nat : IsFiniteSet(1 .. n)
    BY FS_Interval
  <2>. QED  BY <2>1
<1>2. IsFiniteSet(Chunks)
  <2>1. Chunks = (0 .. 0 + Width - 1) \X (0 .. 0 + Height - 1)
    BY DEF Chunks, Grid
  <2>2. IsFiniteSet(0 .. 0 + Width - 1) /\ IsFiniteSet(0 .. 0 + Height - 1)
    BY FS_Interval, SizeAssumption
  <2>. QED  BY <2>1, <2>2, FS_Product
<1>3. IsFiniteSet(Chunks \X (1 .. 8)) /\ IsFiniteSet(Workers \X (1 .. 2))
  BY <1>1, <1>2, WorkersAssumption, FS_Product
<1>4. ChunkSteps \subseteq Chunks \X (1 .. 8) /\ WorkerSteps \subseteq Workers \X (1 .. 2)
  BY DEF ChunkSteps, WorkerSteps
<1>5. ResultSteps \subseteq 1 .. 2
  BY DEF ResultSteps
<1>. QED  BY <1>1, <1>3, <1>4, <1>5, FS_Subset

\* A smaller part of a finite set has fewer members.
LEMMA FewerMembers ==
  ASSUME NEW S, NEW T, IsFiniteSet(S), T \subseteq S
  PROVE  /\ Cardinality(S) \in Nat /\ Cardinality(T) \in Nat
         /\ Cardinality(T) <= Cardinality(S)
         /\ T # S => Cardinality(T) < Cardinality(S)
<1>1. IsFiniteSet(T) /\ Cardinality(T) <= Cardinality(S)
      /\ (Cardinality(S) = Cardinality(T) => S = T)
  BY FS_Subset
<1>2. Cardinality(S) \in Nat /\ Cardinality(T) \in Nat
  BY <1>1, FS_CardinalityType
<1>. QED  BY <1>1, <1>2

\* A sum of three gets smaller with one of them, when none gets larger.
LEMMA SmallerSum ==
  ASSUME NEW a \in Nat, NEW b \in Nat, NEW c \in Nat,
         NEW x \in Nat, NEW y \in Nat, NEW z \in Nat,
         x <= a, y <= b, z <= c, x < a \/ y < b \/ z < c
  PROVE  a + b + c \in Nat /\ x + y + z \in Nat /\ x + y + z < a + b + c
  OBVIOUS

\* How many steps are left at most.
StepsRemaining == Cardinality(ChunkSteps) + Cardinality(WorkerSteps) + Cardinality(ResultSteps)

\* A step leaves fewer of them.
FewerRemain ==
  /\ StepsRemaining \in Nat
  /\ StepsRemaining' \in Nat
  /\ StepsRemaining' < StepsRemaining

\* The number of steps left is a natural number that every step of every thread
\* makes smaller: the pass makes at most as many steps as it starts with, whatever
\* the schedule, the failures and the answers of the progress callback
\* (box360-terraform.cpp:67-97).
THEOREM StepsRunOut == SafeSpec => [][FewerRemain]_vars
<1>1. IInv /\ [Next]_vars => [FewerRemain]_vars
  <2>. SUFFICES ASSUME IInv, Next, vars' # vars
                PROVE  FewerRemain
    OBVIOUS
  <2>1. /\ ChunkSteps' \subseteq ChunkSteps
        /\ WorkerSteps' \subseteq WorkerSteps
        /\ ResultSteps' \subseteq ResultSteps
        /\ \/ ChunkSteps' # ChunkSteps
           \/ WorkerSteps' # WorkerSteps
           \/ ResultSteps' # ResultSteps
    BY StepUsesUp DEF UsesUp
  <2>2. IsFiniteSet(ChunkSteps) /\ IsFiniteSet(WorkerSteps) /\ IsFiniteSet(ResultSteps)
    BY StepsAreFinite
  <2>3. /\ Cardinality(ChunkSteps) \in Nat /\ Cardinality(ChunkSteps') \in Nat
        /\ Cardinality(ChunkSteps') <= Cardinality(ChunkSteps)
        /\ ChunkSteps' # ChunkSteps => Cardinality(ChunkSteps') < Cardinality(ChunkSteps)
    BY <2>1, <2>2, FewerMembers
  <2>4. /\ Cardinality(WorkerSteps) \in Nat /\ Cardinality(WorkerSteps') \in Nat
        /\ Cardinality(WorkerSteps') <= Cardinality(WorkerSteps)
        /\ WorkerSteps' # WorkerSteps => Cardinality(WorkerSteps') < Cardinality(WorkerSteps)
    BY <2>1, <2>2, FewerMembers
  <2>5. /\ Cardinality(ResultSteps) \in Nat /\ Cardinality(ResultSteps') \in Nat
        /\ Cardinality(ResultSteps') <= Cardinality(ResultSteps)
        /\ ResultSteps' # ResultSteps => Cardinality(ResultSteps') < Cardinality(ResultSteps)
    BY <2>1, <2>2, FewerMembers
  <2>6. \/ Cardinality(ChunkSteps') < Cardinality(ChunkSteps)
        \/ Cardinality(WorkerSteps') < Cardinality(WorkerSteps)
        \/ Cardinality(ResultSteps') < Cardinality(ResultSteps)
    BY <2>1, <2>3, <2>4, <2>5
  <2>. QED  BY <2>3, <2>4, <2>5, <2>6, SmallerSum DEF StepsRemaining, FewerRemain
<1>. QED  BY <1>1, Invariance, PTL DEF SafeSpec
=============================================================================
