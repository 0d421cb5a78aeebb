-------------------------- MODULE Parallel_proofs --------------------------
(***************************************************************************)
(* Proofs about Parallel for every number of works and every finite set of *)
(* helpers.  The inductive invariant IInv has one part per idea:           *)
(*   PlaceInv  which labels the caller and the helpers can be at;          *)
(*   ClaimInv  a claimed work is either in func, in one thread, or done;   *)
(*   ScanInv   what a thread has passed in its scan is claimed;            *)
(*   SumInv    each finished work of a Reduce is in one place;             *)
(*   OutInv    each finished work of a Map is at its own index;            *)
(*   LatchInv  the latch counts the threads still to count down.           *)
(***************************************************************************)
EXTENDS Parallel, FiniteSetTheorems, TLAPS

Uncounted == {"unborn", "spawn", "scan", "run", "join", "count"}

Types ==
  /\ call \in {"Map", "Reduce"}
  /\ pc \in [Threads -> {"unborn", "spawn", "scan", "run", "join", "count",
                         "exiting", "exited", "wait", "threadjoin",
                         "returned"}]
  /\ done \in [Works -> BOOLEAN]
  /\ at \in [Threads -> 0 .. NWorks]
  /\ sum \in [Threads -> [Works -> Nat]]
  /\ total \in [Works -> Nat]
  /\ out \in [Works -> Works \cup {NoResult}]
  /\ runs \in [Works -> Nat]

PlaceInv ==
  /\ pc[Caller] \notin {"unborn", "exiting", "exited"}
  /\ \A t \in Helpers : pc[t] \notin {"spawn", "wait", "threadjoin", "returned"}
  /\ pc[Caller] # "spawn" => \A t \in Helpers : pc[t] # "unborn"
  /\ pc[Caller] = "returned" => \A t \in Helpers : pc[t] = "exited"
  /\ call = "Map" => \A t \in Threads : pc[t] # "join"

ClaimInv ==
  /\ \A t \in Threads :
       pc[t] = "run" => at[t] \in Works /\ done[at[t]] /\ runs[at[t]] = 0
  /\ \A t, u \in Threads :
       pc[t] = "run" /\ pc[u] = "run" /\ at[t] = at[u] => t = u
  /\ \A w \in Works :
       /\ runs[w] \in {0, 1}
       /\ runs[w] = 1 => done[w]
       /\ done[w] => runs[w] = 1 \/ \E t \in Threads : Running(t, w)

ScanInv ==
  \A t \in Threads :
    /\ pc[t] \in {"unborn", "spawn"} => at[t] = 0
    /\ pc[t] = "scan" => \A w \in Works : w < at[t] => done[w]
    /\ pc[t] \notin {"unborn", "spawn", "scan", "run"} => \A w \in Works : done[w]

SumInv ==
  /\ \A t \in Threads : pc[t] \in {"unborn", "spawn"} => \A w \in Works : sum[t][w] = 0
  /\ \A w \in Works :
       /\ total[w] \in {0, 1}
       /\ total[w] = 1 => runs[w] = 1
       /\ \A t \in Threads : sum[t][w] \in {0, 1} /\ (sum[t][w] = 1 => runs[w] = 1)
       /\ \A t \in Threads : Pending(t) /\ sum[t][w] = 1 => total[w] = 0
       /\ \A t, u \in Threads :
            Pending(t) /\ Pending(u) /\ sum[t][w] = 1 /\ sum[u][w] = 1 => t = u
       /\ call = "Reduce" /\ runs[w] = 1 =>
            total[w] = 1 \/ \E t \in Threads : Pending(t) /\ sum[t][w] = 1

OutInv == call = "Map" => \A w \in Works : runs[w] = 1 => out[w] = w

LatchInv == latch = Cardinality({t \in Threads : pc[t] \in Uncounted})

IInv ==
  /\ Types
  /\ PlaceInv
  /\ ClaimInv
  /\ ScanInv
  /\ SumInv
  /\ OutInv
  /\ LatchInv

USE NWorksAssumption, NoResultAssumption

-----------------------------------------------------------------------------
\* The threads are finitely many, so the latch can count them.
LEMMA ThreadsFinite ==
  /\ IsFiniteSet(Threads)
  /\ Cardinality(Threads) = Concurrency
  /\ \A S \in SUBSET Threads : IsFiniteSet(S) /\ Cardinality(S) \in Nat
<1>1. IsFiniteSet(Threads) /\ Cardinality(Threads) = Cardinality(Helpers) + 1
  BY ThreadsAssumption, FS_AddElement DEF Threads
<1>2. ASSUME NEW S \in SUBSET Threads
      PROVE  IsFiniteSet(S) /\ Cardinality(S) \in Nat
  BY <1>1, FS_Subset, FS_CardinalityType
<1>. QED  BY <1>1, <1>2 DEF Concurrency

LEMMA InitInv == Init => IInv
<1>. SUFFICES ASSUME Init PROVE IInv
  OBVIOUS
<1>. USE DEF Init, Zero, Threads, Works
<1>1. Types
  BY DEF Types
<1>2. PlaceInv
  BY ThreadsAssumption DEF PlaceInv
<1>3. ClaimInv /\ ScanInv /\ OutInv
  BY DEF ClaimInv, ScanInv, OutInv, Running
<1>4. SumInv
  BY DEF SumInv, Pending
<1>5. LatchInv
  <2>1. {t \in Threads : pc[t] \in Uncounted} = Threads
    BY DEF Uncounted
  <2>. QED  BY <2>1, ThreadsFinite DEF LatchInv
<1>. QED  BY <1>1, <1>2, <1>3, <1>4, <1>5 DEF IInv

\* The types are preserved by every step.
LEMMA NextTypes == Types /\ PlaceInv /\ ClaimInv /\ [Next]_vars => Types'
<1>. SUFFICES ASSUME Types, PlaceInv, ClaimInv, [Next]_vars PROVE Types'
  OBVIOUS
<1>. USE DEF Types, Goto, Threads
<1>1. ASSUME NEW t \in Helpers, Spawn(t) PROVE Types'
  BY <1>1 DEF Spawn
<1>2. CASE CallerActs
  BY <1>2 DEF CallerActs
<1>3. ASSUME NEW t \in Threads, ClaimLocked(t) PROVE Types'
  <2>1. CASE Goto(t, "count") /\ UNCHANGED <<done, at>>
    BY <1>3, <2>1 DEF ClaimLocked
  <2>2. ASSUME NEW index \in Works,
               done' = [done EXCEPT ![index] = TRUE],
               at' = [at EXCEPT ![t] = index],
               Goto(t, "run")
        PROVE  Types'
    BY <1>3, <2>2 DEF ClaimLocked, Works
  <2>. QED  BY <1>3, <2>1, <2>2 DEF ClaimLocked
<1>4. ASSUME NEW t \in Threads, CompareExchange(t) PROVE Types'
  <2>1. CASE ~done[at[t]]
    BY <1>4, <2>1 DEF CompareExchange
  <2>2. CASE done[at[t]]
    <3>1. at[t] + 1 \in 0 .. NWorks
      BY <1>4 DEF CompareExchange, Works
    <3>. QED  BY <1>4, <2>2, <3>1 DEF CompareExchange
  <2>. QED  BY <2>1, <2>2
<1>5. ASSUME NEW t \in Threads, ScanEnds(t) PROVE Types'
  BY <1>5 DEF ScanEnds
<1>6. ASSUME NEW t \in Threads, RunFunc(t) PROVE Types'
  <2>1. at[t] \in Works
    BY <1>6 DEF RunFunc, ClaimInv
  <2>2. runs' \in [Works -> Nat]
    BY <1>6, <2>1 DEF RunFunc
  <2>3. sum' \in [Threads -> [Works -> Nat]]
    BY <1>6, <2>1 DEF RunFunc, Join, One
  <2>. QED  BY <1>6, <2>1, <2>2, <2>3 DEF RunFunc
<1>7. ASSUME NEW t \in Threads, JoinSum(t) PROVE Types'
  BY <1>7 DEF JoinSum, Join
<1>8. ASSUME NEW t \in Threads, CountDown(t) PROVE Types'
  BY <1>8 DEF CountDown
<1>9. ASSUME NEW t \in Threads, ThreadExits(t) PROVE Types'
  BY <1>9 DEF ThreadExits
<1>10. CASE LatchOpens
  BY <1>10 DEF LatchOpens
<1>11. CASE Return
  BY <1>11 DEF Return
<1>12. CASE UNCHANGED vars
  BY <1>12 DEF vars
<1>. QED
  BY <1>1, <1>2, <1>3, <1>4, <1>5, <1>6, <1>7, <1>8, <1>9, <1>10, <1>11, <1>12
  DEF Next, Act, Terminated

\* A helper is never at a label of the caller, nor the caller at one of theirs.
LEMMA NextPlace == Types /\ PlaceInv /\ [Next]_vars => PlaceInv'
<1>. SUFFICES ASSUME Types, PlaceInv, [Next]_vars PROVE PlaceInv'
  OBVIOUS
<1>. USE ThreadsAssumption DEF Types, PlaceInv, Goto, Threads
<1>1. ASSUME NEW t \in Helpers, Spawn(t) PROVE PlaceInv'
  BY <1>1 DEF Spawn
<1>2. CASE CallerActs
  BY <1>2 DEF CallerActs
<1>3. ASSUME NEW t \in Threads, ClaimLocked(t) PROVE PlaceInv'
  <2>1. call' = call /\ pc[t] = "scan" /\ (Goto(t, "run") \/ Goto(t, "count"))
    BY <1>3 DEF ClaimLocked
  <2>. QED  BY <2>1
<1>4. ASSUME NEW t \in Threads, CompareExchange(t) PROVE PlaceInv'
  <2>1. call' = call /\ pc[t] = "scan" /\ (Goto(t, "run") \/ pc' = pc)
    BY <1>4 DEF CompareExchange
  <2>. QED  BY <2>1
<1>5. ASSUME NEW t \in Threads, ScanEnds(t) PROVE PlaceInv'
  BY <1>5 DEF ScanEnds
<1>6. ASSUME NEW t \in Threads, RunFunc(t) PROVE PlaceInv'
  BY <1>6 DEF RunFunc
<1>7. ASSUME NEW t \in Threads, JoinSum(t) PROVE PlaceInv'
  BY <1>7 DEF JoinSum
<1>8. ASSUME NEW t \in Threads, CountDown(t) PROVE PlaceInv'
  BY <1>8 DEF CountDown
<1>9. ASSUME NEW t \in Threads, ThreadExits(t) PROVE PlaceInv'
  BY <1>9 DEF ThreadExits
<1>10. CASE LatchOpens
  BY <1>10 DEF LatchOpens
<1>11. CASE Return
  BY <1>11 DEF Return
<1>12. CASE UNCHANGED vars
  BY <1>12 DEF vars
<1>. QED
  BY <1>1, <1>2, <1>3, <1>4, <1>5, <1>6, <1>7, <1>8, <1>9, <1>10, <1>11, <1>12
  DEF Next, Act, Terminated

-----------------------------------------------------------------------------
\* What a step can do to the claims: nothing, claim a work, pass a claimed
\* work, or finish one.  The invariants below look at a step this way.
Quiet ==
  /\ UNCHANGED <<call, done, at, sum, total, out, runs>>
  /\ \A t \in Threads : pc'[t] = "run" <=> pc[t] = "run"

Claims(t, w) ==
  /\ pc[t] = "scan"
  /\ ~done[w]
  /\ \A j \in Works : j < w => done[j]
  /\ done' = [done EXCEPT ![w] = TRUE]
  /\ at' = [at EXCEPT ![t] = w]
  /\ Goto(t, "run")
  /\ UNCHANGED <<call, sum, total, out, latch, runs>>

Passes(t) ==
  /\ pc[t] = "scan"
  /\ at[t] \in Works
  /\ done[at[t]]
  /\ at' = [at EXCEPT ![t] = at[t] + 1]
  /\ UNCHANGED <<call, pc, done, sum, total, out, latch, runs>>

LEMMA StepShape ==
  ASSUME Types, PlaceInv, ScanInv, [Next]_vars
  PROVE  \/ Quiet
         \/ \E t \in Threads, w \in Works : Claims(t, w)
         \/ \E t \in Threads : Passes(t)
         \/ \E t \in Threads : RunFunc(t)
         \/ \E t \in Threads : JoinSum(t)
<1>. USE DEF Types, Goto, Threads
<1>1. ASSUME NEW t \in Helpers, Spawn(t) PROVE Quiet
  BY <1>1 DEF Spawn, Quiet
<1>2. CASE CallerActs
  BY <1>2 DEF CallerActs, Quiet
<1>3. ASSUME NEW t \in Threads, ClaimLocked(t)
      PROVE  Quiet \/ \E w \in Works : Claims(t, w)
  <2>1. CASE Goto(t, "count") /\ UNCHANGED <<done, at>>
    BY <1>3, <2>1 DEF ClaimLocked, Quiet
  <2>2. ASSUME NEW w \in Works,
               ~done[w], \A j \in Works : j < w => done[j],
               done' = [done EXCEPT ![w] = TRUE],
               at' = [at EXCEPT ![t] = w],
               Goto(t, "run")
        PROVE  Claims(t, w)
    BY <1>3, <2>2 DEF ClaimLocked, Claims
  <2>. QED  BY <1>3, <2>1, <2>2 DEF ClaimLocked
<1>4. ASSUME NEW t \in Threads, CompareExchange(t)
      PROVE  Passes(t) \/ \E w \in Works : Claims(t, w)
  <2>1. CASE done[at[t]]
    BY <1>4, <2>1 DEF CompareExchange, Passes
  <2>2. CASE ~done[at[t]]
    <3>1. at' = [at EXCEPT ![t] = at[t]]
      BY <1>4, <2>2 DEF CompareExchange
    <3>. QED  BY <1>4, <2>2, <3>1 DEF CompareExchange, Claims, ScanInv
  <2>. QED  BY <2>1, <2>2
<1>5. ASSUME NEW t \in Threads, ScanEnds(t) PROVE Quiet
  BY <1>5 DEF ScanEnds, Quiet
<1>6. ASSUME NEW t \in Threads, CountDown(t) PROVE Quiet
  BY <1>6 DEF CountDown, Quiet
<1>7. ASSUME NEW t \in Threads, ThreadExits(t) PROVE Quiet
  BY <1>7 DEF ThreadExits, Quiet
<1>8. CASE LatchOpens
  BY <1>8 DEF LatchOpens, Quiet
<1>9. CASE Return
  BY <1>9 DEF Return, Quiet
<1>10. CASE UNCHANGED vars
  BY <1>10 DEF vars, Quiet
<1>. QED
  BY <1>1, <1>2, <1>3, <1>4, <1>5, <1>6, <1>7, <1>8, <1>9, <1>10
  DEF Next, Act, Terminated

LEMMA NextClaim ==
  ASSUME Types, Types', PlaceInv, ClaimInv, ScanInv, [Next]_vars
  PROVE  ClaimInv'
<1>. USE DEF Types, Goto
<1>1. CASE Quiet
  BY <1>1 DEF Quiet, ClaimInv, Running
<1>2. ASSUME NEW t \in Threads, NEW w \in Works, Claims(t, w)
      PROVE  ClaimInv'
  <2>1. runs[w] = 0 /\ \A u \in Threads : ~Running(u, w)
    BY <1>2 DEF Claims, ClaimInv, Running
  <2>2. /\ pc'[t] = "run" /\ at'[t] = w
        /\ \A u \in Threads \ {t} : pc'[u] = pc[u] /\ at'[u] = at[u]
        /\ runs' = runs
    BY <1>2 DEF Claims
  <2>3. done'[w] /\ \A v \in Works \ {w} : done'[v] = done[v]
    BY <1>2 DEF Claims
  <2>4. \A u \in Threads :
          pc'[u] = "run" => at'[u] \in Works /\ done'[at'[u]] /\ runs'[at'[u]] = 0
    BY <2>1, <2>2, <2>3 DEF ClaimInv
  <2>5. \A u, v \in Threads :
          pc'[u] = "run" /\ pc'[v] = "run" /\ at'[u] = at'[v] => u = v
    BY <2>1, <2>2 DEF ClaimInv, Running
  <2>6. ASSUME NEW v \in Works
        PROVE  /\ runs'[v] \in {0, 1}
               /\ runs'[v] = 1 => done'[v]
               /\ done'[v] => runs'[v] = 1 \/ \E u \in Threads : Running(u, v)'
    <3>1. CASE v = w
      BY <2>1, <2>2, <2>3, <3>1 DEF ClaimInv, Running
    <3>2. CASE v # w
      <4>1. \A u \in Threads : Running(u, v) => Running(u, v)'
        BY <1>2, <2>2 DEF Claims, Running
      <4>. QED  BY <2>2, <2>3, <3>2, <4>1 DEF ClaimInv
    <3>. QED  BY <3>1, <3>2
  <2>. QED  BY <2>4, <2>5, <2>6 DEF ClaimInv
<1>3. ASSUME NEW t \in Threads, Passes(t) PROVE ClaimInv'
  BY <1>3 DEF Passes, ClaimInv, Running
<1>4. ASSUME NEW t \in Threads, RunFunc(t) PROVE ClaimInv'
  <2>1. at[t] \in Works /\ done[at[t]] /\ runs[at[t]] = 0 /\ pc[t] = "run"
    BY <1>4 DEF RunFunc, ClaimInv
  <2>2. /\ runs'[at[t]] = 1
        /\ \A v \in Works \ {at[t]} : runs'[v] = runs[v]
        /\ done' = done
    BY <1>4, <2>1 DEF RunFunc
  <2>3. /\ pc'[t] = "scan"
        /\ \A u \in Threads \ {t} : pc'[u] = pc[u] /\ at'[u] = at[u]
    BY <1>4 DEF RunFunc
  <2>4. \A u \in Threads :
          pc'[u] = "run" => at'[u] \in Works /\ done'[at'[u]] /\ runs'[at'[u]] = 0
    BY <2>1, <2>2, <2>3 DEF ClaimInv
  <2>5. ASSUME NEW u \in Threads, NEW v \in Threads,
               pc'[u] = "run", pc'[v] = "run", at'[u] = at'[v]
        PROVE  u = v
    <3>1. u # t /\ v # t
      BY <2>3, <2>5
    <3>. QED  BY <2>3, <2>5, <3>1 DEF ClaimInv
  <2>6. ASSUME NEW v \in Works
        PROVE  /\ runs'[v] \in {0, 1}
               /\ runs'[v] = 1 => done'[v]
               /\ done'[v] => runs'[v] = 1 \/ \E u \in Threads : Running(u, v)'
    <3>1. CASE v = at[t]
      BY <2>1, <2>2, <3>1
    <3>2. CASE v # at[t]
      <4>1. \A u \in Threads : Running(u, v) => Running(u, v)'
        BY <2>3, <3>2 DEF Running
      <4>. QED  BY <2>2, <3>2, <4>1 DEF ClaimInv
    <3>. QED  BY <3>1, <3>2
  <2>. QED  BY <2>4, <2>5, <2>6 DEF ClaimInv
<1>5. ASSUME NEW t \in Threads, JoinSum(t) PROVE ClaimInv'
  BY <1>5 DEF JoinSum, ClaimInv, Running
<1>. QED  BY StepShape, <1>1, <1>2, <1>3, <1>4, <1>5

LEMMA NextScan ==
  ASSUME Types, Types', PlaceInv, ClaimInv, ScanInv, [Next]_vars
  PROVE  ScanInv'
<1>. USE DEF Types, Goto, Threads
<1>1. ASSUME NEW t \in Helpers, Spawn(t) PROVE ScanInv'
  BY <1>1 DEF Spawn, ScanInv, Works
<1>2. CASE CallerActs
  BY <1>2 DEF CallerActs, ScanInv, Works
<1>3. ASSUME NEW t \in Threads, ClaimLocked(t) PROVE ScanInv'
  <2>1. CASE Goto(t, "count") /\ UNCHANGED <<done, at>>
    BY <1>3, <2>1 DEF ClaimLocked, ScanInv
  <2>2. ASSUME NEW w \in Works,
               done' = [done EXCEPT ![w] = TRUE],
               at' = [at EXCEPT ![t] = w],
               Goto(t, "run")
        PROVE  ScanInv'
    BY <1>3, <2>2 DEF ClaimLocked, ScanInv
  <2>. QED  BY <1>3, <2>1, <2>2 DEF ClaimLocked
<1>4. ASSUME NEW t \in Threads, CompareExchange(t) PROVE ScanInv'
  <2>1. CASE ~done[at[t]]
    BY <1>4, <2>1 DEF CompareExchange, ScanInv
  <2>2. CASE done[at[t]]
    <3>1. /\ pc' = pc /\ done' = done /\ pc[t] = "scan"
          /\ at'[t] = at[t] + 1
          /\ \A u \in Threads \ {t} : at'[u] = at[u]
      BY <1>4, <2>2 DEF CompareExchange
    <3>2. ASSUME NEW w \in Works, w < at'[t] PROVE done[w]
      BY <2>2, <3>1, <3>2 DEF ScanInv, Works
    <3>3. ASSUME NEW u \in Threads, pc'[u] = "scan", NEW w \in Works, w < at'[u]
          PROVE  done'[w]
      <4>1. CASE u = t
        BY <3>1, <3>2, <3>3, <4>1
      <4>2. CASE u # t
        BY <3>1, <3>3, <4>2 DEF ScanInv
      <4>. QED  BY <4>1, <4>2
    <3>4. ASSUME NEW u \in Threads, pc'[u] \in {"unborn", "spawn"}
          PROVE  at'[u] = 0
      BY <3>1, <3>4 DEF ScanInv
    <3>. QED  BY <3>1, <3>3, <3>4 DEF ScanInv
  <2>. QED  BY <2>1, <2>2
<1>5. ASSUME NEW t \in Threads, ScanEnds(t) PROVE ScanInv'
  <2>1. \A w \in Works : done[w]
    BY <1>5 DEF ScanEnds, ScanInv, Works
  <2>. QED  BY <1>5, <2>1 DEF ScanEnds, ScanInv
<1>6. ASSUME NEW t \in Threads, RunFunc(t) PROVE ScanInv'
  <2>1. /\ pc'[t] = "scan" /\ at'[t] = 0 /\ done' = done
        /\ \A u \in Threads \ {t} : pc'[u] = pc[u] /\ at'[u] = at[u]
    BY <1>6 DEF RunFunc
  <2>2. \A w \in Works : ~(w < 0)
    BY DEF Works
  <2>. QED  BY <2>1, <2>2 DEF ScanInv
<1>7. ASSUME NEW t \in Threads, JoinSum(t) PROVE ScanInv'
  BY <1>7 DEF JoinSum, ScanInv
<1>8. ASSUME NEW t \in Threads, CountDown(t) PROVE ScanInv'
  BY <1>8 DEF CountDown, ScanInv
<1>9. ASSUME NEW t \in Threads, ThreadExits(t) PROVE ScanInv'
  BY <1>9 DEF ThreadExits, ScanInv
<1>10. CASE LatchOpens
  BY <1>10 DEF LatchOpens, ScanInv
<1>11. CASE Return
  BY <1>11 DEF Return, ScanInv
<1>12. CASE UNCHANGED vars
  BY <1>12 DEF vars, ScanInv
<1>. QED
  BY <1>1, <1>2, <1>3, <1>4, <1>5, <1>6, <1>7, <1>8, <1>9, <1>10, <1>11, <1>12
  DEF Next, Act, Terminated

-----------------------------------------------------------------------------
\* Each finished work of a Reduce is in one pending sum or in total.
LEMMA NextSum ==
  ASSUME Types, Types', PlaceInv, ClaimInv, ScanInv, SumInv, [Next]_vars
  PROVE  SumInv'
<1>. USE DEF Types, Goto, Threads
\* It is enough that who is pending, and what the sums hold, does not change.
<1>1. ASSUME UNCHANGED <<call, sum, total, runs>>,
             \A t \in Threads : Pending(t) => Pending(t)',
             \A t \in Threads :
               Pending(t)' => Pending(t) \/ \A w \in Works : sum[t][w] = 0,
             \A t \in Threads :
               pc'[t] \in {"unborn", "spawn"} => pc[t] \in {"unborn", "spawn"}
      PROVE  SumInv'
  <2>1. \A t \in Threads : pc'[t] \in {"unborn", "spawn"} =>
          \A w \in Works : sum'[t][w] = 0
    BY <1>1 DEF SumInv
  <2>2. ASSUME NEW w \in Works
        PROVE  /\ total'[w] \in {0, 1}
               /\ total'[w] = 1 => runs'[w] = 1
               /\ \A t \in Threads :
                    sum'[t][w] \in {0, 1} /\ (sum'[t][w] = 1 => runs'[w] = 1)
    BY <1>1 DEF SumInv
  <2>3. ASSUME NEW w \in Works, NEW t \in Threads, Pending(t)', sum'[t][w] = 1
        PROVE  Pending(t) /\ sum[t][w] = 1
    BY <1>1, <2>3
  <2>4. ASSUME NEW w \in Works, call' = "Reduce", runs'[w] = 1
        PROVE  total'[w] = 1 \/ \E t \in Threads : Pending(t)' /\ sum'[t][w] = 1
    BY <1>1, <2>4 DEF SumInv
  <2>5. \A w \in Works :
          /\ \A t \in Threads : Pending(t)' /\ sum'[t][w] = 1 => total'[w] = 0
          /\ \A t, u \in Threads :
               Pending(t)' /\ Pending(u)' /\ sum'[t][w] = 1 /\ sum'[u][w] = 1 => t = u
    BY <1>1, <2>3 DEF SumInv
  <2>. QED  BY <2>1, <2>2, <2>4, <2>5 DEF SumInv
<1>2. ASSUME NEW t \in Helpers, Spawn(t) PROVE SumInv'
  BY <1>1, <1>2 DEF Spawn, Pending, SumInv
<1>3. CASE CallerActs
  BY <1>1, <1>3 DEF CallerActs, Pending, SumInv
<1>4. ASSUME NEW t \in Threads, ClaimLocked(t) PROVE SumInv'
  <2>1. CASE Goto(t, "run")
    BY <1>1, <1>4, <2>1 DEF ClaimLocked, Pending
  <2>2. CASE Goto(t, "count")
    <3>1. /\ call = "Map" /\ call' = call /\ sum' = sum
          /\ total' = total /\ runs' = runs /\ pc'[t] = "count"
          /\ \A u \in Threads \ {t} : pc'[u] = pc[u]
      BY <1>4, <2>2 DEF ClaimLocked
    <3>2. \A u \in Threads : Pending(u)' => Pending(u)
      BY <3>1 DEF Pending
    <3>3. \A u \in Threads :
            pc'[u] \in {"unborn", "spawn"} => pc[u] \in {"unborn", "spawn"}
      BY <3>1
    <3>. QED  BY <3>1, <3>2, <3>3 DEF SumInv
  <2>. QED  BY <1>4, <2>1, <2>2 DEF ClaimLocked
<1>5. ASSUME NEW t \in Threads, CompareExchange(t) PROVE SumInv'
  <2>1. CASE Goto(t, "run")
    BY <1>1, <1>5, <2>1 DEF CompareExchange, Pending
  <2>2. CASE pc' = pc
    BY <1>1, <1>5, <2>2 DEF CompareExchange, Pending
  <2>. QED  BY <1>5, <2>1, <2>2 DEF CompareExchange
<1>6. ASSUME NEW t \in Threads, ScanEnds(t) PROVE SumInv'
  BY <1>1, <1>6 DEF ScanEnds, Pending
<1>7. ASSUME NEW t \in Threads, RunFunc(t) PROVE SumInv'
  <2>. DEFINE w == at[t]
  <2>1. /\ w \in Works /\ runs[w] = 0 /\ runs'[w] = 1
        /\ \A v \in Works \ {w} : runs'[v] = runs[v]
        /\ total' = total /\ call' = call
    BY <1>7 DEF RunFunc, ClaimInv
  <2>2. /\ pc[t] = "run" /\ pc'[t] = "scan"
        /\ \A u \in Threads \ {t} : pc'[u] = pc[u]
    BY <1>7 DEF RunFunc
  <2>3. \A u \in Threads : Pending(u)' <=> Pending(u)
    BY <2>2 DEF Pending
  <2>4. total[w] = 0 /\ \A u \in Threads : sum[u][w] = 0
    BY <2>1 DEF SumInv
  <2>5. CASE call = "Map"
    <3>1. sum' = sum
      BY <1>7, <2>5 DEF RunFunc
    <3>. QED  BY <2>1, <2>2, <2>3, <2>4, <2>5, <3>1 DEF SumInv
  <2>6. CASE call = "Reduce"
    <3>1. /\ sum'[t][w] = 1
          /\ \A v \in Works \ {w} : sum'[t][v] = sum[t][v]
          /\ \A u \in Threads \ {t} : sum'[u] = sum[u]
      BY <1>7, <2>1, <2>4, <2>6 DEF RunFunc, Join, One
    <3>2. \A u \in Threads : pc'[u] \in {"unborn", "spawn"} =>
            \A v \in Works : sum'[u][v] = 0
      BY <2>2, <3>1 DEF SumInv
    <3>3. ASSUME NEW v \in Works
          PROVE  /\ total'[v] \in {0, 1}
                 /\ total'[v] = 1 => runs'[v] = 1
                 /\ \A u \in Threads :
                      sum'[u][v] \in {0, 1} /\ (sum'[u][v] = 1 => runs'[v] = 1)
                 /\ \A u \in Threads : Pending(u)' /\ sum'[u][v] = 1 => total'[v] = 0
                 /\ \A x, y \in Threads :
                      Pending(x)' /\ Pending(y)' /\ sum'[x][v] = 1 /\ sum'[y][v] = 1 => x = y
                 /\ call' = "Reduce" /\ runs'[v] = 1 =>
                      total'[v] = 1 \/ \E u \in Threads : Pending(u)' /\ sum'[u][v] = 1
      <4>1. CASE v = w
        <5>1. Pending(t)'
          BY <2>2 DEF Pending
        <5>2. \A u \in Threads \ {t} : sum'[u][w] = 0
          BY <2>4, <3>1
        <5>. QED  BY <2>1, <2>4, <3>1, <4>1, <5>1, <5>2
      <4>2. CASE v # w
        <5>1. \A u \in Threads : sum'[u][v] = sum[u][v]
          BY <3>1, <4>2
        <5>. QED  BY <2>1, <2>3, <4>2, <5>1 DEF SumInv
      <4>. QED  BY <4>1, <4>2
    <3>. QED  BY <3>2, <3>3 DEF SumInv
  <2>. QED  BY <2>5, <2>6
<1>8. ASSUME NEW t \in Threads, JoinSum(t) PROVE SumInv'
  <2>1. /\ pc[t] = "join" /\ pc'[t] = "count" /\ call' = call
        /\ \A u \in Threads \ {t} : pc'[u] = pc[u]
        /\ sum' = sum /\ runs' = runs
        /\ \A w \in Works : total'[w] = total[w] + sum[t][w]
    BY <1>8 DEF JoinSum, Join
  <2>2. /\ Pending(t) /\ ~Pending(t)'
        /\ \A u \in Threads \ {t} : Pending(u)' <=> Pending(u)
    BY <2>1 DEF Pending
  <2>3. \A u \in Threads : pc'[u] \in {"unborn", "spawn"} =>
          \A w \in Works : sum'[u][w] = 0
    BY <2>1 DEF SumInv
  <2>4. ASSUME NEW w \in Works
        PROVE  /\ total'[w] \in {0, 1}
               /\ total'[w] = 1 => runs'[w] = 1
               /\ \A u \in Threads :
                    sum'[u][w] \in {0, 1} /\ (sum'[u][w] = 1 => runs'[w] = 1)
               /\ \A u \in Threads : Pending(u)' /\ sum'[u][w] = 1 => total'[w] = 0
               /\ \A x, y \in Threads :
                    Pending(x)' /\ Pending(y)' /\ sum'[x][w] = 1 /\ sum'[y][w] = 1 => x = y
               /\ call' = "Reduce" /\ runs'[w] = 1 =>
                    total'[w] = 1 \/ \E u \in Threads : Pending(u)' /\ sum'[u][w] = 1
    <3>1. CASE sum[t][w] = 1
      <4>1. total[w] = 0 /\ runs[w] = 1 /\ total'[w] = 1
        BY <2>1, <2>2, <3>1 DEF SumInv
      <4>2. \A u \in Threads : Pending(u)' => sum'[u][w] = 0
        BY <2>1, <2>2, <3>1 DEF SumInv
      <4>. QED  BY <2>1, <4>1, <4>2 DEF SumInv
    <3>2. CASE sum[t][w] = 0
      <4>1. total'[w] = total[w]
        BY <2>1, <3>2 DEF Types
      <4>. QED  BY <2>1, <2>2, <3>2, <4>1 DEF SumInv
    <3>. QED  BY <3>1, <3>2 DEF SumInv
  <2>. QED  BY <2>3, <2>4 DEF SumInv
<1>9. ASSUME NEW t \in Threads, CountDown(t) PROVE SumInv'
  BY <1>1, <1>9 DEF CountDown, Pending
<1>10. ASSUME NEW t \in Threads, ThreadExits(t) PROVE SumInv'
  BY <1>1, <1>10 DEF ThreadExits, Pending
<1>11. CASE LatchOpens
  BY <1>1, <1>11 DEF LatchOpens, Pending
<1>12. CASE Return
  BY <1>1, <1>12 DEF Return, Pending
<1>13. CASE UNCHANGED vars
  BY <1>1, <1>13 DEF vars, Pending
<1>. QED
  BY <1>2, <1>3, <1>4, <1>5, <1>6, <1>7, <1>8, <1>9, <1>10, <1>11, <1>12, <1>13
  DEF Next, Act, Terminated

-----------------------------------------------------------------------------
\* Each finished work of a Map is stored at its own index.
LEMMA NextOut ==
  ASSUME Types, Types', PlaceInv, ClaimInv, ScanInv, OutInv, [Next]_vars
  PROVE  OutInv'
<1>. USE DEF Types
<1>1. CASE Quiet
  BY <1>1 DEF Quiet, OutInv
<1>2. ASSUME NEW t \in Threads, NEW w \in Works, Claims(t, w) PROVE OutInv'
  BY <1>2 DEF Claims, OutInv
<1>3. ASSUME NEW t \in Threads, Passes(t) PROVE OutInv'
  BY <1>3 DEF Passes, OutInv
<1>4. ASSUME NEW t \in Threads, RunFunc(t), call = "Map" PROVE OutInv'
  <2>1. at[t] \in Works
    BY <1>4 DEF RunFunc, ClaimInv
  <2>2. /\ out'[at[t]] = at[t]
        /\ \A w \in Works \ {at[t]} : out'[w] = out[w] /\ runs'[w] = runs[w]
    BY <1>4, <2>1 DEF RunFunc
  <2>. QED  BY <1>4, <2>2 DEF OutInv
<1>5. ASSUME NEW t \in Threads, RunFunc(t), call # "Map" PROVE OutInv'
  BY <1>5 DEF RunFunc, OutInv
<1>6. ASSUME NEW t \in Threads, JoinSum(t) PROVE OutInv'
  BY <1>6 DEF JoinSum, OutInv
<1>. QED  BY StepShape, <1>1, <1>2, <1>3, <1>4, <1>5, <1>6

\* Only CountDown changes the latch, and it takes one thread out of the set
\* of those that have not counted.
LEMMA NextLatch ==
  ASSUME Types, Types', PlaceInv, LatchInv, [Next]_vars
  PROVE  LatchInv'
<1>. DEFINE U == {t \in Threads : pc[t] \in Uncounted}
<1>. USE DEF Types, Goto
<1>1. ASSUME latch' = latch,
             \A t \in Threads : pc'[t] \in Uncounted <=> pc[t] \in Uncounted
      PROVE  LatchInv'
  <2>1. {t \in Threads : pc'[t] \in Uncounted} = U
    BY <1>1
  <2>. QED  BY <1>1, <2>1 DEF LatchInv
<1>2. ASSUME NEW t \in Helpers, Spawn(t) PROVE LatchInv'
  BY <1>1, <1>2 DEF Spawn, Uncounted, Threads
<1>3. CASE CallerActs
  BY <1>1, <1>3 DEF CallerActs, Uncounted, Threads
<1>4. ASSUME NEW t \in Threads, ClaimLocked(t) PROVE LatchInv'
  <2>1. pc[t] = "scan" /\ latch' = latch /\ (Goto(t, "run") \/ Goto(t, "count"))
    BY <1>4 DEF ClaimLocked
  <2>. QED  BY <1>1, <2>1 DEF Uncounted
<1>5. ASSUME NEW t \in Threads, CompareExchange(t) PROVE LatchInv'
  <2>1. pc[t] = "scan" /\ latch' = latch /\ (Goto(t, "run") \/ pc' = pc)
    BY <1>5 DEF CompareExchange
  <2>. QED  BY <1>1, <2>1 DEF Uncounted
<1>6. ASSUME NEW t \in Threads, ScanEnds(t) PROVE LatchInv'
  BY <1>1, <1>6 DEF ScanEnds, Uncounted
<1>7. ASSUME NEW t \in Threads, RunFunc(t) PROVE LatchInv'
  <2>1. pc[t] = "run" /\ latch' = latch /\ Goto(t, "scan")
    BY <1>7 DEF RunFunc
  <2>. QED  BY <1>1, <2>1 DEF Uncounted
<1>8. ASSUME NEW t \in Threads, JoinSum(t) PROVE LatchInv'
  BY <1>1, <1>8 DEF JoinSum, Uncounted
<1>9. ASSUME NEW t \in Threads, CountDown(t) PROVE LatchInv'
  <2>1. t \in U /\ U \in SUBSET Threads
    BY <1>9 DEF CountDown, Uncounted
  <2>2. {u \in Threads : pc'[u] \in Uncounted} = U \ {t}
    BY <1>9 DEF CountDown, Uncounted
  <2>3. IsFiniteSet(U) /\ Cardinality(U) \in Nat
    BY <2>1, ThreadsFinite
  <2>. HIDE DEF U
  <2>4. Cardinality(U \ {t}) = Cardinality(U) - 1
    BY <2>1, <2>3, FS_RemoveElement
  <2>5. latch = Cardinality(U) /\ latch' = latch - 1
    BY <1>9 DEF CountDown, LatchInv, U
  <2>6. latch' = Cardinality(U \ {t})
    BY <2>4, <2>5
  <2>. QED  BY <2>2, <2>6 DEF LatchInv
<1>10. ASSUME NEW t \in Threads, ThreadExits(t) PROVE LatchInv'
  BY <1>1, <1>10 DEF ThreadExits, Uncounted
<1>11. CASE LatchOpens
  BY <1>1, <1>11 DEF LatchOpens, Uncounted, Threads
<1>12. CASE Return
  BY <1>1, <1>12 DEF Return, Uncounted, Threads
<1>13. CASE UNCHANGED vars
  BY <1>1, <1>13 DEF vars
<1>. QED
  BY <1>2, <1>3, <1>4, <1>5, <1>6, <1>7, <1>8, <1>9, <1>10, <1>11, <1>12, <1>13
  DEF Next, Act, Terminated

LEMMA NextInv == IInv /\ [Next]_vars => IInv'
<1>. SUFFICES ASSUME IInv, [Next]_vars PROVE IInv'
  OBVIOUS
<1>1. Types'
  BY NextTypes DEF IInv
<1>2. PlaceInv'
  BY NextPlace DEF IInv
<1>. QED
  BY <1>1, <1>2, NextClaim, NextScan, NextSum, NextOut, NextLatch DEF IInv

\* The inductive invariant holds in every reachable state.
THEOREM Invariance == SafeSpec => []IInv
  BY InitInv, NextInv, PTL DEF SafeSpec

-----------------------------------------------------------------------------
\* Every variable keeps its type; the latch never counts below zero.
THEOREM TypeCorrect == SafeSpec => []TypeOK
<1>1. IInv => TypeOK
  <2>. SUFFICES ASSUME IInv PROVE TypeOK
    OBVIOUS
  <2>1. {t \in Threads : pc[t] \in Uncounted} \in SUBSET Threads
    OBVIOUS
  <2>2. latch \in Nat
    BY <2>1, ThreadsFinite DEF IInv, LatchInv
  <2>. QED  BY <2>2 DEF IInv, Types, TypeOK
<1>. QED  BY <1>1, Invariance, PTL

\* func is called at most once for each work, by one thread.
THEOREM AtMostOnceHolds == SafeSpec => []AtMostOnce
<1>1. IInv => AtMostOnce
  BY DEF IInv, ClaimInv, AtMostOnce, Running
<1>. QED  BY <1>1, Invariance, PTL

\* During a Reduce each finished work counts once, in total or in one pending sum.
THEOREM ResultsConservedHolds == SafeSpec => []ResultsConserved
<1>1. IInv => ResultsConserved
  <2>. SUFFICES ASSUME IInv, call = "Reduce", NEW w \in Works
                PROVE  runs[w] = total[w]
                         + Cardinality({t \in Threads : Pending(t) /\ sum[t][w] = 1})
    BY DEF ResultsConserved
  <2>. DEFINE H == {t \in Threads : Pending(t) /\ sum[t][w] = 1}
  <2>1. runs[w] \in {0, 1} /\ total[w] \in {0, 1}
    BY DEF IInv, ClaimInv, SumInv
  <2>2. CASE H = {}
    <3>1. runs[w] = total[w]
      BY <2>1, <2>2 DEF IInv, SumInv
    <3>2. Cardinality(H) = 0
      BY <2>2, FS_EmptySet
    <3>. QED  BY <2>1, <3>1, <3>2
  <2>3. CASE H # {}
    <3>1. PICK t \in Threads : Pending(t) /\ sum[t][w] = 1
      BY <2>3
    <3>2. H = {t}
      BY <3>1 DEF IInv, SumInv
    <3>3. runs[w] = 1 /\ total[w] = 0
      BY <3>1 DEF IInv, SumInv
    <3>4. Cardinality(H) = 1
      BY <3>2, FS_Singleton
    <3>. QED  BY <3>3, <3>4
  <2>. QED  BY <2>2, <2>3
<1>. QED  BY <1>1, Invariance, PTL

\* The returned value holds every result exactly once.
THEOREM CompleteOnReturnHolds == SafeSpec => []CompleteOnReturn
<1>1. IInv => CompleteOnReturn
  <2>. SUFFICES ASSUME IInv, pc[Caller] = "returned", NEW w \in Works
                PROVE  /\ runs[w] = 1
                       /\ call = "Reduce" => total[w] = 1
                       /\ call = "Map" => out[w] = w
    BY DEF CompleteOnReturn
  <2>1. \A t \in Threads : pc[t] \in {"exited", "returned"}
    BY DEF IInv, PlaceInv, Threads
  <2>2. \A t \in Threads : ~Pending(t) /\ ~Running(t, w)
    BY <2>1 DEF Pending, Running
  <2>3. done[w]
    <3>1. Caller \in Threads
      BY DEF Threads
    <3>. QED  BY <3>1 DEF IInv, ScanInv
  <2>4. runs[w] = 1
    BY <2>2, <2>3 DEF IInv, ClaimInv
  <2>. QED  BY <2>2, <2>4 DEF IInv, SumInv, OutInv
<1>. QED  BY <1>1, Invariance, PTL

\* No helper is left inside the action once the call has returned.
THEOREM NoUseAfterReturnHolds == SafeSpec => []NoUseAfterReturn
<1>1. IInv => NoUseAfterReturn
  BY DEF IInv, PlaceInv, NoUseAfterReturn
<1>. QED  BY <1>1, Invariance, PTL

-----------------------------------------------------------------------------
\* The states of an execution map to states of the pool; the facts about the
\* mapping a step needs.
PoolUnchanged ==
  /\ PoolStarted' = PoolStarted
  /\ PoolFinished' = PoolFinished
  /\ Returned' = Returned
  /\ PoolValue' = PoolValue

\* While the call has not returned, the pool's value stays at zero.
LEMMA ValueBeforeReturn ==
  ASSUME ~Returned, ~Returned'
  PROVE  PoolValue' = PoolValue
BY DEF PoolValue, Returned

LEMMA InitPool == Init => Pool!Init
<1>. SUFFICES ASSUME Init PROVE Pool!Init
  OBVIOUS
<1>. USE DEF Init, Zero
<1>1. PoolStarted = {} /\ PoolFinished = {}
  BY DEF PoolStarted, PoolFinished
<1>2. Caller \in Threads
  BY DEF Threads
<1>3. Returned = FALSE
  BY <1>2 DEF Returned
<1>4. PoolValue = [w \in Works |-> 0]
  BY <1>3 DEF PoolValue
<1>. QED  BY <1>1, <1>3, <1>4 DEF Pool!Init

\* A step that leaves done, runs and the return alone is no step of the pool.
LEMMA QuietPool ==
  ASSUME ~Returned, ~Returned', done' = done, runs' = runs
  PROVE  PoolUnchanged
<1>1. PoolStarted' = PoolStarted /\ PoolFinished' = PoolFinished
  BY DEF PoolStarted, PoolFinished
<1>2. Returned' = Returned
  BY DEF Returned
<1>. QED  BY <1>1, <1>2, ValueBeforeReturn DEF PoolUnchanged

LEMMA ClaimStarts ==
  ASSUME Types, ~Returned, ~Returned', NEW w \in Works,
         ~done[w], done' = [done EXCEPT ![w] = TRUE], runs' = runs
  PROVE  Pool!Start(w)
<1>. USE DEF Types
<1>1. w \notin PoolStarted /\ PoolStarted' = PoolStarted \cup {w}
  BY DEF PoolStarted
<1>2. PoolFinished' = PoolFinished
  BY DEF PoolFinished
<1>3. Returned' = Returned
  BY DEF Returned
<1>. QED  BY <1>1, <1>2, <1>3, ValueBeforeReturn DEF Pool!Start

LEMMA RunFinishes ==
  ASSUME IInv, NEW t \in Threads, RunFunc(t), ~Returned, ~Returned'
  PROVE  Pool!Finish(at[t])
<1>. USE DEF IInv, Types
<1>1. at[t] \in Works /\ done[at[t]] /\ runs[at[t]] = 0
  BY DEF RunFunc, ClaimInv
<1>2. runs' = [runs EXCEPT ![at[t]] = 1] /\ done' = done
  BY <1>1 DEF RunFunc
<1>3. at[t] \in PoolStarted \ PoolFinished
  BY <1>1 DEF PoolStarted, PoolFinished
<1>4. PoolStarted' = PoolStarted
  BY <1>2 DEF PoolStarted
<1>5. PoolFinished' = PoolFinished \cup {at[t]}
  BY <1>1, <1>2 DEF PoolFinished
<1>6. Returned' = Returned
  BY DEF Returned
<1>. QED  BY <1>3, <1>4, <1>5, <1>6, ValueBeforeReturn DEF Pool!Finish

LEMMA ReturnReturns ==
  ASSUME IInv, IInv', Return, ~Returned
  PROVE  Pool!Return
<1>. USE DEF Types
<1>1. Caller \in Threads
  BY DEF Threads
<1>2. Returned' = TRUE
  BY <1>1 DEF Return, Goto, Returned, IInv
<1>3. \A w \in Works : done[w]
  BY <1>1 DEF IInv, ScanInv, Return
<1>4. \A t \in Threads : pc[t] \in {"exited", "threadjoin"}
  BY DEF Return, Threads
<1>5. \A w \in Works : runs[w] = 1
  BY <1>3, <1>4 DEF IInv, ClaimInv, Running
<1>6. PoolFinished = Works
  BY <1>5 DEF PoolFinished
<1>7. PoolStarted' = PoolStarted /\ PoolFinished' = PoolFinished
  BY DEF PoolStarted, PoolFinished, Return
<1>8. \A w \in Works : call = "Reduce" => total[w] = 1
  BY <1>4, <1>5 DEF IInv, SumInv, Pending
<1>9. \A w \in Works : call # "Reduce" => out[w] = w
  BY <1>5 DEF IInv, OutInv
<1>10. PoolValue' = [w \in Works |-> 1]
  BY <1>2, <1>8, <1>9 DEF PoolValue, Return
<1>. QED  BY <1>2, <1>6, <1>7, <1>10 DEF Pool!Return, Returned

\* A step of Parallel is a step of the pool or leaves the pool unchanged.
LEMMA StepPool ==
  ASSUME IInv, IInv', [Next]_vars
  PROVE  Pool!Next \/ PoolUnchanged
<1>. USE DEF Types
<1>0. Caller \in Threads /\ Types /\ PlaceInv /\ ScanInv
  BY DEF Threads, IInv
<1>1. CASE UNCHANGED vars
  BY <1>1 DEF vars, PoolUnchanged, PoolStarted, PoolFinished, PoolValue, Returned
<1>2. CASE Return
  <2>1. ~Returned
    BY <1>2 DEF Return, Returned
  <2>. QED  BY <1>2, <2>1, ReturnReturns DEF Pool!Next
<1>3. CASE ~Return /\ Next /\ ~UNCHANGED vars
  <2>1. ~Returned
    BY <1>3, <1>0 DEF Next, Act, Terminated, Returned, Spawn, CallerActs,
       ClaimLocked, CompareExchange, ScanEnds, RunFunc, JoinSum, CountDown,
       ThreadExits, LatchOpens, PlaceInv, Threads
  <2>2. ~Returned'
    BY <1>0, <1>3, <2>1 DEF Next, Act, Terminated, Returned, Goto, Spawn,
       CallerActs, ClaimLocked, CompareExchange, ScanEnds, RunFunc, JoinSum,
       CountDown, ThreadExits, LatchOpens, Threads
  <2>3. CASE Quiet
    BY <2>1, <2>2, <2>3, QuietPool DEF Quiet
  <2>4. ASSUME NEW t \in Threads, NEW w \in Works, Claims(t, w)
        PROVE  Pool!Next
    BY <1>0, <2>1, <2>2, <2>4, ClaimStarts DEF Claims, Pool!Next
  <2>5. ASSUME NEW t \in Threads, Passes(t) PROVE PoolUnchanged
    BY <2>1, <2>2, <2>5, QuietPool DEF Passes
  <2>6. ASSUME NEW t \in Threads, RunFunc(t) PROVE Pool!Next
    <3>1. at[t] \in Works
      BY <2>6, <1>0 DEF RunFunc, ClaimInv, IInv
    <3>. QED  BY <2>1, <2>2, <2>6, <3>1, RunFinishes DEF Pool!Next
  <2>7. ASSUME NEW t \in Threads, JoinSum(t) PROVE PoolUnchanged
    BY <2>1, <2>2, <2>7, QuietPool DEF JoinSum
  <2>. QED  BY <1>0, <2>3, <2>4, <2>5, <2>6, <2>7, StepShape
<1>. QED  BY <1>1, <1>2, <1>3

\* Map and Reduce implement the pool of works (its safety part).
THEOREM RefinesPool == SafeSpec => Pool!SafeSpec
<1>1. IInv /\ IInv' /\ [Next]_vars => [Pool!Next]_(Pool!poolVars)
  BY StepPool DEF PoolUnchanged, Pool!poolVars
<1>. QED  BY <1>1, InitPool, Invariance, PTL DEF SafeSpec, Pool!SafeSpec
=============================================================================
