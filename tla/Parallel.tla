------------------------------ MODULE Parallel ------------------------------
(***************************************************************************)
(* src/src/_parallel.hpp: Parallel::Map and Parallel::Reduce.              *)
(*                                                                         *)
(* A call starts concurrency - 1 threads, runs the same action on the      *)
(* calling thread, waits for a latch of concurrency counts, joins the      *)
(* threads and returns.  In Map the action claims the next work under a    *)
(* mutex and stores the result in out[index].  In Reduce it scans an       *)
(* array of atomic flags with compare_exchange_strong, joins each result   *)
(* into a sum of its own, and joins that sum into total under a mutex when *)
(* no work is left.                                                        *)
(*                                                                         *)
(* A sum is represented by how often the result of each work went into it: *)
(* zero() is the zero function and join is pointwise addition.  Every join *)
(* the repository passes (MergeBool, MergeVector, Status::Merge, the two   *)
(* mergeInto) is determined by this count up to the order of its operands. *)
(***************************************************************************)
EXTENDS Integers, FiniteSets

CONSTANTS
  NWorks,               \* works.size()
  Helpers,              \* the concurrency - 1 threads the call starts
  Caller,               \* the thread that calls Map or Reduce
  NoResult              \* an element of out before it is assigned

\* std::latch(0) and the count_down after it are undefined, so concurrency is
\* at least 1: there is always the caller.
ASSUME NWorksAssumption == NWorks \in Nat
ASSUME ThreadsAssumption == IsFiniteSet(Helpers) /\ Caller \notin Helpers
ASSUME NoResultAssumption == NoResult \notin Nat

Works == 0 .. NWorks - 1
Threads == Helpers \cup {Caller}

VARIABLES
  call,                 \* the function called: "Map" or "Reduce"
  pc,                   \* where each thread is
  done,                 \* done[j]: the work j has been claimed
  at,                   \* the j of a thread's scan, then the work it claimed
  sum,                  \* Reduce: the thread's private sum
  total,                \* Reduce: the joined sums
  out,                  \* Map: the output vector
  latch,                \* counts the latch still waits for
  runs                  \* history: how often func has returned for a work

vars == <<call, pc, done, at, sum, total, out, latch, runs>>

\* Mutant: the latch sized by numThreads instead of concurrency.
NumThreads == Cardinality(Helpers)

Concurrency == Cardinality(Helpers) + 1

Zero == [w \in Works |-> 0]
Join(from, to) == [w \in Works |-> to[w] + from[w]]
One(w) == [v \in Works |-> IF v = w THEN 1 ELSE 0]

TypeOK ==
  /\ call \in {"Map", "Reduce"}
  /\ pc \in [Threads -> {"unborn", "spawn", "scan", "run", "join", "count",
                         "exiting", "exited", "wait", "threadjoin",
                         "returned"}]
  /\ done \in [Works -> BOOLEAN]
  /\ at \in [Threads -> 0 .. NWorks]
  /\ sum \in [Threads -> [Works -> Nat]]
  /\ total \in [Works -> Nat]
  /\ out \in [Works -> Works \cup {NoResult}]
  /\ latch \in Nat
  /\ runs \in [Works -> Nat]

Init ==
  /\ call \in {"Map", "Reduce"}
  /\ pc = [t \in Threads |-> IF t = Caller THEN "spawn" ELSE "unborn"]
  /\ done = [w \in Works |-> FALSE]
  /\ at = [t \in Threads |-> 0]
  /\ sum = [t \in Threads |-> Zero]
  /\ total = Zero
  /\ out = [w \in Works |-> NoResult]
  /\ latch = Concurrency
  /\ runs = Zero

Goto(t, label) == pc' = [pc EXCEPT ![t] = label]

-----------------------------------------------------------------------------
\* threads.push_back(thread(action)): the new thread is in the action at once.
Spawn(t) ==
  /\ pc[Caller] = "spawn"
  /\ pc[t] = "unborn"
  /\ Goto(t, "scan")
  /\ UNCHANGED <<call, done, at, sum, total, out, latch, runs>>

\* The caller has started every thread and runs the action itself.
CallerActs ==
  /\ pc[Caller] = "spawn"
  /\ \A t \in Helpers : pc[t] # "unborn"
  /\ Goto(Caller, "scan")
  /\ UNCHANGED <<call, done, at, sum, total, out, latch, runs>>

\* Map: the first work not done, claimed under mut; none left ends the loop.
ClaimLocked(t) ==
  /\ call = "Map"
  /\ pc[t] = "scan"
  /\ \/ \E index \in Works :
          /\ ~done[index]
          /\ \A j \in Works : j < index => done[j]
          /\ done' = [done EXCEPT ![index] = TRUE]
          /\ at' = [at EXCEPT ![t] = index]
          /\ Goto(t, "run")
     \/ /\ \A j \in Works : done[j]
        /\ Goto(t, "count")
        /\ UNCHANGED <<done, at>>
  /\ UNCHANGED <<call, sum, total, out, latch, runs>>

\* Mutant: the flag is set by a plain store after it was looked at.
StoreNotExchange(t) ==
  /\ call = "Reduce"
  /\ pc[t] = "scan"
  /\ at[t] \in Works
  /\ done' = [done EXCEPT ![at[t]] = TRUE]
  /\ Goto(t, "run")
  /\ UNCHANGED <<call, at, sum, total, out, latch, runs>>

\* Reduce: one compare_exchange_strong(false, true) of the scan.
CompareExchange(t) ==
  /\ call = "Reduce"
  /\ pc[t] = "scan"
  /\ at[t] \in Works
  /\ \/ /\ ~done[at[t]]
        /\ done' = [done EXCEPT ![at[t]] = TRUE]
        /\ Goto(t, "run")
        /\ UNCHANGED at
     \/ /\ done[at[t]]
        /\ at' = [at EXCEPT ![t] = at[t] + 1]
        /\ UNCHANGED <<done, pc>>
  /\ UNCHANGED <<call, sum, total, out, latch, runs>>

\* Mutant: the scan stops one work early.
ScanEndsEarly(t) ==
  /\ call = "Reduce"
  /\ pc[t] = "scan"
  /\ at[t] = NWorks - 1
  /\ Goto(t, "join")
  /\ UNCHANGED <<call, done, at, sum, total, out, latch, runs>>

\* Reduce: the scan found no work.
ScanEnds(t) ==
  /\ call = "Reduce"
  /\ pc[t] = "scan"
  /\ at[t] = NWorks
  /\ Goto(t, "join")
  /\ UNCHANGED <<call, done, at, sum, total, out, latch, runs>>

\* func returns for the claimed work; Map stores the result, Reduce joins it
\* into the thread's own sum; the next scan starts from the first work.
RunFunc(t) ==
  /\ pc[t] = "run"
  /\ runs' = [runs EXCEPT ![at[t]] = @ + 1]
  /\ \/ /\ call = "Map"
        /\ out' = [out EXCEPT ![at[t]] = at[t]]
        /\ UNCHANGED sum
     \/ /\ call = "Reduce"
        /\ sum' = [sum EXCEPT ![t] = Join(One(at[t]), sum[t])]
        /\ UNCHANGED out
  /\ at' = [at EXCEPT ![t] = 0]
  /\ Goto(t, "scan")
  /\ UNCHANGED <<call, done, total, latch>>

\* Mutant: total is assigned from the sum instead of joined with it.
OverwriteTotal(t) ==
  /\ pc[t] = "join"
  /\ total' = sum[t]
  /\ Goto(t, "count")
  /\ UNCHANGED <<call, done, at, sum, out, latch, runs>>

\* Reduce: join(sum, total) under joinMut, then leave the loop.
JoinSum(t) ==
  /\ pc[t] = "join"
  /\ total' = Join(sum[t], total)
  /\ Goto(t, "count")
  /\ UNCHANGED <<call, done, at, sum, out, latch, runs>>

\* Mutant: a helper leaves the action without counting down.
CallerCountsDown(t) ==
  /\ pc[t] = "count"
  /\ latch' = IF t = Caller THEN latch - 1 ELSE latch
  /\ Goto(t, IF t = Caller THEN "wait" ELSE "exiting")
  /\ UNCHANGED <<call, done, at, sum, total, out, runs>>

\* latch.count_down(), the last statement of the action: the count reaches the
\* latch here, and a helper may still be inside count_down, notifying.
CountDown(t) ==
  /\ pc[t] = "count"
  /\ latch' = latch - 1
  /\ Goto(t, IF t = Caller THEN "wait" ELSE "exiting")
  /\ UNCHANGED <<call, done, at, sum, total, out, runs>>

\* A helper returns from count_down and its thread ends.
ThreadExits(t) ==
  /\ pc[t] = "exiting"
  /\ Goto(t, "exited")
  /\ UNCHANGED <<call, done, at, sum, total, out, latch, runs>>

\* latch.wait() lets the caller pass.
LatchOpens ==
  /\ pc[Caller] = "wait"
  /\ latch = 0
  /\ Goto(Caller, "threadjoin")
  /\ UNCHANGED <<call, done, at, sum, total, out, latch, runs>>

\* Mutant: the threads are not joined.
ReturnWithoutJoin ==
  /\ pc[Caller] = "threadjoin"
  /\ Goto(Caller, "returned")
  /\ UNCHANGED <<call, done, at, sum, total, out, latch, runs>>

\* th.join() for every thread, then return: the locals the action captured by
\* reference (latch, mut, done, total) are gone from here on.
Return ==
  /\ pc[Caller] = "threadjoin"
  /\ \A t \in Helpers : pc[t] = "exited"
  /\ Goto(Caller, "returned")
  /\ UNCHANGED <<call, done, at, sum, total, out, latch, runs>>

Act(t) ==
  \/ ClaimLocked(t)
  \/ CompareExchange(t)
  \/ ScanEnds(t)
  \/ RunFunc(t)
  \/ JoinSum(t)
  \/ CountDown(t)
  \/ ThreadExits(t)

\* The call is over: nothing is left to happen.
Terminated ==
  /\ pc[Caller] = "returned"
  /\ UNCHANGED vars

Next ==
  \/ \E t \in Helpers : Spawn(t)
  \/ CallerActs
  \/ \E t \in Threads : Act(t)
  \/ LatchOpens
  \/ Return
  \/ Terminated

\* The scheduler runs every thread that can take a step, and func returns.
Fairness ==
  /\ \A t \in Helpers : WF_vars(Spawn(t))
  /\ \A t \in Threads : WF_vars(Act(t))
  /\ WF_vars(CallerActs)
  /\ WF_vars(LatchOpens)
  /\ WF_vars(Return)

SafeSpec == Init /\ [][Next]_vars

Spec == SafeSpec /\ Fairness

-----------------------------------------------------------------------------
Running(t, w) == pc[t] = "run" /\ at[t] = w

\* The thread is in the action and has not given its sum to total yet.
Pending(t) == pc[t] \in {"scan", "run", "join"}

\* func runs at most once for a work: two threads are never in func for the
\* same work, and none enters it again once it has returned.  The claim by
\* compare_exchange_strong (Reduce) or under mut (Map) is what makes it so.
AtMostOnce ==
  \A w \in Works :
    /\ runs[w] <= 1
    /\ \A t \in Threads : Running(t, w) => runs[w] = 0
    /\ \A t, u \in Threads : Running(t, w) /\ Running(u, w) => t = u

\* While Reduce runs no result is lost or counted twice: each finished work is
\* in exactly one of the private sums not joined yet and total.
ResultsConserved ==
  call = "Reduce" =>
    \A w \in Works :
      runs[w] = total[w] + Cardinality({t \in Threads : Pending(t) /\ sum[t][w] = 1})

\* When the call returns, the value the caller gets holds the result of every
\* work exactly once (total of Reduce), or at the work's own index (out of Map).
CompleteOnReturn ==
  pc[Caller] = "returned" =>
    \A w \in Works :
      /\ runs[w] = 1
      /\ call = "Reduce" => total[w] = 1
      /\ call = "Map" => out[w] = w

\* After the return no helper is left in the action, not even inside the
\* count_down it is released by: none can touch the caller's locals.
NoUseAfterReturn ==
  pc[Caller] = "returned" => \A t \in Helpers : pc[t] = "exited"

\* Every call returns: the threads cannot wait for one another for ever.
Termination == <>(pc[Caller] = "returned")

-----------------------------------------------------------------------------
Returned == pc[Caller] = "returned"

PoolStarted == {w \in Works : done[w]}
PoolFinished == {w \in Works : runs[w] = 1}
PoolValue ==
  [w \in Works |->
     IF ~Returned THEN 0
     ELSE IF call = "Reduce" THEN total[w]
     ELSE IF out[w] = w THEN 1 ELSE 0]

Pool == INSTANCE WorkPool WITH
          started <- PoolStarted,
          finished <- PoolFinished,
          returned <- Returned,
          value <- PoolValue

\* Map and Reduce implement the pool their callers rely on: claiming a work is
\* Start, the return of func is Finish, the return of the call is Return.
ImplementsPool == Pool!Spec
=============================================================================
