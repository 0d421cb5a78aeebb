---------------------------- MODULE ConcurrentDb ----------------------------
(***************************************************************************)
(* src/src/db/_concurrent-db.hpp: the database the Bedrock converter       *)
(* writes.  Each thread that puts gets a Writer of its own, found through  *)
(* a thread_local Gate, with a directory that holds a key file and a value *)
(* file.  close() drains the writers, builds the LevelDB tables of every   *)
(* key prefix in parallel from those files, and commits them with one      *)
(* manifest and the CURRENT file that names it.                            *)
(*                                                                         *)
(* The value of a put is the number of the put call; each value has size   *)
(* 1.  A key is <<prefix, rest>>: its first byte and what follows.  What   *)
(* can go wrong is listed by Faults:                                       *)
(*   "create"  a writer cannot create its directory or files;              *)
(*   "put"     a write of put() fails;                                     *)
(*   "flush"   the last entry is lost when the buffers are flushed;        *)
(*   "open"    a key file or a table cannot be opened;                     *)
(*   "read"    a value file cannot be opened, or a value not read back;    *)
(*   "table"   a write to a table file fails, which nobody looks at;       *)
(*   "commit"  the manifest or CURRENT cannot be written.                  *)
(***************************************************************************)
EXTENDS Integers, Sequences, FiniteSets

CONSTANTS
  Putters,              \* the threads that put
  Keys,                 \* the keys they put
  MaxPuts,              \* bound: the number of put calls
  PrefixCap,            \* numeric_limits<u16>::max(): where fNumPrefix stops
  TableSize,            \* kMaxFileSize, in values
  Concurrency,          \* fConcurrency
  Faults                \* what can go wrong

ASSUME PuttersAssumption == IsFiniteSet(Putters) /\ Putters # {}
ASSUME KeysAssumption == IsFiniteSet(Keys) /\ Keys \subseteq Nat \X Nat
ASSUME BoundsAssumption ==
  /\ MaxPuts \in Nat
  /\ PrefixCap \in Nat \ {0}
  /\ TableSize \in Nat \ {0}
  /\ Concurrency \in Nat \ {0}
ASSUME FaultsAssumption ==
  Faults \subseteq {"create", "put", "flush", "open", "read", "table", "commit"}

Ids == 0 .. Cardinality(Putters) - 1
Calls == 0 .. MaxPuts - 1
NoWriter == -1
Missing == -1
Prefix(k) == k[1]
Prefixes == {Prefix(k) : k \in Keys}
Less(k, l) == k[1] < l[1] \/ (k[1] = l[1] /\ k[2] < l[2])

VARIABLES
  phase,                \* how far close() is
  writer,               \* the id of the Writer in each thread's gate
  nextId,               \* fWriterIdGenerator
  sequence,             \* fSequence
  status,               \* per writer: "none", "open", "broken" or "closed"
  keyFile,              \* per writer: key.bin
  valueFile,            \* per writer: value.bin
  numPrefix,            \* per writer: fNumPrefix
  numKeys,              \* per writer: fNumKeys
  ok,                   \* the flag the builders share
  stage,                \* per prefix: where its BuildTable is
  bins,                 \* per prefix: the tables it still has to write
  number,               \* per prefix: the number of the table it writes
  built,                \* per prefix: the tables in its result
  fileNumber,           \* the next table number
  tables,               \* the entries added to each table, by its number
  torn,                 \* the tables without a footer: nothing in them can be read
  manifest,             \* the manifest file
  calls,                \* history: the number of put calls
  contents              \* history: the value last put for each key

writerVars == <<writer, nextId, sequence, status, keyFile, valueFile, numPrefix,
                numKeys>>
buildVars == <<stage, bins, number, built, fileNumber, tables, torn>>
putVars == <<calls, contents>>
vars == <<phase, writerVars, ok, buildVars, manifest, putVars>>

NoManifest == [tables |-> {}, lastSequence |-> 0, nextFile |-> 0]

Init ==
  /\ phase = "open"
  /\ writer = [t \in Putters |-> NoWriter]
  /\ nextId = 0
  /\ sequence = 0
  /\ status = [w \in Ids |-> "none"]
  /\ keyFile = [w \in Ids |-> <<>>]
  /\ valueFile = [w \in Ids |-> <<>>]
  /\ numPrefix = [w \in Ids |-> [p \in Prefixes |-> 0]]
  /\ numKeys = [w \in Ids |-> 0]
  /\ ok = TRUE
  /\ stage = [p \in Prefixes |-> "todo"]
  /\ bins = [p \in Prefixes |-> <<>>]
  /\ number = [p \in Prefixes |-> 0]
  /\ built = [p \in Prefixes |-> {}]
  /\ fileNumber = 1
  /\ tables = <<>>
  /\ torn = {}
  /\ manifest = NoManifest
  /\ calls = 0
  /\ contents = [k \in Keys |-> Missing]

-----------------------------------------------------------------------------
\* A caller puts a value, of no key twice: TobeConverter shows NoKeyPutTwice.
Called(k) ==
  /\ phase = "open"
  /\ calls < MaxPuts
  /\ contents[k] = Missing
  /\ calls' = calls + 1
  /\ contents' = [contents EXCEPT ![k] = calls]

\* Mutant: the writer's id is loaded from the generator without advancing it.
GetSameId(t) ==
  /\ phase = "open"
  /\ writer[t] = NoWriter
  /\ calls < MaxPuts
  /\ writer' = [writer EXCEPT ![t] = nextId]
  /\ \E s \in {"open"} \cup {"broken" : f \in Faults \cap {"create"}} :
       status' = [status EXCEPT ![nextId] = s]
  /\ keyFile' = [keyFile EXCEPT ![nextId] = <<>>]
  /\ valueFile' = [valueFile EXCEPT ![nextId] = <<>>]
  /\ UNCHANGED <<phase, nextId, sequence, numPrefix, numKeys, ok, buildVars,
                 manifest, putVars>>

\* gate()->get for a thread without a Writer: one is made, with the next id.
\* Its constructor deletes the directory of that id and creates empty files,
\* or leaves the Writer without files when that fails.
Get(t) ==
  /\ phase = "open"
  /\ writer[t] = NoWriter
  /\ calls < MaxPuts
  /\ writer' = [writer EXCEPT ![t] = nextId]
  /\ nextId' = nextId + 1
  /\ \E s \in {"open"} \cup {"broken" : f \in Faults \cap {"create"}} :
       status' = [status EXCEPT ![nextId] = s]
  /\ keyFile' = [keyFile EXCEPT ![nextId] = <<>>]
  /\ valueFile' = [valueFile EXCEPT ![nextId] = <<>>]
  /\ UNCHANGED <<phase, sequence, numPrefix, numKeys, ok, buildVars, manifest,
                 putVars>>

\* fNumPrefix counts up to the largest u16.
CountKey(n) == IF n < PrefixCap THEN n + 1 ELSE n

\* Writer::put with both files open: the value, then the key with the value's
\* offset, are appended.
PutWritten(t, k) ==
  LET w == writer[t]
  IN  /\ w # NoWriter
      /\ status[w] = "open"
      /\ Called(k)
      /\ sequence' = sequence + 1
      /\ valueFile' = [valueFile EXCEPT ![w] = Append(@, calls)]
      /\ keyFile' = [keyFile EXCEPT ![w] =
           Append(@, [key |-> k, offset |-> Len(valueFile[w]) + 1,
                      sequence |-> sequence])]
      /\ numKeys' = [numKeys EXCEPT ![w] = @ + 1]
      /\ numPrefix' = [numPrefix EXCEPT ![w][Prefix(k)] = CountKey(@)]
      /\ UNCHANGED <<phase, writer, nextId, status, ok, buildVars, manifest>>

\* Writer::put when a write fails: the files are closed and deleted.
PutFails(t, k) ==
  LET w == writer[t]
  IN  /\ "put" \in Faults
      /\ w # NoWriter
      /\ status[w] = "open"
      /\ Called(k)
      /\ sequence' = sequence + 1
      /\ status' = [status EXCEPT ![w] = "broken"]
      /\ keyFile' = [keyFile EXCEPT ![w] = <<>>]
      /\ valueFile' = [valueFile EXCEPT ![w] = <<>>]
      /\ UNCHANGED <<phase, writer, nextId, numPrefix, numKeys, ok, buildVars,
                     manifest>>

\* Writer::put without its files: it returns without a word.
PutDropped(t, k) ==
  /\ writer[t] # NoWriter
  /\ status[writer[t]] = "broken"
  /\ Called(k)
  /\ UNCHANGED <<phase, writerVars, ok, buildVars, manifest>>

-----------------------------------------------------------------------------
\* Every drained writer had its files when it was closed.
NoneBroken == \A w \in Ids : status[w] # "broken"

\* The first half of close(): the writers are drained and closed.  fclose can
\* lose what is still buffered, and its result is not looked at.
CloseWriters ==
  /\ phase = "open"
  /\ status' = [w \in Ids |-> IF status[w] = "open" THEN "closed" ELSE status[w]]
  /\ \/ UNCHANGED <<keyFile, valueFile>>
     \/ \E w \in Ids :
          /\ "flush" \in Faults
          /\ status[w] = "open"
          /\ keyFile[w] # <<>>
          /\ \/ /\ keyFile' = [keyFile EXCEPT ![w] = SubSeq(@, 1, Len(@) - 1)]
                /\ UNCHANGED valueFile
             \/ /\ valueFile' = [valueFile EXCEPT ![w] = SubSeq(@, 1, Len(@) - 1)]
                /\ UNCHANGED keyFile
  /\ ok' = NoneBroken
  /\ phase' = IF NoneBroken THEN "build" ELSE "failed"
  /\ UNCHANGED <<writer, nextId, sequence, numPrefix, numKeys, buildVars,
                 manifest, putVars>>

\* The caller gives up instead of closing: the writers drop their files.
Abandon ==
  /\ phase = "open"
  /\ phase' = "abandoned"
  /\ status' = [w \in Ids |-> IF status[w] = "none" THEN "none" ELSE "broken"]
  /\ keyFile' = [w \in Ids |-> <<>>]
  /\ valueFile' = [w \in Ids |-> <<>>]
  /\ UNCHANGED <<writer, nextId, sequence, numPrefix, numKeys, ok, buildVars,
                 manifest, putVars>>

-----------------------------------------------------------------------------
\* Where the keys of a prefix are in a writer's key file.
Found(w, p) == {i \in DOMAIN keyFile[w] : Prefix(keyFile[w][i].key) = p}

\* BuildTable stops reading at the expected count, except at the cap, where the
\* count says nothing and the whole file is read.
Exact(w, p) == numPrefix[w][p] < PrefixCap

ReadFrom(w, p) ==
  IF Exact(w, p)
  THEN {i \in Found(w, p) :
          Cardinality({j \in Found(w, p) : j <= i}) <= numPrefix[w][p]}
  ELSE Found(w, p)

\* The file ends before the reading does.
EndsEarly(w, p) ==
  /\ numPrefix[w][p] # 0
  /\ IF Exact(w, p) THEN Cardinality(Found(w, p)) < numPrefix[w][p]
                    ELSE Len(keyFile[w]) < numKeys[w]

\* Every key of the prefix, with the writer that has its value.
KeysRead(p) ==
  UNION {{[key |-> keyFile[w][i].key, offset |-> keyFile[w][i].offset,
           sequence |-> keyFile[w][i].sequence, writer |-> w] :
            i \in ReadFrom(w, p)} : w \in Ids}

\* sort by the user key alone: keys that are equal come in any order.
Sorted(S) ==
  {s \in [1 .. Cardinality(S) -> S] :
     /\ S = {s[i] : i \in DOMAIN s}
     /\ \A i, j \in DOMAIN s :
          i < j => s[i] # s[j] /\ ~Less(s[j].key, s[i].key)}

\* Mutant: the split shares one key between two tables.
BinsOverlap(s) ==
  [b \in 1 .. (Len(s) + TableSize - 1) \div TableSize |->
     SubSeq(s, (b - 1) * TableSize + 1,
            IF b * TableSize < Len(s) THEN b * TableSize + 1 ELSE Len(s))]

\* A table ends with the key that brings it to kMaxFileSize.
Bins(s) ==
  [b \in 1 .. (Len(s) + TableSize - 1) \div TableSize |->
     SubSeq(s, (b - 1) * TableSize + 1,
            IF b * TableSize < Len(s) THEN b * TableSize ELSE Len(s))]

Building == {p \in Prefixes : stage[p] \in {"sorted", "writing"}}

\* A thread of the Reduce takes the prefix.
Starts(p) ==
  /\ phase = "build"
  /\ stage[p] = "todo"
  /\ Cardinality(Building) < Concurrency

\* BuildTable up to the sort.
ReadKeys(p) ==
  /\ Starts(p)
  /\ ok
  /\ \A w \in Ids : ~EndsEarly(w, p)
  /\ \E s \in Sorted(KeysRead(p)) : bins' = [bins EXCEPT ![p] = Bins(s)]
  /\ stage' = [stage EXCEPT ![p] = IF KeysRead(p) = {} THEN "done" ELSE "sorted"]
  /\ UNCHANGED <<phase, writerVars, ok, number, built, fileNumber, tables, torn,
                 manifest, putVars>>

\* Mutant: the prefix is not handed back when another one has failed.
SkipForgets(p) ==
  /\ Starts(p)
  /\ ~ok
  /\ UNCHANGED vars

\* BuildTable when another one has failed: the result is empty.
SkipPrefix(p) ==
  /\ Starts(p)
  /\ ~ok
  /\ stage' = [stage EXCEPT ![p] = "done"]
  /\ UNCHANGED <<phase, writerVars, ok, bins, number, built, fileNumber, tables, torn,
                 manifest, putVars>>

\* BuildTable when a key file cannot be opened, or ends early.  In the second
\* case most branches close the file twice, which may end the process.
ReadKeysFails(p) ==
  /\ Starts(p)
  /\ ok
  /\ \/ /\ "open" \in Faults
        /\ \E w \in Ids : numPrefix[w][p] # 0
        /\ UNCHANGED phase
     \/ /\ \E w \in Ids : EndsEarly(w, p)
        /\ phase' \in {phase, "crashed"}
  /\ ok' = FALSE
  /\ stage' = [stage EXCEPT ![p] = "done"]
  /\ UNCHANGED <<writerVars, bins, number, built, fileNumber, tables, torn,
                 manifest, putVars>>

\* Mutant: the table number is loaded but not advanced.
OpenSameTable(p) ==
  /\ phase = "build"
  /\ stage[p] = "sorted"
  /\ number' = [number EXCEPT ![p] = fileNumber]
  /\ stage' = [stage EXCEPT ![p] = "writing"]
  /\ UNCHANGED <<phase, writerVars, ok, bins, built, tables, torn, manifest,
                 putVars, fileNumber>>

\* fileNumber->fetch_add(1), on the way into Write.
OpenTable(p) ==
  /\ phase = "build"
  /\ stage[p] = "sorted"
  /\ number' = [number EXCEPT ![p] = fileNumber]
  /\ fileNumber' = fileNumber + 1
  /\ stage' = [stage EXCEPT ![p] = "writing"]
  /\ UNCHANGED <<phase, writerVars, ok, bins, built, tables, torn,
                 manifest, putVars>>

\* The values of the table are in the value files the writers closed.
ValuesThere(bin) == \A i \in DOMAIN bin : bin[i].offset <= Len(valueFile[bin[i].writer])

\* The values behind their internal keys.
TableOf(bin) ==
  [i \in DOMAIN bin |->
     [key |-> bin[i].key, sequence |-> bin[i].sequence,
      value |-> valueFile[bin[i].writer][bin[i].offset]]]

\* Write: each value is copied behind its internal key, and the table joins the
\* result.  A flag cleared by another builder is not looked at any more.  The
\* builder keeps the first failure of an append or a flush and skips what comes
\* after it, the footer in any case, but nobody asks it, nor Finish or Close:
\* the table joins the result all the same.
WriteTable(p) ==
  LET bin == Head(bins[p])
  IN  /\ phase = "build"
      /\ stage[p] = "writing"
      /\ ValuesThere(bin)
      /\ tables' = [n \in DOMAIN tables \cup {number[p]} |->
           IF n = number[p] THEN TableOf(bin) ELSE tables[n]]
      /\ \/ torn' = torn
         \/ "table" \in Faults /\ torn' = torn \cup {number[p]}
      /\ built' = [built EXCEPT ![p] = @ \cup {number[p]}]
      /\ bins' = [bins EXCEPT ![p] = Tail(@)]
      /\ stage' = [stage EXCEPT ![p] = IF Len(bins[p]) = 1 THEN "done" ELSE "sorted"]
      /\ UNCHANGED <<phase, writerVars, ok, number, fileNumber, manifest,
                     putVars>>

\* ok->store(false); return {}: the tables this prefix has written are dropped.
FailPrefix(p) ==
  /\ ok' = FALSE
  /\ built' = [built EXCEPT ![p] = {}]
  /\ bins' = [bins EXCEPT ![p] = <<>>]
  /\ stage' = [stage EXCEPT ![p] = "done"]

\* Write fails: the table file cannot be opened, before there is a builder, or
\* a value cannot be read, and the builder goes without Finish or Abandon.
WriteTableFails(p) ==
  /\ phase = "build"
  /\ stage[p] = "writing"
  /\ "open" \in Faults \/ "read" \in Faults \/ ~ValuesThere(Head(bins[p]))
  /\ FailPrefix(p)
  /\ UNCHANGED <<phase, writerVars, number, fileNumber, tables, torn, manifest,
                 putVars>>

-----------------------------------------------------------------------------
Result == UNION {built[p] : p \in Prefixes}

BuildersReturned == phase = "build" /\ \A p \in Prefixes : stage[p] = "done"

MaxOf(S) == IF S = {} THEN 0 ELSE CHOOSE n \in S : \A m \in S : m <= n

\* Mutant: the commit goes on although a builder failed.
BuildFailsUnseen ==
  /\ BuildersReturned
  /\ ~ok
  /\ manifest' = [tables |-> Result, lastSequence |-> sequence,
                  nextFile |-> MaxOf(Result) + 1]
  /\ phase' = "manifest"
  /\ UNCHANGED <<writerVars, ok, buildVars, putVars>>

\* close() returns false after the Reduce.
BuildFails ==
  /\ BuildersReturned
  /\ ~ok
  /\ phase' = "failed"
  /\ UNCHANGED <<writerVars, ok, buildVars, manifest, putVars>>

\* MANIFEST-000001 lists the tables of the result at level 1.
WriteManifest ==
  /\ BuildersReturned
  /\ ok
  /\ manifest' = [tables |-> Result, lastSequence |-> sequence,
                  nextFile |-> MaxOf(Result) + 1]
  /\ phase' = "manifest"
  /\ UNCHANGED <<writerVars, ok, buildVars, putVars>>

\* CURRENT names the manifest: from here on the database can be opened.
WriteCurrent ==
  /\ phase = "manifest"
  /\ phase' = "committed"
  /\ UNCHANGED <<writerVars, ok, buildVars, manifest, putVars>>

\* The manifest or CURRENT cannot be written: close() returns false.
CommitFails ==
  /\ "commit" \in Faults
  /\ phase = "manifest" \/ (BuildersReturned /\ ok)
  /\ phase' = "failed"
  /\ UNCHANGED <<writerVars, ok, buildVars, manifest, putVars>>

Ended == phase \in {"committed", "failed", "abandoned", "crashed"}

\* The database object is gone.
Terminated == Ended /\ UNCHANGED vars

Build(p) ==
  \/ ReadKeys(p)
  \/ SkipPrefix(p)
  \/ ReadKeysFails(p)
  \/ OpenTable(p)
  \/ WriteTable(p)
  \/ WriteTableFails(p)

Next ==
  \/ \E t \in Putters : Get(t)
  \/ \E t \in Putters, k \in Keys : PutWritten(t, k) \/ PutFails(t, k) \/ PutDropped(t, k)
  \/ CloseWriters
  \/ Abandon
  \/ \E p \in Prefixes : Build(p)
  \/ BuildFails
  \/ WriteManifest
  \/ WriteCurrent
  \/ CommitFails
  \/ Terminated

SafeSpec == Init /\ [][Next]_vars

\* The threads of close() run and its file operations return.
Spec == SafeSpec /\ WF_vars(Next)

-----------------------------------------------------------------------------
Listed == IF phase = "committed" THEN manifest.tables ELSE {}
Entries(n) == {tables[n][i] : i \in DOMAIN tables[n]}

\* What LevelDB finds at the last sequence: the newest entry of each key, in the
\* tables it can open.
Readable(k) ==
  {e \in UNION {Entries(n) : n \in Listed \ torn} :
     e.key = k /\ e.sequence <= manifest.lastSequence}

Content ==
  [k \in Keys |->
     IF Readable(k) = {} THEN Missing
     ELSE (CHOOSE e \in Readable(k) :
             \A f \in Readable(k) : f.sequence <= e.sequence).value]

\* The keys whose value went into a table that was torn.
LostKeys == {k \in Keys : \E n \in torn : \E e \in Entries(n) : e.key = k}

Store == INSTANCE KvStore WITH
           Values <- Calls,
           lost <- LostKeys,
           visible <- Content,
           state <- IF phase \in {"open", "build", "manifest"} THEN "open"
                    ELSE IF phase = "committed" THEN "committed" ELSE "failed"

\* close() makes the values put by all threads readable at once, or returns
\* false and makes none readable: a put that lost its writer, a flush that lost
\* bytes or a table that could not be built never goes unnoticed, and all that
\* can be missing after true is what was in a torn table.
ImplementsStore == Store!Spec

\* When close() has returned true, every value that was put can be read.
CommitIsComplete == phase = "committed" => Content = contents

\* The tables the manifest lists at level 1 have no user key in common and do
\* not interleave, as LevelDB requires of every level but the first.
LevelOneDisjoint ==
  \A m, n \in manifest.tables :
    m # n =>
      \/ \A d \in Entries(m), e \in Entries(n) : Less(d.key, e.key)
      \/ \A d \in Entries(m), e \in Entries(n) : Less(e.key, d.key)

\* A table file, once written, is never written again: concurrent builders
\* never get the same number.
NoTableOverwritten ==
  [][\A n \in DOMAIN tables : n \in DOMAIN tables' /\ tables'[n] = tables[n]]_vars

\* A flag cleared by one builder stays cleared until close() has returned
\* false: the failure of a prefix is not lost among the other builders.
FailureSticks ==
  [][phase = "build" /\ ~ok => ~ok' /\ phase' \in {"build", "failed", "crashed"}]_vars

\* close() returns, whichever builder fails and whenever.
Termination == <>Ended
=============================================================================
