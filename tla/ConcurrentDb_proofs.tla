------------------------ MODULE ConcurrentDb_proofs ------------------------
(***************************************************************************)
(* Proofs about ConcurrentDb for any threads, keys and bounds: that it     *)
(* implements KvStore, and that its tables can be read at level 1.  The    *)
(* inductive invariant IInv has one part per idea:                         *)
(*   TypeInv      the types;                                               *)
(*   GateInv      the ids given out so far are those of the threads, and a *)
(*                writer that is not made yet has nothing;                 *)
(*   FileInv      each key is in one place, with the value put for it;     *)
(*   CountInv     an open writer counts what is in its files, and what was *)
(*                put is there unless a writer broke;                      *)
(*   LossInv      what is lost when the writers are closed is missed by    *)
(*                the builder of that prefix;                              *)
(*   StageInv     table numbers are given once, and built tables exist;    *)
(*   SourceInv    what a builder has read, and written, is in the files;   *)
(*   OrderInv     the tables of a prefix and what is left of it ascend;    *)
(*   CoverInv     every key put is in a table, or left to be written;      *)
(*   TornInv      a torn table is a table of the result while nothing      *)
(*                failed, and there is none unless writes to tables fail;  *)
(*   CommitInv    the manifest lists the tables built, once nothing failed.*)
(***************************************************************************)
EXTENDS ConcurrentDb, FiniteSetTheorems, SequenceTheorems, TLAPS

KeyEntry == [key : Keys, offset : Nat, sequence : Nat]
FileKey == [key : Keys, offset : Nat, sequence : Nat, writer : Ids]
TableEntry == [key : Keys, sequence : Nat, value : Nat]

TypeInv ==
  /\ phase \in {"open", "build", "manifest", "committed", "failed", "abandoned", "crashed"}
  /\ writer \in [Putters -> Ids \cup {NoWriter}]
  /\ nextId \in Nat /\ sequence \in Nat /\ fileNumber \in Nat /\ calls \in Nat
  /\ status \in [Ids -> {"none", "open", "broken", "closed"}]
  /\ keyFile \in [Ids -> Seq(KeyEntry)]
  /\ valueFile \in [Ids -> Seq(Nat)]
  /\ numPrefix \in [Ids -> [Prefixes -> Nat]]
  /\ numKeys \in [Ids -> Nat]
  /\ ok \in BOOLEAN
  /\ stage \in [Prefixes -> {"todo", "sorted", "writing", "done"}]
  /\ bins \in [Prefixes -> Seq(Seq(FileKey))]
  /\ number \in [Prefixes -> Nat]
  /\ built \in [Prefixes -> SUBSET Nat]
  /\ DOMAIN tables \subseteq Nat
  /\ \A n \in DOMAIN tables : tables[n] \in Seq(TableEntry)
  /\ contents \in [Keys -> Calls \cup {Missing}]

HasWriter == {t \in Putters : writer[t] # NoWriter}

GateInv ==
  phase = "open" =>
    /\ nextId = Cardinality(HasWriter)
    /\ \A t \in HasWriter : writer[t] < nextId
    /\ \A w \in Ids : w >= nextId =>
         /\ status[w] = "none" /\ keyFile[w] = <<>> /\ valueFile[w] = <<>>
         /\ numKeys[w] = 0
         /\ \A p \in Prefixes : numPrefix[w][p] = 0

FileInv ==
  /\ \A w \in Ids : \A i \in DOMAIN keyFile[w] :
       /\ keyFile[w][i].offset = i
       /\ keyFile[w][i].sequence < sequence
       /\ contents[keyFile[w][i].key] # Missing
       /\ i \in DOMAIN valueFile[w] => valueFile[w][i] = contents[keyFile[w][i].key]
  /\ \A v, w \in Ids : \A i \in DOMAIN keyFile[v], j \in DOMAIN keyFile[w] :
       keyFile[v][i].key = keyFile[w][j].key => v = w /\ i = j

InFiles(k) == \E w \in Ids : \E i \in DOMAIN keyFile[w] : keyFile[w][i].key = k
Put(k) == contents[k] # Missing

\* A count that stops at the cap.
Capped(n) == IF n < PrefixCap THEN n ELSE PrefixCap

CountInv ==
  phase = "open" =>
    /\ \A w \in Ids : status[w] = "open" =>
         /\ Len(valueFile[w]) = Len(keyFile[w]) /\ numKeys[w] = Len(keyFile[w])
         /\ \A p \in Prefixes : numPrefix[w][p] = Capped(Cardinality(Found(w, p)))
    /\ \A w \in Ids : status[w] \in {"none", "broken"} => keyFile[w] = <<>>
    /\ \A w \in Ids : status[w] # "closed"
    /\ \A w \in Ids : status[w] = "none" => \A p \in Prefixes : numPrefix[w][p] = 0
    /\ NoneBroken => \A k \in Keys : Put(k) => InFiles(k)

LossInv ==
  phase = "build" =>
    /\ \A w \in Ids, p \in Prefixes :
         Exact(w, p) => Cardinality(Found(w, p)) <= numPrefix[w][p]
    /\ \A k \in Keys : Put(k) => InFiles(k) \/ \E w \in Ids : EndsEarly(w, Prefix(k))

StageInv ==
  /\ phase = "open" => ok /\ \A p \in Prefixes : stage[p] = "todo"
  /\ \A p \in Prefixes : stage[p] = "todo" => built[p] = {}
  /\ \A p \in Prefixes : stage[p] \in {"todo", "done"} <=> bins[p] = <<>>
  /\ \A p \in Prefixes : stage[p] = "writing" =>
       /\ number[p] < fileNumber /\ number[p] \notin DOMAIN tables
       /\ \A q \in Prefixes : stage[q] = "writing" /\ number[q] = number[p] => q = p
  /\ \A n \in DOMAIN tables : n < fileNumber
  /\ \A p \in Prefixes : built[p] \subseteq DOMAIN tables

\* A key the builder of p has read is in a file, and so is an entry it wrote.
KeyFromFile(p, r) ==
  /\ Prefix(r.key) = p
  /\ r.offset \in DOMAIN keyFile[r.writer]
  /\ keyFile[r.writer][r.offset].key = r.key
  /\ keyFile[r.writer][r.offset].sequence = r.sequence
EntryFromFile(p, e) ==
  /\ Prefix(e.key) = p
  /\ e.value = contents[e.key]
  /\ \E w \in Ids : \E i \in DOMAIN keyFile[w] :
       keyFile[w][i].key = e.key /\ keyFile[w][i].sequence = e.sequence

SourceInv ==
  /\ \A p \in Prefixes : \A b \in DOMAIN bins[p] : \A i \in DOMAIN bins[p][b] :
       KeyFromFile(p, bins[p][b][i])
  /\ \A p \in Prefixes : \A n \in built[p] : \A e \in Entries(n) : EntryFromFile(p, e)

\* Every key of one set is less than every key of the other.
AllLess(S, T) == \A d \in S, e \in T : Less(d.key, e.key)
Elements(s) == {s[i] : i \in DOMAIN s}

OrderInv ==
  \A p \in Prefixes :
    /\ \A m, n \in built[p] :
         m = n \/ AllLess(Entries(m), Entries(n)) \/ AllLess(Entries(n), Entries(m))
    /\ \A n \in built[p], b \in DOMAIN bins[p] :
         AllLess(Entries(n), Elements(bins[p][b]))
    /\ \A b, c \in DOMAIN bins[p] :
         b < c => AllLess(Elements(bins[p][b]), Elements(bins[p][c]))

\* A key is in a table of its prefix, or left to be written.
InTables(k) == \E n \in built[Prefix(k)] : \E e \in Entries(n) : e.key = k
InBins(k) ==
  \E b \in DOMAIN bins[Prefix(k)] : \E r \in Elements(bins[Prefix(k)][b]) : r.key = k

CoverInv ==
  ok => \A k \in Keys : Put(k) /\ stage[Prefix(k)] # "todo" => InTables(k) \/ InBins(k)

TornInv ==
  /\ torn \subseteq DOMAIN tables
  /\ ok => torn \subseteq Result
  /\ torn # {} => "table" \in Faults

CommitInv ==
  /\ manifest.tables \subseteq Result
  /\ phase \in {"open", "build"} => manifest.tables = {}
  /\ phase \in {"manifest", "committed"} =>
       /\ ok /\ \A p \in Prefixes : stage[p] = "done"
       /\ manifest.tables = Result /\ manifest.lastSequence = sequence

IInv ==
  /\ TypeInv
  /\ GateInv
  /\ FileInv
  /\ CountInv
  /\ LossInv
  /\ StageInv
  /\ SourceInv
  /\ OrderInv
  /\ CoverInv
  /\ TornInv
  /\ CommitInv

-----------------------------------------------------------------------------
\* What the constants are.
LEMMA Constants ==
  /\ Cardinality(Putters) \in Nat /\ Ids = 0 .. Cardinality(Putters) - 1 /\ Ids \subseteq Nat
  /\ Keys \subseteq Nat \X Nat /\ Prefixes \subseteq Nat /\ \A k \in Keys : Prefix(k) \in Prefixes
  /\ Calls \subseteq Nat /\ MaxPuts \in Nat
  /\ PrefixCap \in Nat \ {0} /\ TableSize \in Nat \ {0}
  /\ NoWriter \notin Ids /\ Missing \notin Calls
<1>1. Cardinality(Putters) \in Nat
  BY PuttersAssumption, FS_CardinalityType
<1>2. Keys \subseteq Nat \X Nat /\ Prefixes \subseteq Nat
  BY KeysAssumption DEF Prefixes, Prefix
<1>. QED  BY <1>1, <1>2, BoundsAssumption DEF Ids, Calls, NoWriter, Missing, Prefixes

\* Keys are totally ordered.
LEMMA LessOrder ==
  /\ \A k \in Keys : ~ Less(k, k)
  /\ \A k, l \in Keys : Less(k, l) \/ Less(l, k) \/ k = l
  /\ \A k, l \in Keys : Prefix(k) < Prefix(l) => Less(k, l)
<1>1. ASSUME NEW k \in Keys PROVE k[1] \in Nat /\ k[2] \in Nat /\ k = <<k[1], k[2]>>
  BY KeysAssumption
<1>. QED  BY <1>1 DEF Less, Prefix

\* Where a prefix is in a sequence of entries.
FoundIn(s, p) == {i \in DOMAIN s : Prefix(s[i].key) = p}

LEMMA FoundFinite ==
  ASSUME NEW s \in Seq(KeyEntry), NEW p
  PROVE  IsFiniteSet(FoundIn(s, p)) /\ Cardinality(FoundIn(s, p)) \in Nat
<1>1. IsFiniteSet(1 .. Len(s)) /\ DOMAIN s = 1 .. Len(s)
  BY LenProperties, FS_Interval
<1>2. FoundIn(s, p) \subseteq 1 .. Len(s)
  BY <1>1 DEF FoundIn
<1>. QED  BY <1>1, <1>2, FS_Subset, FS_CardinalityType

\* One more entry is one more place, of its prefix.
LEMMA FoundAppend ==
  ASSUME NEW s \in Seq(KeyEntry), NEW e \in KeyEntry, NEW p
  PROVE  Cardinality(FoundIn(Append(s, e), p)) =
           IF Prefix(e.key) = p THEN Cardinality(FoundIn(s, p)) + 1
                                ELSE Cardinality(FoundIn(s, p))
<1>. DEFINE t == Append(s, e)
<1>1. Len(s) \in Nat /\ DOMAIN s = 1 .. Len(s)
  BY LenProperties
<1>2. /\ t \in Seq(KeyEntry) /\ Len(t) = Len(s) + 1
      /\ \A i \in 1 .. Len(s) : t[i] = s[i]
      /\ t[Len(s) + 1] = e
  BY AppendProperties
<1>3. DOMAIN t = 1 .. Len(t)
  BY <1>2, LenProperties
<1>. HIDE DEF t
<1>4. CASE Prefix(e.key) = p
  <2>1. FoundIn(t, p) = FoundIn(s, p) \cup {Len(s) + 1} /\ Len(s) + 1 \notin FoundIn(s, p)
    BY <1>1, <1>2, <1>3, <1>4 DEF FoundIn
  <2>2. IsFiniteSet(FoundIn(s, p))
    BY FoundFinite
  <2>3. Cardinality(FoundIn(s, p) \cup {Len(s) + 1}) = Cardinality(FoundIn(s, p)) + 1
    BY <2>1, <2>2, FS_AddElement
  <2>. QED  BY <1>4, <2>1, <2>3 DEF t
<1>5. CASE Prefix(e.key) # p
  <2>1. FoundIn(t, p) = FoundIn(s, p)
    BY <1>1, <1>2, <1>3, <1>5 DEF FoundIn
  <2>. QED  BY <1>5, <2>1 DEF t
<1>. QED  BY <1>4, <1>5

\* A sequence without its last element.
ButLast(s) == SubSeq(s, 1, Len(s) - 1)

LEMMA ButLastProperties ==
  ASSUME NEW S, NEW s \in Seq(S), s # <<>>
  PROVE  /\ Len(s) \in Nat \ {0} /\ DOMAIN s = 1 .. Len(s)
         /\ ButLast(s) \in Seq(S) /\ Len(ButLast(s)) = Len(s) - 1
         /\ DOMAIN ButLast(s) = 1 .. Len(s) - 1
         /\ \A i \in 1 .. Len(s) - 1 : ButLast(s)[i] = s[i]
<1>1. Len(s) \in Nat \ {0} /\ DOMAIN s = 1 .. Len(s)
  BY LenProperties, EmptySeq
<1>2. \A i \in 1 .. Len(s) - 1 : s[i] \in S
  BY <1>1, ElementOfSeq
<1>3. /\ ButLast(s) \in Seq(S) /\ Len(ButLast(s)) = Len(s) - 1
      /\ \A i \in 1 .. Len(s) - 1 : ButLast(s)[i] = s[i]
  BY <1>1, <1>2, SubSeqProperties DEF ButLast
<1>4. DOMAIN ButLast(s) = 1 .. Len(s) - 1
  BY <1>3, LenProperties
<1>. QED  BY <1>1, <1>3, <1>4

\* Losing the last entry loses one place, of its prefix.
LEMMA FoundButLast ==
  ASSUME NEW s \in Seq(KeyEntry), s # <<>>, NEW p
  PROVE  Cardinality(FoundIn(ButLast(s), p)) =
           IF Prefix(s[Len(s)].key) = p THEN Cardinality(FoundIn(s, p)) - 1
                                        ELSE Cardinality(FoundIn(s, p))
<1>. DEFINE t == ButLast(s)
<1>1. /\ Len(s) \in Nat \ {0} /\ DOMAIN s = 1 .. Len(s)
      /\ DOMAIN t = 1 .. Len(s) - 1
      /\ \A i \in 1 .. Len(s) - 1 : t[i] = s[i]
  BY ButLastProperties
<1>. HIDE DEF t
<1>2. FoundIn(t, p) = FoundIn(s, p) \ {Len(s)}
  BY <1>1 DEF FoundIn
<1>3. Len(s) \in FoundIn(s, p) <=> Prefix(s[Len(s)].key) = p
  BY <1>1 DEF FoundIn
<1>. QED  BY <1>2, <1>3, FoundFinite, FS_RemoveElement DEF t

-----------------------------------------------------------------------------
\* The elements of a sequence, in one table each, in their order.
LEMMA BinsProperties ==
  ASSUME NEW S, NEW s \in Seq(S)
  PROVE  /\ Bins(s) \in Seq(Seq(S))
         /\ Bins(s) = <<>> <=> s = <<>>
         /\ \A b \in DOMAIN Bins(s) : Elements(Bins(s)[b]) \subseteq Elements(s)
         /\ \A x \in Elements(s) : \E b \in DOMAIN Bins(s) : x \in Elements(Bins(s)[b])
         /\ \A b, c \in DOMAIN Bins(s) : b < c =>
              \A x \in Elements(Bins(s)[b]), y \in Elements(Bins(s)[c]) :
                \E i, j \in DOMAIN s : i < j /\ x = s[i] /\ y = s[j]
<1>. DEFINE N == (Len(s) + TableSize - 1) \div TableSize
            Last(b) == IF b * TableSize < Len(s) THEN b * TableSize ELSE Len(s)
            First(b) == (b - 1) * TableSize + 1
<1>0. TableSize \in Nat \ {0}
  BY Constants
<1>1. Len(s) \in Nat /\ DOMAIN s = 1 .. Len(s)
  BY LenProperties
<1>2. \A a \in Nat, t \in Nat \ {0} :
        a \div t \in Nat /\ (a \div t) * t <= a /\ a < (a \div t) * t + t
  BY Z3
<1>3. /\ N \in Nat /\ N * TableSize <= Len(s) + TableSize - 1
      /\ Len(s) + TableSize - 1 < N * TableSize + TableSize
  BY <1>0, <1>1, <1>2
<1>4. Bins(s) = [b \in 1 .. N |-> SubSeq(s, First(b), Last(b))]
  BY DEF Bins
<1>. HIDE DEF N
<1>5. \A b, c \in Nat : b < c => b * TableSize + TableSize <= c * TableSize
  BY <1>0
<1>6. ASSUME NEW b \in 1 .. N
      PROVE  First(b) \in Nat \ {0} /\ First(b) <= Last(b) /\ Last(b) \in Nat /\ Last(b) <= Len(s)
  <2>1. b - 1 \in Nat /\ b * TableSize \in Nat /\ (b - 1) * TableSize \in Nat
        /\ b * TableSize = (b - 1) * TableSize + TableSize
    BY <1>0, <1>3
  <2>2. b * TableSize <= N * TableSize
    BY <1>0, <1>3, <1>5
  <2>3. N * TableSize \in Nat
    BY <1>0, <1>3
  <2>. QED  BY <1>0, <1>1, <1>3, <2>1, <2>2, <2>3
<1>7. ASSUME NEW b \in 1 .. N
      PROVE  /\ Bins(s)[b] \in Seq(S)
             /\ Len(Bins(s)[b]) = Last(b) - First(b) + 1
             /\ DOMAIN Bins(s)[b] = 1 .. Last(b) - First(b) + 1
             /\ \A i \in 1 .. Last(b) - First(b) + 1 : Bins(s)[b][i] = s[First(b) + i - 1]
  <2>1. Bins(s)[b] = SubSeq(s, First(b), Last(b))
    BY <1>4
  <2>2. First(b) \in Int /\ Last(b) \in Int /\ First(b) <= Last(b)
    BY <1>6
  <2>3. \A i \in First(b) .. Last(b) : s[i] \in S
    BY <1>1, <1>6, ElementOfSeq
  <2>. HIDE DEF First, Last
  <2>4. /\ Bins(s)[b] \in Seq(S)
        /\ Len(Bins(s)[b]) = Last(b) - First(b) + 1
        /\ \A i \in 1 .. Last(b) - First(b) + 1 : Bins(s)[b][i] = s[First(b) + i - 1]
    BY <2>1, <2>2, <2>3, SubSeqProperties
  <2>. QED  BY <2>4, LenProperties
<1>8. Bins(s) \in Seq(Seq(S)) /\ DOMAIN Bins(s) = 1 .. N /\ Len(Bins(s)) = N
  <2>1. Bins(s) \in [1 .. N -> Seq(S)]
    BY <1>4, <1>7
  <2>2. Bins(s) \in Seq(Seq(S))
    BY <1>3, <2>1, SeqDef
  <2>3. DOMAIN Bins(s) = 1 .. N
    BY <1>4
  <2>4. DOMAIN Bins(s) = 1 .. Len(Bins(s)) /\ Len(Bins(s)) \in Nat
    BY <2>2, LenProperties
  <2>. QED  BY <1>3, <2>2, <2>3, <2>4
<1>9. Bins(s) = <<>> <=> s = <<>>
  <2>1. Bins(s) = <<>> <=> N = 0
    BY <1>3, <1>8, EmptySeq
  <2>2. s = <<>> <=> Len(s) = 0
    BY EmptySeq
  <2>3. N = 0 <=> Len(s) = 0
    <3>1. ASSUME Len(s) = 0, N # 0 PROVE FALSE
      <4>1. 0 * TableSize + TableSize <= N * TableSize
        BY <1>3, <1>5, <3>1
      <4>. QED  BY <1>0, <1>3, <3>1, <4>1
    <3>2. ASSUME N = 0 PROVE Len(s) = 0
      BY <1>0, <1>1, <1>3, <3>2
    <3>. QED  BY <3>1, <3>2
  <2>. QED  BY <2>1, <2>2, <2>3
<1>10. ASSUME NEW b \in 1 .. N, NEW x \in Elements(Bins(s)[b])
       PROVE  \E i \in DOMAIN s : First(b) <= i /\ i <= Last(b) /\ x = s[i]
  <2>1. PICK i \in 1 .. Last(b) - First(b) + 1 : x = s[First(b) + i - 1]
    BY <1>7, <1>10 DEF Elements
  <2>2. /\ First(b) + i - 1 \in 1 .. Len(s)
        /\ First(b) <= First(b) + i - 1 /\ First(b) + i - 1 <= Last(b)
    BY <1>1, <1>6
  <2>. QED  BY <1>1, <2>1, <2>2
<1>11. ASSUME NEW x \in Elements(s)
       PROVE  \E b \in 1 .. N : x \in Elements(Bins(s)[b])
  <2>1. PICK i \in DOMAIN s : x = s[i]
    BY <1>11 DEF Elements
  <2>. DEFINE b == (i + TableSize - 1) \div TableSize
  <2>2. i \in Nat \ {0} /\ i <= Len(s)
    BY <1>1
  <2>3. /\ b \in Nat /\ b * TableSize <= i + TableSize - 1
        /\ i + TableSize - 1 < b * TableSize + TableSize
    <3>1. i + TableSize - 1 \in Nat
      BY <1>0, <2>2
    <3>. QED  BY <1>0, <1>2, <3>1
  <2>. HIDE DEF b
  <2>4. b # 0
    BY <1>0, <2>2, <2>3
  <2>5. b <= N
    <3>1. N < b => N * TableSize + TableSize <= b * TableSize
      BY <1>3, <1>5, <2>3
    <3>2. N * TableSize \in Nat /\ b * TableSize \in Nat
      BY <1>0, <1>3, <2>3
    <3>. QED  BY <1>0, <1>1, <1>3, <2>2, <2>3, <3>1, <3>2
  <2>6. b * TableSize = (b - 1) * TableSize + TableSize /\ (b - 1) * TableSize \in Nat
    BY <1>0, <2>3, <2>4
  <2>7. First(b) <= i /\ i <= Last(b)
    BY <1>0, <1>1, <2>2, <2>3, <2>6
  <2>8. i - First(b) + 1 \in 1 .. Last(b) - First(b) + 1
    BY <1>6, <2>2, <2>3, <2>4, <2>5, <2>7
  <2>9. Bins(s)[b][i - First(b) + 1] = s[First(b) + (i - First(b) + 1) - 1]
    BY <1>3, <1>7, <2>3, <2>4, <2>5, <2>8
  <2>10. First(b) + (i - First(b) + 1) - 1 = i
    BY <1>6, <2>2, <2>3, <2>4, <2>5
  <2>. QED  BY <1>3, <1>7, <2>1, <2>3, <2>4, <2>5, <2>8, <2>9, <2>10 DEF Elements
<1>12. ASSUME NEW b \in 1 .. N, NEW c \in 1 .. N, b < c PROVE Last(b) < First(c)
  <2>1. b * TableSize <= (c - 1) * TableSize
    <3>1. b = c - 1 \/ b < c - 1
      BY <1>3, <1>12
    <3>2. b < c - 1 => b * TableSize + TableSize <= (c - 1) * TableSize
      BY <1>3, <1>5, <1>12
    <3>. QED  BY <1>0, <1>3, <3>1, <3>2
  <2>2. b * TableSize \in Nat /\ (c - 1) * TableSize \in Nat
    BY <1>0, <1>3
  <2>. QED  BY <1>1, <2>1, <2>2
<1>13. ASSUME NEW b \in 1 .. N, NEW c \in 1 .. N, b < c,
              NEW x \in Elements(Bins(s)[b]), NEW y \in Elements(Bins(s)[c])
       PROVE  \E i, j \in DOMAIN s : i < j /\ x = s[i] /\ y = s[j]
  <2>1. PICK i \in DOMAIN s : i <= Last(b) /\ x = s[i]
    BY <1>10, <1>13
  <2>2. PICK j \in DOMAIN s : First(c) <= j /\ y = s[j]
    BY <1>10, <1>13
  <2>3. i < j
    BY <1>1, <1>6, <1>12, <1>13, <2>1, <2>2
  <2>. QED  BY <2>1, <2>2, <2>3
<1>14. \A b \in 1 .. N : Elements(Bins(s)[b]) \subseteq Elements(s)
  BY <1>10 DEF Elements
<1>. QED  BY <1>8, <1>9, <1>11, <1>13, <1>14

-----------------------------------------------------------------------------
\* The entries of the files.
LEMMA FileEntries ==
  ASSUME TypeInv, NEW w \in Ids
  PROVE  /\ keyFile[w] \in Seq(KeyEntry) /\ valueFile[w] \in Seq(Nat)
         /\ DOMAIN keyFile[w] = 1 .. Len(keyFile[w]) /\ Len(keyFile[w]) \in Nat
         /\ DOMAIN valueFile[w] = 1 .. Len(valueFile[w]) /\ Len(valueFile[w]) \in Nat
         /\ \A i \in DOMAIN keyFile[w] : keyFile[w][i] \in KeyEntry
         /\ \A i \in DOMAIN valueFile[w] : valueFile[w][i] \in Nat
         /\ \A p : Found(w, p) = FoundIn(keyFile[w], p) /\ IsFiniteSet(Found(w, p))
                     /\ Cardinality(Found(w, p)) \in Nat
<1>1. keyFile[w] \in Seq(KeyEntry) /\ valueFile[w] \in Seq(Nat)
  BY DEF TypeInv
<1>2. /\ DOMAIN keyFile[w] = 1 .. Len(keyFile[w]) /\ Len(keyFile[w]) \in Nat
      /\ DOMAIN valueFile[w] = 1 .. Len(valueFile[w]) /\ Len(valueFile[w]) \in Nat
  BY <1>1, LenProperties
<1>3. /\ \A i \in DOMAIN keyFile[w] : keyFile[w][i] \in KeyEntry
      /\ \A i \in DOMAIN valueFile[w] : valueFile[w][i] \in Nat
  BY <1>1, <1>2, ElementOfSeq
<1>4. \A p : Found(w, p) = FoundIn(keyFile[w], p)
  BY DEF Found, FoundIn
<1>. QED  BY <1>1, <1>2, <1>3, <1>4, FoundFinite

\* What BuildTable makes of an entry.
KeyAt(w, i) ==
  [key |-> keyFile[w][i].key, offset |-> keyFile[w][i].offset,
   sequence |-> keyFile[w][i].sequence, writer |-> w]

LEMMA KeysReadAre ==
  \A p : KeysRead(p) = UNION {{KeyAt(w, i) : i \in ReadFrom(w, p)} : w \in Ids}
  BY DEF KeysRead, KeyAt

\* The keys read are finitely many.
LEMMA KeysReadFinite ==
  ASSUME TypeInv, NEW p \in Prefixes
  PROVE  /\ KeysRead(p) \subseteq FileKey /\ IsFiniteSet(KeysRead(p))
         /\ Cardinality(KeysRead(p)) \in Nat
<1>. DEFINE Of == [w \in Ids |-> {KeyAt(w, i) : i \in ReadFrom(w, p)}]
            All == {Of[w] : w \in Ids}
<1>1. \A w \in Ids : ReadFrom(w, p) \subseteq Found(w, p) /\ Found(w, p) \subseteq DOMAIN keyFile[w]
  BY DEF ReadFrom, Found
<1>2. ASSUME NEW w \in Ids PROVE IsFiniteSet(Of[w]) /\ Of[w] \subseteq FileKey
  <2>. DEFINE R == ReadFrom(w, p)
              at == [i \in R |-> KeyAt(w, i)]
              T == {KeyAt(w, i) : i \in R}
  <2>1. IsFiniteSet(R)
    BY <1>1, <1>2, FileEntries, FS_Subset
  <2>. HIDE DEF R
  <2>2. at \in Surjection(R, T)
    BY DEF Surjection
  <2>3. IsFiniteSet(T)
    <3>. HIDE DEF at, T
    <3>. QED  BY <2>1, <2>2, FS_Surjection
  <2>4. T \subseteq FileKey
    BY <1>1, <1>2, FileEntries DEF R, KeyAt, FileKey, KeyEntry
  <2>. QED  BY <1>2, <2>3, <2>4 DEF R
<1>3. IsFiniteSet(Ids)
  BY Constants, FS_Interval
<1>. HIDE DEF Of
<1>4. (\A w \in Ids : Of[w] \in All) /\ DOMAIN Of = Ids
  BY DEF Of
<1>5. Of \in Surjection(Ids, All)
  BY <1>4 DEF Surjection, Of
<1>6. IsFiniteSet(All)
  <2>. HIDE DEF All
  <2>. QED  BY <1>3, <1>5, FS_Surjection
<1>7. IsFiniteSet(UNION All)
  BY <1>2, <1>6, FS_UNION
<1>8. KeysRead(p) = UNION All
  BY KeysReadAre DEF Of
<1>. QED  BY <1>2, <1>7, <1>8, FS_CardinalityType

\* The keys read are where they were found.
LEMMA KeysReadFrom ==
  ASSUME TypeInv, FileInv, NEW p \in Prefixes, NEW r \in KeysRead(p)
  PROVE  /\ r \in FileKey /\ Prefix(r.key) = p
         /\ r.writer \in Ids /\ r.offset \in DOMAIN keyFile[r.writer]
         /\ keyFile[r.writer][r.offset].key = r.key
         /\ keyFile[r.writer][r.offset].sequence = r.sequence
<1>1. PICK w \in Ids : r \in {KeyAt(w, i) : i \in ReadFrom(w, p)}
  BY KeysReadAre
<1>2. PICK i \in ReadFrom(w, p) : r = KeyAt(w, i)
  BY <1>1
<1>3. i \in DOMAIN keyFile[w] /\ Prefix(keyFile[w][i].key) = p /\ keyFile[w][i].offset = i
  BY <1>2 DEF ReadFrom, Found, FileInv
<1>. QED  BY <1>2, <1>3, KeysReadFinite DEF KeyAt

\* Sorted, they ascend: no key is there twice.
LEMMA SortedProperties ==
  ASSUME TypeInv, FileInv, NEW p \in Prefixes, NEW s \in Sorted(KeysRead(p))
  PROVE  /\ s \in Seq(FileKey) /\ Elements(s) = KeysRead(p)
         /\ s = <<>> <=> KeysRead(p) = {}
         /\ \A i, j \in DOMAIN s : i < j => Less(s[i].key, s[j].key)
<1>. DEFINE n == Cardinality(KeysRead(p))
<1>1. n \in Nat /\ KeysRead(p) \subseteq FileKey
  BY KeysReadFinite
<1>2. /\ s \in [1 .. n -> KeysRead(p)] /\ KeysRead(p) = {s[i] : i \in DOMAIN s}
      /\ \A i, j \in DOMAIN s : i < j => s[i] # s[j] /\ ~ Less(s[j].key, s[i].key)
  BY DEF Sorted
<1>. HIDE DEF n
<1>3. s \in Seq(FileKey)
  <2>1. s \in [1 .. n -> FileKey]
    BY <1>1, <1>2
  <2>. QED  BY <1>1, <2>1, SeqDef
<1>4. Elements(s) = KeysRead(p)
  BY <1>2 DEF Elements
<1>5. s = <<>> <=> KeysRead(p) = {}
  <2>1. DOMAIN s = 1 .. Len(s) /\ Len(s) \in Nat /\ (s # <<>> => Len(s) # 0) /\ Len(<<>>) = 0
    BY <1>3, LenProperties, EmptySeq
  <2>2. CASE s = <<>>
    BY <1>2, <2>1, <2>2
  <2>3. CASE s # <<>>
    <3>1. 1 \in DOMAIN s
      BY <2>1, <2>3
    <3>. QED  BY <1>2, <2>3, <3>1
  <2>. QED  BY <2>2, <2>3
<1>6. ASSUME NEW i \in DOMAIN s, NEW j \in DOMAIN s, i < j PROVE Less(s[i].key, s[j].key)
  <2>1. s[i] \in KeysRead(p) /\ s[j] \in KeysRead(p) /\ s[i] # s[j] /\ ~ Less(s[j].key, s[i].key)
    BY <1>2, <1>6
  <2>. DEFINE x == s[i]  y == s[j]
  <2>2. /\ x \in FileKey /\ x.writer \in Ids /\ x.offset \in DOMAIN keyFile[x.writer]
        /\ keyFile[x.writer][x.offset].key = x.key
        /\ keyFile[x.writer][x.offset].sequence = x.sequence
    BY <2>1, KeysReadFrom
  <2>3. /\ y \in FileKey /\ y.writer \in Ids /\ y.offset \in DOMAIN keyFile[y.writer]
        /\ keyFile[y.writer][y.offset].key = y.key
        /\ keyFile[y.writer][y.offset].sequence = y.sequence
    BY <2>1, KeysReadFrom
  <2>. HIDE DEF x, y
  <2>4. x.key = y.key => x.writer = y.writer /\ x.offset = y.offset /\ x.sequence = y.sequence
    BY <2>2, <2>3 DEF FileInv
  <2>5. x.key # y.key
    BY <2>1, <2>2, <2>3, <2>4 DEF FileKey, x, y
  <2>6. x.key \in Keys /\ y.key \in Keys
    BY <2>2, <2>3 DEF FileKey
  <2>. QED  BY <2>1, <2>5, <2>6, LessOrder DEF x, y
<1>. QED  BY <1>3, <1>4, <1>5, <1>6

-----------------------------------------------------------------------------
\* The initial states.
LEMMA InitInv == Init => IInv
<1>. SUFFICES ASSUME Init PROVE IInv
  OBVIOUS
<1>. USE DEF Init
<1>0. /\ \A k \in Keys : contents[k] = Missing
      /\ \A w \in Ids : keyFile[w] = <<>> /\ valueFile[w] = <<>> /\ DOMAIN keyFile[w] = {}
      /\ \A p \in Prefixes : built[p] = {} /\ bins[p] = <<>> /\ DOMAIN bins[p] = {}
      /\ DOMAIN tables = {}
  OBVIOUS
<1>1. TypeInv
  <2>1. \A S : <<>> \in Seq(S)
    BY EmptySeq
  <2>. QED  BY <1>0, <2>1 DEF TypeInv
<1>2. GateInv
  <2>1. HasWriter = {}
    BY DEF HasWriter
  <2>. QED  BY <2>1, FS_EmptySet, Constants DEF GateInv
<1>3. FileInv /\ SourceInv /\ OrderInv
  BY <1>0 DEF FileInv, SourceInv, OrderInv
<1>4. CountInv
  BY <1>0 DEF CountInv, Put
<1>5. LossInv /\ StageInv
  BY <1>0 DEF LossInv, StageInv
<1>6. CoverInv
  BY <1>0 DEF CoverInv, Put
<1>7. TornInv /\ CommitInv
  BY DEF TornInv, CommitInv, NoManifest
<1>. QED  BY <1>1, <1>2, <1>3, <1>4, <1>5, <1>6, <1>7 DEF IInv

-----------------------------------------------------------------------------
\* The steps that end close(), and the one that changes nothing.
Commits == BuildFails \/ WriteManifest \/ WriteCurrent \/ CommitFails \/ UNCHANGED vars

LEMMA StepKinds ==
  ASSUME [Next]_vars
  PROVE  \/ \E t \in Putters : Get(t)
         \/ \E t \in Putters, k \in Keys : PutWritten(t, k) \/ PutFails(t, k) \/ PutDropped(t, k)
         \/ CloseWriters
         \/ Abandon
         \/ \E p \in Prefixes : Build(p)
         \/ Commits
  BY DEF Next, Terminated, Commits

LEMMA BuildFrame ==
  ASSUME NEW p \in Prefixes, Build(p)
  PROVE  /\ phase = "build" /\ phase' \in {"build", "crashed"}
         /\ UNCHANGED <<writerVars, manifest, putVars>>
  BY DEF Build, ReadKeys, SkipPrefix, ReadKeysFails, OpenTable, WriteTable, WriteTableFails,
         FailPrefix, Starts

LEMMA CommitsFrame ==
  ASSUME Commits PROVE UNCHANGED <<writerVars, ok, buildVars, putVars>>
  BY DEF Commits, BuildFails, WriteManifest, WriteCurrent, CommitFails, vars

\* The next id is one of a writer's.
LEMMA NextIdFree ==
  ASSUME TypeInv, GateInv, NEW t \in Putters, Get(t)
  PROVE  /\ nextId \in Ids /\ HasWriter' = HasWriter \cup {t}
         /\ Cardinality(HasWriter') = nextId + 1
<1>1. phase = "open" /\ writer[t] = NoWriter /\ writer' = [writer EXCEPT ![t] = nextId]
  BY DEF Get
<1>2. nextId = Cardinality(HasWriter) /\ nextId \in Nat
  BY <1>1 DEF GateInv, TypeInv
<1>3. HasWriter \subseteq Putters \ {t} /\ IsFiniteSet(Putters)
  BY <1>1, PuttersAssumption DEF HasWriter
<1>4. IsFiniteSet(Putters \ {t}) /\ Cardinality(Putters \ {t}) = Cardinality(Putters) - 1
  BY <1>3, FS_RemoveElement
<1>5. IsFiniteSet(HasWriter) /\ Cardinality(HasWriter) <= Cardinality(Putters) - 1
  BY <1>3, <1>4, FS_Subset
<1>6. nextId \in Ids
  BY <1>2, <1>5, Constants
<1>7. HasWriter' = HasWriter \cup {t} /\ t \notin HasWriter
  BY <1>1, <1>6, Constants DEF HasWriter, TypeInv
<1>8. Cardinality(HasWriter \cup {t}) = Cardinality(HasWriter) + 1
  BY <1>5, <1>7, FS_AddElement
<1>. QED  BY <1>2, <1>6, <1>7, <1>8

\* A put appends one entry to the files of the thread's writer.
Entry(w, k) == [key |-> k, offset |-> Len(valueFile[w]) + 1, sequence |-> sequence]

LEMMA PutEffect ==
  ASSUME TypeInv, NEW t \in Putters, NEW k \in Keys, PutWritten(t, k)
  PROVE  LET w == writer[t]
         IN  /\ w \in Ids /\ status[w] = "open" /\ phase = "open"
             /\ ~ Put(k) /\ calls \in Calls
             /\ contents' = [contents EXCEPT ![k] = calls]
             /\ Entry(w, k) \in KeyEntry
             /\ keyFile'[w] = Append(keyFile[w], Entry(w, k))
             /\ valueFile'[w] = Append(valueFile[w], calls)
             /\ \A v \in Ids : v # w => keyFile'[v] = keyFile[v] /\ valueFile'[v] = valueFile[v]
             /\ keyFile' \in [Ids -> Seq(KeyEntry)]
             /\ valueFile' \in [Ids -> Seq(Nat)]
<1>. DEFINE w == writer[t]
<1>1. w \in Ids /\ status[w] = "open"
  BY DEF PutWritten, TypeInv
<1>2. calls \in Calls /\ phase = "open" /\ ~ Put(k) /\ contents' = [contents EXCEPT ![k] = calls]
  BY Constants DEF PutWritten, Called, TypeInv, Put, Calls
<1>3. Entry(w, k) \in KeyEntry
  BY <1>1, FileEntries DEF Entry, KeyEntry, TypeInv
<1>4. Append(keyFile[w], Entry(w, k)) \in Seq(KeyEntry) /\ Append(valueFile[w], calls) \in Seq(Nat)
  BY <1>1, <1>2, <1>3, FileEntries, AppendProperties, Constants
<1>5. /\ keyFile' = [keyFile EXCEPT ![w] = Append(keyFile[w], Entry(w, k))]
      /\ valueFile' = [valueFile EXCEPT ![w] = Append(valueFile[w], calls)]
  BY DEF PutWritten, Entry
<1>. HIDE DEF w
<1>6. /\ keyFile' \in [Ids -> Seq(KeyEntry)] /\ valueFile' \in [Ids -> Seq(Nat)]
      /\ keyFile'[w] = Append(keyFile[w], Entry(w, k))
      /\ valueFile'[w] = Append(valueFile[w], calls)
      /\ \A v \in Ids : v # w => keyFile'[v] = keyFile[v] /\ valueFile'[v] = valueFile[v]
  BY <1>1, <1>4, <1>5 DEF TypeInv
<1>. QED  BY <1>1, <1>2, <1>3, <1>6 DEF w

\* The table written holds the values of the first bin.
LEMMA TableWritten ==
  ASSUME TypeInv, StageInv, SourceInv, NEW p \in Prefixes, WriteTable(p)
  PROVE  LET n == number[p]
             bin == Head(bins[p])
         IN  /\ phase = "build" /\ stage[p] = "writing"
             /\ Len(bins[p]) \in Nat \ {0} /\ DOMAIN bins[p] = 1 .. Len(bins[p])
             /\ bin = bins[p][1] /\ bin \in Seq(FileKey) /\ DOMAIN bin = 1 .. Len(bin)
             /\ Tail(bins[p]) \in Seq(Seq(FileKey))
             /\ DOMAIN Tail(bins[p]) = 1 .. Len(bins[p]) - 1
             /\ \A b \in 1 .. Len(bins[p]) - 1 : Tail(bins[p])[b] = bins[p][b + 1]
             /\ Tail(bins[p]) = <<>> <=> Len(bins[p]) = 1
             /\ n \in Nat /\ n \notin DOMAIN tables
             /\ bins' = [bins EXCEPT ![p] = Tail(bins[p])]
             /\ built' = [built EXCEPT ![p] = built[p] \cup {n}]
             /\ DOMAIN tables' = DOMAIN tables \cup {n} /\ tables'[n] = TableOf(bin)
             /\ \A m \in DOMAIN tables : tables'[m] = tables[m]
             /\ TableOf(bin) \in Seq(TableEntry)
             /\ \A i \in DOMAIN bin :
                  /\ bin[i].writer \in Ids /\ bin[i].offset \in DOMAIN valueFile[bin[i].writer]
<1>. DEFINE n == number[p]  bin == Head(bins[p])
<1>1. /\ phase = "build" /\ stage[p] = "writing" /\ n \in Nat /\ n \notin DOMAIN tables
      /\ bins[p] \in Seq(Seq(FileKey)) /\ bins[p] # <<>>
  BY DEF WriteTable, StageInv, TypeInv
<1>2. /\ bins' = [bins EXCEPT ![p] = Tail(bins[p])]
      /\ built' = [built EXCEPT ![p] = built[p] \cup {n}]
      /\ tables' = [m \in DOMAIN tables \cup {n} |-> IF m = n THEN TableOf(bin) ELSE tables[m]]
      /\ ValuesThere(bin)
  BY DEF WriteTable
<1>3. Len(bins[p]) \in Nat \ {0} /\ DOMAIN bins[p] = 1 .. Len(bins[p])
  BY <1>1, LenProperties, EmptySeq
<1>4. bin = bins[p][1] /\ bin \in Seq(FileKey)
  BY <1>1, <1>3, HeadTailProperties, ElementOfSeq
<1>5. /\ Tail(bins[p]) \in Seq(Seq(FileKey)) /\ Len(Tail(bins[p])) = Len(bins[p]) - 1
      /\ \A b \in 1 .. Len(bins[p]) - 1 : Tail(bins[p])[b] = bins[p][b + 1]
  BY <1>1, <1>3, HeadTailProperties
<1>6. DOMAIN Tail(bins[p]) = 1 .. Len(bins[p]) - 1 /\ (Tail(bins[p]) = <<>> <=> Len(bins[p]) = 1)
  <2>. DEFINE t == Tail(bins[p])
  <2>1. t \in Seq(Seq(FileKey)) /\ Len(t) = Len(bins[p]) - 1
    BY <1>5
  <2>. HIDE DEF t
  <2>2. DOMAIN t = 1 .. Len(t) /\ (t = <<>> <=> Len(t) = 0)
    BY <2>1, LenProperties, EmptySeq
  <2>. QED  BY <1>3, <2>1, <2>2 DEF t
<1>7. DOMAIN bin = 1 .. Len(bin) /\ Len(bin) \in Nat
  BY <1>4, LenProperties
<1>8. ASSUME NEW i \in DOMAIN bin
      PROVE  /\ bin[i] \in FileKey /\ bin[i].writer \in Ids
             /\ bin[i].offset \in DOMAIN valueFile[bin[i].writer]
             /\ valueFile[bin[i].writer][bin[i].offset] \in Nat
  <2>1. bin[i] \in FileKey
    BY <1>4, <1>7, <1>8, ElementOfSeq
  <2>2. bin[i].writer \in Ids
    BY <2>1 DEF FileKey
  <2>3. bin[i].offset \in DOMAIN keyFile[bin[i].writer]
    <3>1. KeyFromFile(p, bin[i])
      BY <1>3, <1>4, <1>8 DEF SourceInv
    <3>. QED  BY <3>1 DEF KeyFromFile
  <2>4. bin[i].offset <= Len(valueFile[bin[i].writer])
    BY <1>2, <1>8 DEF ValuesThere
  <2>. HIDE DEF bin
  <2>5. bin[i].offset \in DOMAIN valueFile[bin[i].writer]
    BY <2>2, <2>3, <2>4, FileEntries
  <2>. QED  BY <2>1, <2>2, <2>5, FileEntries
<1>9. TableOf(bin) \in Seq(TableEntry)
  <2>1. TableOf(bin) \in [1 .. Len(bin) -> TableEntry]
    BY <1>7, <1>8 DEF TableOf, TableEntry, FileKey
  <2>. QED  BY <1>7, <2>1, SeqDef
<1>. HIDE DEF n, bin
<1>10. /\ DOMAIN tables' = DOMAIN tables \cup {n} /\ tables'[n] = TableOf(bin)
       /\ \A m \in DOMAIN tables : tables'[m] = tables[m]
  BY <1>1, <1>2
<1>. QED
  BY <1>1, <1>2, <1>3, <1>4, <1>5, <1>6, <1>7, <1>8, <1>9, <1>10 DEF n, bin

\* Every step keeps the types.
LEMMA NextTypes == ASSUME TypeInv, GateInv, StageInv, SourceInv, [Next]_vars PROVE TypeInv'
<1>. USE DEF writerVars, buildVars, putVars
<1>1. ASSUME NEW t \in Putters, Get(t) PROVE TypeInv'
  <2>1. nextId \in Ids /\ \A S : <<>> \in Seq(S)
    BY <1>1, NextIdFree, EmptySeq
  <2>. QED  BY <1>1, <2>1 DEF TypeInv, Get
<1>2. ASSUME NEW t \in Putters, NEW k \in Keys, PutWritten(t, k) PROVE TypeInv'
  <2>1. /\ writer[t] \in Ids /\ calls \in Calls
        /\ contents' = [contents EXCEPT ![k] = calls]
        /\ keyFile' \in [Ids -> Seq(KeyEntry)] /\ valueFile' \in [Ids -> Seq(Nat)]
    BY <1>2, PutEffect
  <2>2. numPrefix' \in [Ids -> [Prefixes -> Nat]] /\ numKeys' \in [Ids -> Nat]
    <3>0. Prefix(k) \in Prefixes
      BY Constants
    <3>1. CountKey(numPrefix[writer[t]][Prefix(k)]) \in Nat
      <4>1. numPrefix[writer[t]][Prefix(k)] \in Nat
        BY <2>1, <3>0 DEF TypeInv
      <4>. QED  BY <4>1 DEF CountKey
    <3>2. numPrefix' = [numPrefix EXCEPT ![writer[t]] =
            [numPrefix[writer[t]] EXCEPT ![Prefix(k)] = CountKey(numPrefix[writer[t]][Prefix(k)])]]
      BY <1>2 DEF PutWritten
    <3>3. [numPrefix[writer[t]] EXCEPT ![Prefix(k)] = CountKey(numPrefix[writer[t]][Prefix(k)])]
            \in [Prefixes -> Nat]
      BY <2>1, <3>1 DEF TypeInv
    <3>4. numKeys' \in [Ids -> Nat]
      BY <1>2 DEF PutWritten, TypeInv
    <3>. QED  BY <2>1, <3>2, <3>3, <3>4 DEF TypeInv
  <2>3. contents' \in [Keys -> Calls \cup {Missing}]
    BY <2>1 DEF TypeInv
  <2>4. /\ sequence' = sequence + 1 /\ calls' = calls + 1
        /\ UNCHANGED <<phase, writer, nextId, status, ok, stage, bins, number, built,
                       fileNumber, tables>>
    BY <1>2 DEF PutWritten, Called
  <2>5. sequence' \in Nat /\ calls' \in Nat
    BY <2>4 DEF TypeInv
  <2>. QED  BY <2>1, <2>2, <2>3, <2>4, <2>5 DEF TypeInv
<1>3. ASSUME NEW t \in Putters, NEW k \in Keys, PutFails(t, k) \/ PutDropped(t, k) PROVE TypeInv'
  <2>1. calls \in Calls /\ calls' \in Nat /\ contents' = [contents EXCEPT ![k] = calls]
    <3>1. Called(k)
      BY <1>3 DEF PutFails, PutDropped
    <3>. QED  BY <3>1, BoundsAssumption DEF Called, TypeInv, Calls
  <2>2. contents' \in [Keys -> Calls \cup {Missing}]
    BY <2>1 DEF TypeInv
  <2>3. writer[t] \in Ids
    BY <1>3 DEF PutFails, PutDropped, TypeInv
  <2>4. \A S : <<>> \in Seq(S)
    BY EmptySeq
  <2>5. CASE PutFails(t, k)
    BY <2>1, <2>2, <2>3, <2>4, <2>5 DEF TypeInv, PutFails
  <2>6. CASE PutDropped(t, k)
    BY <2>1, <2>2, <2>6 DEF TypeInv, PutDropped
  <2>. QED  BY <1>3, <2>5, <2>6
<1>4. ASSUME CloseWriters PROVE TypeInv'
  <2>1. keyFile' \in [Ids -> Seq(KeyEntry)] /\ valueFile' \in [Ids -> Seq(Nat)]
    <3>1. CASE UNCHANGED <<keyFile, valueFile>>
      BY <3>1 DEF TypeInv
    <3>2. ASSUME NEW w \in Ids, keyFile[w] # <<>>,
                 keyFile' = [keyFile EXCEPT ![w] = ButLast(keyFile[w])]
          PROVE  keyFile' \in [Ids -> Seq(KeyEntry)]
      <4>1. ButLast(keyFile[w]) \in Seq(KeyEntry)
        BY <3>2, FileEntries, ButLastProperties
      <4>. QED  BY <3>2, <4>1 DEF TypeInv
    <3>3. ASSUME NEW w \in Ids, valueFile' = [valueFile EXCEPT ![w] = ButLast(valueFile[w])]
          PROVE  valueFile' \in [Ids -> Seq(Nat)]
      <4>1. ButLast(valueFile[w]) \in Seq(Nat)
        <5>1. \A i \in 1 .. Len(valueFile[w]) - 1 : valueFile[w][i] \in Nat
          BY FileEntries
        <5>. QED  BY <5>1, FileEntries, SubSeqProperties DEF ButLast
      <4>. QED  BY <3>3, <4>1 DEF TypeInv
    <3>. QED  BY <1>4, <3>1, <3>2, <3>3 DEF CloseWriters, TypeInv, ButLast
  <2>. QED  BY <1>4, <2>1 DEF TypeInv, CloseWriters, NoneBroken
<1>5. ASSUME Abandon PROVE TypeInv'
  <2>1. \A S : <<>> \in Seq(S)
    BY EmptySeq
  <2>. QED  BY <1>5, <2>1 DEF TypeInv, Abandon
<1>6. ASSUME NEW p \in Prefixes, ReadKeys(p) PROVE TypeInv'
  <2>1. PICK s \in Sorted(KeysRead(p)) : bins' = [bins EXCEPT ![p] = Bins(s)]
    BY <1>6 DEF ReadKeys
  <2>2. Bins(s) \in Seq(Seq(FileKey))
    <3>1. s \in [1 .. Cardinality(KeysRead(p)) -> FileKey] /\ Cardinality(KeysRead(p)) \in Nat
      BY KeysReadFinite DEF Sorted
    <3>2. s \in Seq(FileKey)
      BY <3>1, SeqDef
    <3>. QED  BY <3>2, BinsProperties
  <2>. QED  BY <1>6, <2>1, <2>2 DEF TypeInv, ReadKeys
<1>7. ASSUME NEW p \in Prefixes, SkipPrefix(p) PROVE TypeInv'
  BY <1>7 DEF TypeInv, SkipPrefix
<1>8. ASSUME NEW p \in Prefixes, ReadKeysFails(p) PROVE TypeInv'
  <2>1. phase' \in {phase, "crashed"} /\ ok' \in BOOLEAN
    BY <1>8 DEF ReadKeysFails
  <2>. QED  BY <1>8, <2>1 DEF TypeInv, ReadKeysFails
<1>9. ASSUME NEW p \in Prefixes, OpenTable(p) PROVE TypeInv'
  BY <1>9 DEF TypeInv, OpenTable
<1>10. ASSUME NEW p \in Prefixes, WriteTable(p) PROVE TypeInv'
  <2>. DEFINE n == number[p]  bin == Head(bins[p])
  <2>1. /\ n \in Nat /\ TableOf(bin) \in Seq(TableEntry)
        /\ bins' = [bins EXCEPT ![p] = Tail(bins[p])] /\ Tail(bins[p]) \in Seq(Seq(FileKey))
        /\ DOMAIN tables' = DOMAIN tables \cup {n} /\ tables'[n] = TableOf(bin)
        /\ \A m \in DOMAIN tables : tables'[m] = tables[m]
    BY <1>10, TableWritten
  <2>2. built' = [built EXCEPT ![p] = built[p] \cup {n}]
    BY <1>10 DEF WriteTable
  <2>. HIDE DEF n, bin
  <2>3. DOMAIN tables' \subseteq Nat /\ \A m \in DOMAIN tables' : tables'[m] \in Seq(TableEntry)
    BY <2>1 DEF TypeInv
  <2>4. bins' \in [Prefixes -> Seq(Seq(FileKey))] /\ built' \in [Prefixes -> SUBSET Nat]
    BY <2>1, <2>2 DEF TypeInv
  <2>. QED  BY <1>10, <2>3, <2>4 DEF TypeInv, WriteTable
<1>11. ASSUME NEW p \in Prefixes, WriteTableFails(p) PROVE TypeInv'
  <2>1. \A S : <<>> \in Seq(S)
    BY EmptySeq
  <2>. QED  BY <1>11, <2>1 DEF TypeInv, WriteTableFails, FailPrefix
<1>12. ASSUME Commits PROVE TypeInv'
  <2>1. phase' \in {"failed", "manifest", "committed", phase}
    BY <1>12 DEF Commits, BuildFails, WriteManifest, WriteCurrent, CommitFails, vars
  <2>. QED  BY <1>12, <2>1, CommitsFrame DEF TypeInv
<1>. QED
  BY <1>1, <1>2, <1>3, <1>4, <1>5, <1>6, <1>7, <1>8, <1>9, <1>10, <1>11, <1>12, StepKinds
  DEF Build

-----------------------------------------------------------------------------
\* While the database is open only writers are made and values are put.
LEMMA OpenSteps ==
  ASSUME [Next]_vars, phase' = "open"
  PROVE  \/ \E t \in Putters : Get(t)
         \/ \E t \in Putters, k \in Keys : PutWritten(t, k) \/ PutFails(t, k) \/ PutDropped(t, k)
         \/ UNCHANGED vars
<1>1. ~ CloseWriters /\ ~ Abandon
  BY DEF CloseWriters, Abandon
<1>2. \A p \in Prefixes : ~ Build(p)
  BY BuildFrame
<1>3. Commits => UNCHANGED vars
  BY DEF Commits, BuildFails, WriteManifest, WriteCurrent, CommitFails
<1>. QED  BY <1>1, <1>2, <1>3, StepKinds

\* A writer that is made has nothing yet.
LEMMA GetFrame ==
  ASSUME TypeInv, GateInv, NEW t \in Putters, Get(t)
  PROVE  /\ phase = "open" /\ nextId \in Ids
         /\ keyFile' = keyFile /\ valueFile' = valueFile
         /\ numPrefix' = numPrefix /\ numKeys' = numKeys
         /\ keyFile[nextId] = <<>> /\ valueFile[nextId] = <<>> /\ numKeys[nextId] = 0
         /\ status[nextId] = "none" /\ \A p \in Prefixes : numPrefix[nextId][p] = 0
         /\ status'[nextId] \in {"open", "broken"}
         /\ \A w \in Ids : w # nextId => status'[w] = status[w]
<1>1. phase = "open" /\ nextId \in Ids
  BY NextIdFree DEF Get
<1>2. nextId \in Nat
  BY DEF TypeInv
<1>3. /\ keyFile[nextId] = <<>> /\ valueFile[nextId] = <<>> /\ numKeys[nextId] = 0
      /\ status[nextId] = "none" /\ \A p \in Prefixes : numPrefix[nextId][p] = 0
  BY <1>1, <1>2 DEF GateInv
<1>4. keyFile' = keyFile /\ valueFile' = valueFile
  BY <1>1, <1>3 DEF Get, TypeInv
<1>5. PICK s \in {"open", "broken"} : status' = [status EXCEPT ![nextId] = s]
  BY DEF Get
<1>6. status'[nextId] \in {"open", "broken"} /\ \A w \in Ids : w # nextId => status'[w] = status[w]
  BY <1>1, <1>5 DEF TypeInv
<1>. QED  BY <1>1, <1>3, <1>4, <1>6 DEF Get

\* A put that fails leaves the writer without entries.
LEMMA PutLost ==
  ASSUME TypeInv, NEW t \in Putters, NEW k \in Keys, PutFails(t, k) \/ PutDropped(t, k)
  PROVE  LET w == writer[t]
         IN  /\ w \in Ids /\ phase = "open" /\ phase' = "open" /\ status'[w] = "broken"
             /\ ~ Put(k) /\ contents' = [contents EXCEPT ![k] = calls]
             /\ \A v \in Ids : \/ keyFile'[v] = <<>>
                               \/ keyFile'[v] = keyFile[v]
             /\ \A v \in Ids : \/ valueFile'[v] = <<>>
                               \/ valueFile'[v] = valueFile[v]
             /\ keyFile'[w] = <<>> \/ (keyFile'[w] = keyFile[w] /\ status[w] = "broken")
             /\ \A v \in Ids : v # w => /\ status'[v] = status[v] /\ keyFile'[v] = keyFile[v]
                                        /\ valueFile'[v] = valueFile[v]
             /\ UNCHANGED <<writer, nextId, numPrefix, numKeys, ok, buildVars, manifest>>
             /\ sequence' \in {sequence, sequence + 1}
<1>. DEFINE w == writer[t]
<1>1. w \in Ids /\ phase = "open" /\ ~ Put(k) /\ contents' = [contents EXCEPT ![k] = calls]
  BY DEF PutFails, PutDropped, Called, Put, TypeInv
<1>2. CASE PutFails(t, k)
  <2>1. /\ status' = [status EXCEPT ![w] = "broken"]
        /\ keyFile' = [keyFile EXCEPT ![w] = <<>>] /\ valueFile' = [valueFile EXCEPT ![w] = <<>>]
    BY <1>2 DEF PutFails
  <2>. HIDE DEF w
  <2>2. /\ status'[w] = "broken" /\ keyFile'[w] = <<>> /\ valueFile'[w] = <<>>
        /\ \A v \in Ids : v # w => /\ status'[v] = status[v] /\ keyFile'[v] = keyFile[v]
                                   /\ valueFile'[v] = valueFile[v]
    BY <1>1, <2>1 DEF TypeInv
  <2>3. /\ UNCHANGED <<writer, nextId, numPrefix, numKeys, ok, buildVars, manifest>>
        /\ sequence' = sequence + 1 /\ phase' = "open"
    BY <1>1, <1>2 DEF PutFails
  <2>4. \A v \in Ids : keyFile'[v] = <<>> \/ keyFile'[v] = keyFile[v]
    BY <2>2
  <2>5. \A v \in Ids : valueFile'[v] = <<>> \/ valueFile'[v] = valueFile[v]
    BY <2>2
  <2>. QED  BY <1>1, <2>2, <2>3, <2>4, <2>5 DEF w
<1>3. CASE PutDropped(t, k)
  BY <1>1, <1>3 DEF PutDropped, writerVars
<1>. QED  BY <1>2, <1>3

\* The gates.
LEMMA NextGate == ASSUME TypeInv, GateInv, [Next]_vars PROVE GateInv'
<1>. SUFFICES ASSUME phase' = "open" PROVE GateInv'
  BY DEF GateInv
<1>0. Ids \subseteq Nat /\ NoWriter \notin Ids
  BY Constants
<1>1. ASSUME NEW t \in Putters, Get(t) PROVE GateInv'
  <2>1. /\ writer' = [writer EXCEPT ![t] = nextId] /\ nextId' = nextId + 1 /\ nextId \in Nat
        /\ writer[t] = NoWriter
    BY <1>1 DEF Get, TypeInv
  <2>2. nextId' = Cardinality(HasWriter)'
    BY <1>1, <2>1, NextIdFree
  <2>3. \A u \in HasWriter' : writer'[u] < nextId'
    <3>1. ASSUME NEW u \in HasWriter' PROVE writer'[u] < nextId + 1
      <4>1. CASE u = t
        BY <2>1, <4>1 DEF TypeInv
      <4>2. CASE u # t
        <5>1. u \in HasWriter /\ writer'[u] = writer[u] /\ writer[u] \in Ids
          BY <1>1, <2>1, <3>1, <4>2, NextIdFree DEF HasWriter, TypeInv
        <5>2. writer[u] < nextId
          BY <1>1, <5>1, GetFrame DEF GateInv
        <5>3. writer'[u] \in Nat /\ writer'[u] < nextId /\ nextId \in Nat
          BY <1>0, <2>1, <5>1, <5>2
        <5>. QED  BY <5>3
      <4>. QED  BY <4>1, <4>2
    <3>. QED  BY <2>1, <3>1
  <2>4. ASSUME NEW w \in Ids, w >= nextId'
        PROVE  /\ status'[w] = "none" /\ keyFile'[w] = <<>> /\ valueFile'[w] = <<>>
               /\ numKeys'[w] = 0
               /\ \A p \in Prefixes : numPrefix'[w][p] = 0
    <3>1. w >= nextId /\ w # nextId
      BY <1>0, <2>1, <2>4
    <3>. QED  BY <1>1, <3>1, GetFrame DEF GateInv
  <2>. QED  BY <2>2, <2>3, <2>4 DEF GateInv
<1>2. ASSUME NEW t \in Putters, NEW k \in Keys, PutWritten(t, k) PROVE GateInv'
  <2>1. /\ phase = "open" /\ writer' = writer /\ nextId' = nextId /\ status' = status
        /\ t \in HasWriter
    BY <1>2 DEF PutWritten, Called, HasWriter
  <2>2. HasWriter' = HasWriter
    BY <2>1 DEF HasWriter
  <2>3. writer[t] < nextId /\ writer[t] \in Ids /\ nextId \in Nat
    BY <1>2, <2>1, PutEffect DEF GateInv, TypeInv
  <2>4. ASSUME NEW v \in Ids, v # writer[t]
        PROVE  /\ keyFile'[v] = keyFile[v] /\ valueFile'[v] = valueFile[v]
               /\ numKeys'[v] = numKeys[v] /\ numPrefix'[v] = numPrefix[v]
    BY <1>2, <2>3, <2>4, PutEffect DEF PutWritten, TypeInv
  <2>5. \A v \in Ids : v >= nextId => v # writer[t]
    BY <1>0, <2>3
  <2>. QED  BY <2>1, <2>2, <2>4, <2>5 DEF GateInv
<1>3. ASSUME NEW t \in Putters, NEW k \in Keys, PutFails(t, k) \/ PutDropped(t, k) PROVE GateInv'
  <2>. DEFINE w == writer[t]
  <2>1. /\ w \in Ids /\ phase = "open"
        /\ \A v \in Ids : v # w => /\ status'[v] = status[v] /\ keyFile'[v] = keyFile[v]
                                   /\ valueFile'[v] = valueFile[v]
        /\ UNCHANGED <<writer, nextId, numPrefix, numKeys>>
    BY <1>3, PutLost
  <2>2. HasWriter' = HasWriter /\ t \in HasWriter
    BY <1>0, <2>1 DEF HasWriter
  <2>3. w < nextId /\ nextId \in Nat
    BY <2>1, <2>2 DEF GateInv, TypeInv
  <2>. HIDE DEF w
  <2>4. \A v \in Ids : v >= nextId => v # w
    BY <1>0, <2>1, <2>3
  <2>. QED  BY <2>1, <2>2, <2>4 DEF GateInv
<1>4. ASSUME UNCHANGED vars PROVE GateInv'
  BY <1>4 DEF GateInv, HasWriter, vars, writerVars
<1>. QED  BY <1>1, <1>2, <1>3, <1>4, OpenSteps

-----------------------------------------------------------------------------
\* Files that lose entries keep what was said of the others.
LEMMA FewerEntries ==
  ASSUME FileInv, sequence \in Nat, sequence' \in {sequence, sequence + 1},
         TypeInv,
         \A w \in Ids : \A i \in DOMAIN keyFile'[w] :
           i \in DOMAIN keyFile[w] /\ keyFile'[w][i] = keyFile[w][i],
         \A w \in Ids : \A i \in DOMAIN valueFile'[w] :
           i \in DOMAIN valueFile[w] /\ valueFile'[w][i] = valueFile[w][i],
         \A k \in Keys : Put(k) => contents'[k] = contents[k]
  PROVE  FileInv'
<1>1. ASSUME NEW w \in Ids, NEW i \in DOMAIN keyFile'[w]
      PROVE  /\ i \in DOMAIN keyFile[w] /\ keyFile'[w][i] = keyFile[w][i]
             /\ keyFile[w][i] \in KeyEntry
             /\ keyFile'[w][i].offset = i
             /\ keyFile'[w][i].sequence < sequence'
             /\ contents'[keyFile'[w][i].key] # Missing
             /\ i \in DOMAIN valueFile'[w] =>
                  valueFile'[w][i] = contents'[keyFile'[w][i].key]
  <2>1. i \in DOMAIN keyFile[w] /\ keyFile'[w][i] = keyFile[w][i]
    OBVIOUS
  <2>2. keyFile[w][i] \in KeyEntry
    BY <2>1, FileEntries
  <2>3. contents'[keyFile[w][i].key] = contents[keyFile[w][i].key]
    BY <2>1, <2>2 DEF FileInv, Put, KeyEntry
  <2>4. keyFile[w][i].sequence < sequence' /\ keyFile[w][i].offset = i
    BY <2>1, <2>2 DEF FileInv, KeyEntry
  <2>. QED  BY <2>1, <2>2, <2>3, <2>4 DEF FileInv
<1>2. ASSUME NEW v \in Ids, NEW w \in Ids, NEW i \in DOMAIN keyFile'[v],
             NEW j \in DOMAIN keyFile'[w], keyFile'[v][i].key = keyFile'[w][j].key
      PROVE  v = w /\ i = j
  BY <1>1, <1>2 DEF FileInv
<1>. QED  BY <1>1, <1>2 DEF FileInv

LEMMA NoEntries == DOMAIN <<>> = {}
  OBVIOUS

\* What CloseWriters may take from the files.
LEMMA CloseEffect ==
  ASSUME TypeInv, CloseWriters
  PROVE  /\ phase = "open" /\ phase' # "open"
         /\ UNCHANGED <<writer, nextId, sequence, numPrefix, numKeys, buildVars, manifest, putVars>>
         /\ phase' = "build" => NoneBroken
         /\ \/ keyFile' = keyFile
            \/ \E w \in Ids : /\ status[w] = "open" /\ keyFile[w] # <<>>
                              /\ keyFile'[w] = ButLast(keyFile[w])
                              /\ \A v \in Ids : v # w => keyFile'[v] = keyFile[v]
         /\ \A w \in Ids : \A i \in DOMAIN keyFile'[w] :
              i \in DOMAIN keyFile[w] /\ keyFile'[w][i] = keyFile[w][i]
         /\ \A w \in Ids : \A i \in DOMAIN valueFile'[w] :
              i \in DOMAIN valueFile[w] /\ valueFile'[w][i] = valueFile[w][i]
<1>1. /\ phase = "open" /\ phase' # "open" /\ (phase' = "build" => NoneBroken)
      /\ UNCHANGED <<writer, nextId, sequence, numPrefix, numKeys, buildVars, manifest, putVars>>
  BY DEF CloseWriters
<1>2. CASE UNCHANGED <<keyFile, valueFile>>
  BY <1>1, <1>2
<1>3. ASSUME NEW w \in Ids, status[w] = "open", keyFile[w] # <<>>,
             keyFile' = [keyFile EXCEPT ![w] = ButLast(keyFile[w])], UNCHANGED valueFile
      PROVE  /\ keyFile'[w] = ButLast(keyFile[w])
             /\ \A v \in Ids : v # w => keyFile'[v] = keyFile[v]
             /\ \A v \in Ids : \A i \in DOMAIN keyFile'[v] :
                  i \in DOMAIN keyFile[v] /\ keyFile'[v][i] = keyFile[v][i]
  <2>1. /\ keyFile'[w] = ButLast(keyFile[w])
        /\ \A v \in Ids : v # w => keyFile'[v] = keyFile[v]
    BY <1>3 DEF TypeInv
  <2>2. /\ Len(keyFile[w]) \in Nat \ {0} /\ DOMAIN keyFile[w] = 1 .. Len(keyFile[w])
        /\ DOMAIN ButLast(keyFile[w]) = 1 .. Len(keyFile[w]) - 1
        /\ \A i \in 1 .. Len(keyFile[w]) - 1 : ButLast(keyFile[w])[i] = keyFile[w][i]
    BY <1>3, FileEntries, ButLastProperties
  <2>3. ASSUME NEW v \in Ids, NEW i \in DOMAIN keyFile'[v]
        PROVE  i \in DOMAIN keyFile[v] /\ keyFile'[v][i] = keyFile[v][i]
    <3>1. CASE v = w
      BY <2>1, <2>2, <2>3, <3>1
    <3>2. CASE v # w
      BY <2>1, <2>3, <3>2
    <3>. QED  BY <3>1, <3>2
  <2>. QED  BY <2>1, <2>3
<1>4. ASSUME NEW w \in Ids, UNCHANGED keyFile,
             valueFile' = [valueFile EXCEPT ![w] = ButLast(valueFile[w])]
      PROVE  \A v \in Ids : \A i \in DOMAIN valueFile'[v] :
               i \in DOMAIN valueFile[v] /\ valueFile'[v][i] = valueFile[v][i]
  <2>1. /\ valueFile'[w] = ButLast(valueFile[w])
        /\ \A v \in Ids : v # w => valueFile'[v] = valueFile[v]
    BY <1>4 DEF TypeInv
  <2>2. \A i \in DOMAIN ButLast(valueFile[w]) :
          i \in DOMAIN valueFile[w] /\ ButLast(valueFile[w])[i] = valueFile[w][i]
    <3>1. CASE valueFile[w] # <<>>
      <4>1. valueFile[w] \in Seq(Nat)
        BY FileEntries
      <4>2. /\ Len(valueFile[w]) \in Nat \ {0} /\ DOMAIN valueFile[w] = 1 .. Len(valueFile[w])
            /\ DOMAIN ButLast(valueFile[w]) = 1 .. Len(valueFile[w]) - 1
            /\ \A i \in 1 .. Len(valueFile[w]) - 1 : ButLast(valueFile[w])[i] = valueFile[w][i]
        BY <3>1, <4>1, ButLastProperties
      <4>. QED  BY <4>2
    <3>2. CASE valueFile[w] = <<>>
      <4>1. ButLast(valueFile[w]) = <<>>
        BY <3>2, EmptySeq, SubSeqProperties DEF ButLast
      <4>. QED  BY <4>1, NoEntries
    <3>. QED  BY <3>1, <3>2
  <2>3. ASSUME NEW v \in Ids, NEW i \in DOMAIN valueFile'[v]
        PROVE  i \in DOMAIN valueFile[v] /\ valueFile'[v][i] = valueFile[v][i]
    <3>1. CASE v = w
      BY <2>1, <2>2, <2>3, <3>1
    <3>2. CASE v # w
      BY <2>1, <2>3, <3>2
    <3>. QED  BY <3>1, <3>2
  <2>. QED  BY <2>3
<1>5. \/ UNCHANGED <<keyFile, valueFile>>
      \/ \E w \in Ids :
           /\ status[w] = "open" /\ keyFile[w] # <<>>
           /\ \/ keyFile' = [keyFile EXCEPT ![w] = ButLast(keyFile[w])] /\ UNCHANGED valueFile
              \/ valueFile' = [valueFile EXCEPT ![w] = ButLast(valueFile[w])] /\ UNCHANGED keyFile
  BY DEF CloseWriters, ButLast
<1>6. CASE \E w \in Ids : /\ valueFile' = [valueFile EXCEPT ![w] = ButLast(valueFile[w])]
                          /\ UNCHANGED keyFile
  BY <1>1, <1>4, <1>6
<1>7. CASE \E w \in Ids : /\ status[w] = "open" /\ keyFile[w] # <<>>
                          /\ keyFile' = [keyFile EXCEPT ![w] = ButLast(keyFile[w])]
                          /\ UNCHANGED valueFile
  BY <1>1, <1>3, <1>7
<1>. QED  BY <1>2, <1>5, <1>6, <1>7

\* A put: the new entry is the only one of its key.
LEMMA PutFile ==
  ASSUME TypeInv, FileInv, CountInv, NEW t \in Putters, NEW k \in Keys, PutWritten(t, k)
  PROVE  FileInv'
<1>0. PICK w \in Ids : w = writer[t]
  BY PutEffect
<1>. DEFINE e == Entry(w, k)  n == Len(keyFile[w])
<1>1. /\ w \in Ids /\ status[w] = "open" /\ phase = "open" /\ ~ Put(k) /\ calls \in Calls
      /\ contents' = [contents EXCEPT ![k] = calls] /\ e \in KeyEntry
      /\ keyFile'[w] = Append(keyFile[w], e) /\ valueFile'[w] = Append(valueFile[w], calls)
      /\ \A v \in Ids : v # w => keyFile'[v] = keyFile[v] /\ valueFile'[v] = valueFile[v]
  BY <1>0, PutEffect
<1>2. sequence \in Nat /\ sequence' = sequence + 1
  BY DEF PutWritten, TypeInv
<1>3. Len(valueFile[w]) = n /\ n \in Nat
  BY <1>1, FileEntries DEF CountInv
<1>4. e.key = k /\ e.offset = n + 1 /\ e.sequence = sequence
  BY <1>3 DEF Entry
<1>5. keyFile[w] \in Seq(KeyEntry) /\ valueFile[w] \in Seq(Nat) /\ calls \in Nat
  BY <1>1, FileEntries, Constants
<1>. HIDE DEF e
<1>6. /\ DOMAIN keyFile'[w] = 1 .. n + 1 /\ DOMAIN keyFile[w] = 1 .. n
      /\ keyFile'[w][n + 1] = e /\ \A i \in 1 .. n : keyFile'[w][i] = keyFile[w][i]
  BY <1>1, <1>3, <1>5, AppendProperties, LenProperties
<1>7. /\ DOMAIN valueFile'[w] = 1 .. n + 1 /\ DOMAIN valueFile[w] = 1 .. n
      /\ valueFile'[w][n + 1] = calls /\ \A i \in 1 .. n : valueFile'[w][i] = valueFile[w][i]
  BY <1>1, <1>3, <1>5, AppendProperties, LenProperties
<1>. HIDE DEF n
<1>8. /\ contents'[k] = calls /\ calls # Missing
      /\ \A l \in Keys : Put(l) => contents'[l] = contents[l] /\ l # k
  <2>1. contents \in [Keys -> Calls \cup {Missing}]
    BY DEF TypeInv
  <2>. QED  BY <1>1, <2>1, Constants DEF Put
\* The old entries.
<1>9. ASSUME NEW v \in Ids, NEW i \in DOMAIN keyFile[v]
      PROVE  /\ i \in DOMAIN keyFile'[v] /\ keyFile'[v][i] = keyFile[v][i]
             /\ keyFile[v][i] \in KeyEntry /\ Put(keyFile[v][i].key) /\ keyFile[v][i].key # k
             /\ i \in DOMAIN valueFile'[v] =>
                  i \in DOMAIN valueFile[v] /\ valueFile'[v][i] = valueFile[v][i]
  <2>1. i \in DOMAIN keyFile'[v] /\ keyFile'[v][i] = keyFile[v][i]
    <3>1. CASE v = w
      BY <1>3, <1>6, <1>9, <3>1
    <3>2. CASE v # w
      BY <1>1, <1>9, <3>2
    <3>. QED  BY <3>1, <3>2
  <2>2. keyFile[v][i] \in KeyEntry /\ Put(keyFile[v][i].key)
    BY <1>9, FileEntries DEF FileInv, Put
  <2>3. keyFile[v][i].key # k
    BY <1>8, <2>2 DEF KeyEntry
  <2>4. i \in DOMAIN valueFile'[v] =>
          i \in DOMAIN valueFile[v] /\ valueFile'[v][i] = valueFile[v][i]
    BY <1>1, <1>3, <1>6, <1>7, <1>9
  <2>. QED  BY <2>1, <2>2, <2>3, <2>4
<1>10. ASSUME NEW v \in Ids, NEW i \in DOMAIN keyFile'[v]
       PROVE  \/ i \in DOMAIN keyFile[v]
              \/ v = w /\ i = n + 1
  BY <1>1, <1>3, <1>6, <1>10
<1>11. ASSUME NEW v \in Ids, NEW i \in DOMAIN keyFile'[v]
       PROVE  /\ keyFile'[v][i].offset = i
              /\ keyFile'[v][i].sequence < sequence'
              /\ contents'[keyFile'[v][i].key] # Missing
              /\ i \in DOMAIN valueFile'[v] => valueFile'[v][i] = contents'[keyFile'[v][i].key]
  <2>1. CASE i \in DOMAIN keyFile[v]
    <3>1. /\ keyFile'[v][i] = keyFile[v][i] /\ keyFile[v][i] \in KeyEntry
          /\ Put(keyFile[v][i].key)
          /\ i \in DOMAIN valueFile'[v] =>
               i \in DOMAIN valueFile[v] /\ valueFile'[v][i] = valueFile[v][i]
      BY <1>9, <1>11, <2>1
    <3>2. keyFile[v][i].offset = i /\ keyFile[v][i].sequence < sequence
      BY <1>11, <2>1 DEF FileInv
    <3>3. contents'[keyFile[v][i].key] = contents[keyFile[v][i].key]
      BY <1>8, <3>1 DEF KeyEntry
    <3>4. i \in DOMAIN valueFile[v] => valueFile[v][i] = contents[keyFile[v][i].key]
      BY <1>11, <2>1 DEF FileInv
    <3>5. keyFile[v][i].sequence < sequence'
      BY <1>2, <3>1, <3>2 DEF KeyEntry
    <3>. QED  BY <3>1, <3>2, <3>3, <3>4, <3>5 DEF Put
  <2>2. CASE v = w /\ i = n + 1
    BY <1>2, <1>4, <1>6, <1>7, <1>8, <2>2
  <2>. QED  BY <1>10, <1>11, <2>1, <2>2
<1>12. ASSUME NEW u \in Ids, NEW v \in Ids, NEW i \in DOMAIN keyFile'[u],
              NEW j \in DOMAIN keyFile'[v], keyFile'[u][i].key = keyFile'[v][j].key
       PROVE  u = v /\ i = j
  <2>1. CASE i \in DOMAIN keyFile[u] /\ j \in DOMAIN keyFile[v]
    BY <1>9, <1>12, <2>1 DEF FileInv
  <2>2. CASE i \in DOMAIN keyFile[u] /\ v = w /\ j = n + 1
    BY <1>4, <1>6, <1>9, <1>12, <2>2
  <2>3. CASE u = w /\ i = n + 1 /\ j \in DOMAIN keyFile[v]
    BY <1>4, <1>6, <1>9, <1>12, <2>3
  <2>4. CASE u = w /\ i = n + 1 /\ v = w /\ j = n + 1
    BY <2>4
  <2>. QED  BY <1>10, <1>12, <2>1, <2>2, <2>3, <2>4
<1>. QED  BY <1>11, <1>12 DEF FileInv

\* Each key is in one place.
LEMMA NextFile == ASSUME TypeInv, GateInv, FileInv, CountInv, [Next]_vars PROVE FileInv'
<1>0. sequence \in Nat
  BY DEF TypeInv
<1>1. ASSUME NEW t \in Putters, Get(t) PROVE FileInv'
  <2>1. /\ keyFile' = keyFile /\ valueFile' = valueFile /\ sequence' = sequence
        /\ contents' = contents
    BY <1>1, GetFrame DEF Get, putVars
  <2>. QED  BY <2>1 DEF FileInv
<1>2. ASSUME NEW t \in Putters, NEW k \in Keys, PutWritten(t, k) PROVE FileInv'
  BY <1>2, PutFile
<1>3. ASSUME NEW t \in Putters, NEW k \in Keys, PutFails(t, k) \/ PutDropped(t, k) PROVE FileInv'
  <2>1. /\ ~ Put(k) /\ contents' = [contents EXCEPT ![k] = calls]
        /\ \A v \in Ids : keyFile'[v] = <<>> \/ keyFile'[v] = keyFile[v]
        /\ \A v \in Ids : valueFile'[v] = <<>> \/ valueFile'[v] = valueFile[v]
        /\ sequence' \in {sequence, sequence + 1}
    BY <1>3, PutLost
  <2>2. \A l \in Keys : Put(l) => contents'[l] = contents[l]
    BY <2>1 DEF Put, TypeInv
  <2>3. \A w \in Ids : \A i \in DOMAIN keyFile'[w] :
          i \in DOMAIN keyFile[w] /\ keyFile'[w][i] = keyFile[w][i]
    BY <2>1, NoEntries
  <2>4. \A w \in Ids : \A i \in DOMAIN valueFile'[w] :
          i \in DOMAIN valueFile[w] /\ valueFile'[w][i] = valueFile[w][i]
    BY <2>1, NoEntries
  <2>. QED  BY <1>0, <2>1, <2>2, <2>3, <2>4, FewerEntries
<1>4. ASSUME CloseWriters PROVE FileInv'
  <2>1. contents' = contents /\ sequence' = sequence
    BY <1>4, CloseEffect DEF putVars
  <2>. QED  BY <1>0, <1>4, <2>1, CloseEffect, FewerEntries
<1>5. ASSUME Abandon PROVE FileInv'
  <2>1. \A w \in Ids : DOMAIN keyFile'[w] = {}
    BY <1>5, NoEntries DEF Abandon
  <2>. QED  BY <2>1 DEF FileInv
<1>6. ASSUME NEW p \in Prefixes, Build(p) PROVE FileInv'
  BY <1>6, BuildFrame DEF FileInv, writerVars, putVars
<1>7. ASSUME Commits PROVE FileInv'
  BY <1>7, CommitsFrame DEF FileInv, writerVars, putVars
<1>. QED  BY <1>1, <1>2, <1>3, <1>4, <1>5, <1>6, <1>7, StepKinds

-----------------------------------------------------------------------------
\* The open writers count a put.
LEMMA PutCount ==
  ASSUME TypeInv, CountInv, NEW t \in Putters, NEW k \in Keys, PutWritten(t, k)
  PROVE  CountInv'
<1>0. PICK w \in Ids : w = writer[t]
  BY PutEffect
<1>. DEFINE e == Entry(w, k)
<1>1. /\ w \in Ids /\ status[w] = "open" /\ phase = "open" /\ ~ Put(k) /\ calls \in Calls
      /\ contents' = [contents EXCEPT ![k] = calls] /\ e \in KeyEntry
      /\ keyFile'[w] = Append(keyFile[w], e) /\ valueFile'[w] = Append(valueFile[w], calls)
      /\ \A v \in Ids : v # w => keyFile'[v] = keyFile[v] /\ valueFile'[v] = valueFile[v]
      /\ keyFile' \in [Ids -> Seq(KeyEntry)]
  BY <1>0, PutEffect
<1>2. /\ keyFile[w] \in Seq(KeyEntry) /\ valueFile[w] \in Seq(Nat) /\ calls \in Nat
      /\ DOMAIN keyFile[w] = 1 .. Len(keyFile[w]) /\ Len(keyFile[w]) \in Nat
  BY <1>1, FileEntries, Constants
<1>3. /\ numKeys' = [numKeys EXCEPT ![w] = numKeys[w] + 1] /\ status' = status
      /\ numPrefix' = [numPrefix EXCEPT ![w] =
           [numPrefix[w] EXCEPT ![Prefix(k)] = CountKey(numPrefix[w][Prefix(k)])]]
  BY <1>0 DEF PutWritten
<1>4. e.key = k
  BY DEF Entry
<1>. HIDE DEF e
<1>5. /\ numKeys'[w] = numKeys[w] + 1
      /\ \A v \in Ids : v # w => numKeys'[v] = numKeys[v] /\ numPrefix'[v] = numPrefix[v]
      /\ numPrefix'[w] = [numPrefix[w] EXCEPT ![Prefix(k)] = CountKey(numPrefix[w][Prefix(k)])]
  BY <1>1, <1>3 DEF TypeInv
<1>6. /\ Len(keyFile'[w]) = Len(keyFile[w]) + 1 /\ Len(valueFile'[w]) = Len(valueFile[w]) + 1
      /\ \A i \in 1 .. Len(keyFile[w]) : keyFile'[w][i] = keyFile[w][i]
      /\ keyFile'[w][Len(keyFile[w]) + 1] = e
      /\ DOMAIN keyFile'[w] = 1 .. Len(keyFile[w]) + 1
  BY <1>1, <1>2, AppendProperties, LenProperties
<1>7. ASSUME NEW p \in Prefixes
      PROVE  numPrefix'[w][p] = Capped(Cardinality(Found(w, p)'))
  <2>1. /\ Found(w, p) = FoundIn(keyFile[w], p)
        /\ Cardinality(Found(w, p)) \in Nat
    BY <1>1, FileEntries
  <2>2. Found(w, p)' = FoundIn(Append(keyFile[w], e), p)
    BY <1>1 DEF Found, FoundIn
  <2>3. Cardinality(FoundIn(Append(keyFile[w], e), p)) =
          IF Prefix(k) = p THEN Cardinality(FoundIn(keyFile[w], p)) + 1
                           ELSE Cardinality(FoundIn(keyFile[w], p))
    BY <1>1, <1>2, <1>4, FoundAppend
  <2>4. numPrefix[w] \in [Prefixes -> Nat] /\ numPrefix[w][p] = Capped(Cardinality(Found(w, p)))
    BY <1>1 DEF CountInv, TypeInv
  <2>. DEFINE c == Cardinality(Found(w, p))
  <2>5. Cardinality(Found(w, p)') = IF Prefix(k) = p THEN c + 1 ELSE c
    BY <2>1, <2>2, <2>3
  <2>. HIDE DEF c
  <2>6. CASE Prefix(k) = p
    <3>1. numPrefix'[w][p] = CountKey(Capped(c))
      BY <1>5, <2>4, <2>6 DEF c
    <3>2. CountKey(Capped(c)) = Capped(c + 1)
      BY <2>1, Constants DEF c, CountKey, Capped
    <3>. QED  BY <2>5, <2>6, <3>1, <3>2
  <2>7. CASE Prefix(k) # p
    BY <1>5, <2>4, <2>5, <2>7 DEF c
  <2>. QED  BY <2>6, <2>7
<1>8. ASSUME NEW v \in Ids, status[v] = "open"
      PROVE  /\ Len(valueFile'[v]) = Len(keyFile'[v]) /\ numKeys'[v] = Len(keyFile'[v])
             /\ \A p \in Prefixes : numPrefix'[v][p] = Capped(Cardinality(Found(v, p)'))
  <2>1. CASE v = w
    <3>1. Len(valueFile[w]) = Len(keyFile[w]) /\ numKeys[w] = Len(keyFile[w])
      BY <1>1 DEF CountInv
    <3>. QED  BY <1>5, <1>6, <1>7, <2>1, <3>1
  <2>2. CASE v # w
    <3>1. \A p : Found(v, p)' = Found(v, p)
      BY <1>1, <2>2 DEF Found
    <3>2. /\ Len(valueFile[v]) = Len(keyFile[v]) /\ numKeys[v] = Len(keyFile[v])
          /\ \A p \in Prefixes : numPrefix[v][p] = Capped(Cardinality(Found(v, p)))
      BY <1>1, <1>8 DEF CountInv
    <3>. QED  BY <1>1, <1>5, <2>2, <3>1, <3>2
  <2>. QED  BY <2>1, <2>2
<1>9. ASSUME NEW v \in Ids, status[v] # "open"
      PROVE  v # w /\ keyFile'[v] = keyFile[v] /\ numPrefix'[v] = numPrefix[v]
  BY <1>1, <1>5, <1>9
<1>10. ASSUME NoneBroken, NEW l \in Keys, Put(l)' PROVE InFiles(l)'
  <2>1. CASE l = k
    <3>1. Len(keyFile[w]) + 1 \in DOMAIN keyFile'[w] /\ keyFile'[w][Len(keyFile[w]) + 1].key = k
      BY <1>2, <1>4, <1>6
    <3>. QED  BY <1>1, <2>1, <3>1 DEF InFiles
  <2>2. CASE l # k
    <3>1. Put(l)
      BY <1>1, <1>10, <2>2 DEF Put, TypeInv
    <3>2. InFiles(l)
      BY <1>1, <1>10, <3>1 DEF CountInv
    <3>3. PICK v \in Ids : \E i \in DOMAIN keyFile[v] : keyFile[v][i].key = l
      BY <3>2 DEF InFiles
    <3>4. PICK i \in DOMAIN keyFile[v] : keyFile[v][i].key = l
      BY <3>3
    <3>5. i \in DOMAIN keyFile'[v] /\ keyFile'[v][i] = keyFile[v][i]
      <4>1. CASE v = w
        <5>1. i \in 1 .. Len(keyFile[w])
          BY <1>2, <3>4, <4>1
        <5>2. i \in 1 .. Len(keyFile[w]) + 1
          BY <1>2, <5>1
        <5>. QED  BY <1>6, <4>1, <5>1, <5>2
      <4>2. CASE v # w
        BY <1>1, <3>4, <4>2
      <4>. QED  BY <4>1, <4>2
    <3>. QED  BY <3>4, <3>5 DEF InFiles
  <2>. QED  BY <2>1, <2>2
<1>11. NoneBroken' <=> NoneBroken
  BY <1>3 DEF NoneBroken
<1>12. ASSUME NEW v \in Ids, status'[v] = "open"
       PROVE  /\ Len(valueFile'[v]) = Len(keyFile'[v]) /\ numKeys'[v] = Len(keyFile'[v])
              /\ \A p \in Prefixes : numPrefix'[v][p] = Capped(Cardinality(Found(v, p)))'
  BY <1>3, <1>8, <1>12 DEF Capped
<1>13. /\ \A v \in Ids : status'[v] \in {"none", "broken"} => keyFile'[v] = <<>>
       /\ \A v \in Ids : status'[v] # "closed"
       /\ \A v \in Ids : status'[v] = "none" => \A p \in Prefixes : numPrefix'[v][p] = 0
  BY <1>1, <1>3, <1>9 DEF CountInv
<1>14. NoneBroken' => \A l \in Keys : Put(l)' => InFiles(l)'
  BY <1>10, <1>11
<1>. QED  BY <1>12, <1>13, <1>14 DEF CountInv

\* What the open writers count.
LEMMA NextCount == ASSUME TypeInv, GateInv, CountInv, [Next]_vars PROVE CountInv'
<1>. SUFFICES ASSUME phase' = "open" PROVE CountInv'
  BY DEF CountInv
<1>1. ASSUME NEW t \in Putters, Get(t) PROVE CountInv'
  <2>1. /\ phase = "open" /\ nextId \in Ids
        /\ keyFile' = keyFile /\ valueFile' = valueFile
        /\ numPrefix' = numPrefix /\ numKeys' = numKeys
        /\ keyFile[nextId] = <<>> /\ valueFile[nextId] = <<>> /\ numKeys[nextId] = 0
        /\ status[nextId] = "none" /\ \A p \in Prefixes : numPrefix[nextId][p] = 0
        /\ status'[nextId] \in {"open", "broken"}
        /\ \A w \in Ids : w # nextId => status'[w] = status[w]
        /\ contents' = contents
    BY <1>1, GetFrame DEF Get, putVars
  <2>2. \A w, p : Found(w, p)' = Found(w, p)
    BY <2>1 DEF Found
  <2>3. ASSUME NEW w \in Ids, status'[w] = "open"
        PROVE  /\ Len(valueFile'[w]) = Len(keyFile'[w]) /\ numKeys'[w] = Len(keyFile'[w])
               /\ \A p \in Prefixes : numPrefix'[w][p] = Capped(Cardinality(Found(w, p)))'
    <3>1. /\ Len(valueFile[w]) = Len(keyFile[w]) /\ numKeys[w] = Len(keyFile[w])
          /\ \A p \in Prefixes : numPrefix[w][p] = Capped(Cardinality(Found(w, p)))
      <4>1. CASE w = nextId
        <5>1. \A p : Found(w, p) = {}
          BY <2>1, <4>1, NoEntries DEF Found
        <5>2. \A p : Cardinality(Found(w, p)) = 0
          BY <5>1, FS_EmptySet
        <5>3. Capped(0) = 0
          BY Constants DEF Capped
        <5>. QED  BY <2>1, <4>1, <5>2, <5>3, EmptySeq
      <4>2. CASE w # nextId
        BY <2>1, <2>3, <4>2 DEF CountInv
      <4>. QED  BY <4>1, <4>2
    <3>. QED  BY <2>1, <2>2, <3>1 DEF Capped
  <2>4. /\ \A v \in Ids : status'[v] \in {"none", "broken"} => keyFile'[v] = <<>>
        /\ \A v \in Ids : status'[v] # "closed"
        /\ \A v \in Ids : status'[v] = "none" => \A p \in Prefixes : numPrefix'[v][p] = 0
    BY <2>1 DEF CountInv
  <2>5. NoneBroken' => NoneBroken
    BY <2>1 DEF NoneBroken
  <2>6. NoneBroken' => \A l \in Keys : Put(l)' => InFiles(l)'
    BY <2>1, <2>5 DEF CountInv, Put, InFiles
  <2>. QED  BY <2>3, <2>4, <2>6 DEF CountInv
<1>2. ASSUME NEW t \in Putters, NEW k \in Keys, PutWritten(t, k) PROVE CountInv'
  BY <1>2, PutCount
<1>3. ASSUME NEW t \in Putters, NEW k \in Keys, PutFails(t, k) \/ PutDropped(t, k) PROVE CountInv'
  <2>1. PICK w \in Ids : w = writer[t]
    BY <1>3, PutLost
  <2>2. /\ phase = "open" /\ status'[w] = "broken"
        /\ keyFile'[w] = <<>> \/ (keyFile'[w] = keyFile[w] /\ status[w] = "broken")
        /\ \A v \in Ids : v # w => /\ status'[v] = status[v] /\ keyFile'[v] = keyFile[v]
                                   /\ valueFile'[v] = valueFile[v]
        /\ UNCHANGED <<numPrefix, numKeys>>
    BY <1>3, <2>1, PutLost
  <2>3. ASSUME NEW v \in Ids, status'[v] = "open"
        PROVE  /\ Len(valueFile'[v]) = Len(keyFile'[v]) /\ numKeys'[v] = Len(keyFile'[v])
               /\ \A p \in Prefixes : numPrefix'[v][p] = Capped(Cardinality(Found(v, p)))'
    <3>1. v # w /\ status[v] = "open" /\ keyFile'[v] = keyFile[v] /\ valueFile'[v] = valueFile[v]
      BY <2>2, <2>3
    <3>2. \A p : Found(v, p)' = Found(v, p)
      BY <3>1 DEF Found
    <3>3. /\ Len(valueFile[v]) = Len(keyFile[v]) /\ numKeys[v] = Len(keyFile[v])
          /\ \A p \in Prefixes : numPrefix[v][p] = Capped(Cardinality(Found(v, p)))
      BY <2>2, <3>1 DEF CountInv
    <3>. QED  BY <2>2, <3>1, <3>2, <3>3 DEF Capped
  <2>4. /\ \A v \in Ids : status'[v] \in {"none", "broken"} => keyFile'[v] = <<>>
        /\ \A v \in Ids : status'[v] # "closed"
        /\ \A v \in Ids : status'[v] = "none" => \A p \in Prefixes : numPrefix'[v][p] = 0
    BY <2>2 DEF CountInv
  <2>5. ~ NoneBroken'
    BY <2>2 DEF NoneBroken
  <2>. QED  BY <2>3, <2>4, <2>5 DEF CountInv
<1>4. ASSUME UNCHANGED vars PROVE CountInv'
  <2>1. UNCHANGED <<phase, status, keyFile, valueFile, numPrefix, numKeys, contents>>
    BY <1>4 DEF vars, writerVars, putVars
  <2>2. \A w, p : Found(w, p)' = Found(w, p)
    BY <2>1 DEF Found
  <2>3. NoneBroken' <=> NoneBroken
    BY <2>1 DEF NoneBroken
  <2>. QED  BY <2>1, <2>2, <2>3 DEF CountInv, Capped, Put, InFiles
<1>. QED  BY <1>1, <1>2, <1>3, <1>4, OpenSteps

-----------------------------------------------------------------------------
\* What is lost when the writers are closed is missed.
LEMMA CloseLoss ==
  ASSUME TypeInv, CountInv, CloseWriters, phase' = "build"
  PROVE  LossInv'
<1>1. /\ phase = "open" /\ NoneBroken
      /\ UNCHANGED <<writer, nextId, sequence, numPrefix, numKeys, buildVars, manifest, putVars>>
  BY CloseEffect
<1>2. \A k \in Keys : Put(k) => InFiles(k)
  BY <1>1 DEF CountInv
\* What the counts of a writer say.
<1>3. ASSUME NEW w \in Ids, NEW p \in Prefixes
      PROVE  /\ Exact(w, p) => Cardinality(Found(w, p)) <= numPrefix[w][p]
             /\ Exact(w, p)' <=> Exact(w, p)
             /\ Cardinality(Found(w, p)) \in Nat /\ numPrefix[w][p] \in Nat
             /\ IsFiniteSet(Found(w, p)) /\ Found(w, p) = FoundIn(keyFile[w], p)
  <2>1. /\ Cardinality(Found(w, p)) \in Nat /\ numPrefix[w][p] \in Nat
        /\ IsFiniteSet(Found(w, p)) /\ Found(w, p) = FoundIn(keyFile[w], p)
    BY FileEntries DEF TypeInv
  <2>2. status[w] \in {"none", "open"}
    BY <1>1 DEF CountInv, NoneBroken, TypeInv
  <2>3. CASE status[w] = "none"
    <3>1. keyFile[w] = <<>>
      BY <1>1, <2>3 DEF CountInv
    <3>2. Found(w, p) = {}
      BY <3>1, NoEntries DEF Found
    <3>3. Cardinality(Found(w, p)) = 0
      BY <3>2, FS_EmptySet
    <3>. QED  BY <1>1, <2>1, <3>3 DEF Exact
  <2>4. CASE status[w] = "open"
    <3>1. numPrefix[w][p] = Capped(Cardinality(Found(w, p)))
      BY <1>1, <2>4 DEF CountInv
    <3>2. Exact(w, p) => numPrefix[w][p] = Cardinality(Found(w, p))
      BY <2>1, <3>1, Constants DEF Exact, Capped
    <3>. QED  BY <1>1, <2>1, <3>2 DEF Exact
  <2>. QED  BY <2>2, <2>3, <2>4
<1>4. CASE keyFile' = keyFile
  <2>1. \A w, p : Found(w, p)' = Found(w, p)
    BY <1>4 DEF Found
  <2>2. \A k \in Keys : Put(k)' => InFiles(k)'
    BY <1>1, <1>2, <1>4 DEF Put, InFiles, putVars
  <2>3. \A w \in Ids, p \in Prefixes :
          Exact(w, p)' => Cardinality(Found(w, p)') <= numPrefix'[w][p]
    BY <1>1, <1>3, <2>1
  <2>. QED  BY <2>2, <2>3 DEF LossInv
<1>5. ASSUME NEW w \in Ids, status[w] = "open", keyFile[w] # <<>>,
             keyFile'[w] = ButLast(keyFile[w]),
             \A v \in Ids : v # w => keyFile'[v] = keyFile[v]
      PROVE  LossInv'
  <2>. DEFINE n == Len(keyFile[w])
  <2>1. /\ n \in Nat \ {0} /\ DOMAIN keyFile[w] = 1 .. n /\ keyFile[w] \in Seq(KeyEntry)
        /\ ButLast(keyFile[w]) \in Seq(KeyEntry)
        /\ DOMAIN keyFile'[w] = 1 .. n - 1 /\ Len(keyFile'[w]) = n - 1
        /\ \A i \in 1 .. n - 1 : keyFile'[w][i] = keyFile[w][i]
    BY <1>5, FileEntries, ButLastProperties
  <2>. HIDE DEF n
  <2>2. ASSUME NEW p \in Prefixes
        PROVE  /\ Cardinality(Found(w, p)') =
                    IF Prefix(keyFile[w][n].key) = p THEN Cardinality(Found(w, p)) - 1
                                                     ELSE Cardinality(Found(w, p))
               /\ Cardinality(Found(w, p)') \in Nat
    <3>1. Found(w, p)' = FoundIn(ButLast(keyFile[w]), p)
      BY <1>5 DEF Found, FoundIn
    <3>2. Found(w, p) = FoundIn(keyFile[w], p)
      BY <1>3
    <3>3. Cardinality(FoundIn(ButLast(keyFile[w]), p)) =
            IF Prefix(keyFile[w][n].key) = p THEN Cardinality(FoundIn(keyFile[w], p)) - 1
                                             ELSE Cardinality(FoundIn(keyFile[w], p))
      BY <1>5, <2>1, FoundButLast DEF n
    <3>4. Cardinality(FoundIn(ButLast(keyFile[w]), p)) \in Nat
      BY <2>1, FoundFinite
    <3>. QED  BY <3>1, <3>2, <3>3, <3>4
  <2>3. ASSUME NEW v \in Ids, NEW p \in Prefixes, Exact(v, p)'
        PROVE  Cardinality(Found(v, p)') <= numPrefix'[v][p]
    <3>1. /\ Cardinality(Found(v, p)) <= numPrefix[v][p] /\ numPrefix[v][p] \in Nat
          /\ Cardinality(Found(v, p)) \in Nat /\ numPrefix'[v][p] = numPrefix[v][p]
      BY <1>1, <1>3, <2>3
    <3>2. CASE v = w
      <4>1. Cardinality(Found(v, p)') \in Nat
            /\ Cardinality(Found(v, p)') <= Cardinality(Found(v, p))
        BY <2>2, <3>1, <3>2
      <4>. QED  BY <3>1, <4>1
    <3>3. CASE v # w
      <4>1. Found(v, p)' = Found(v, p)
        BY <1>5, <3>3 DEF Found
      <4>. QED  BY <3>1, <4>1
    <3>. QED  BY <3>2, <3>3
  <2>4. ASSUME NEW k \in Keys, Put(k)', ~ InFiles(k)' PROVE EndsEarly(w, Prefix(k))'
    <3>. DEFINE p == Prefix(k)
    <3>1. InFiles(k) /\ p \in Prefixes
      BY <1>1, <1>2, <2>4, Constants DEF Put, putVars
    <3>2. PICK v \in Ids : \E i \in DOMAIN keyFile[v] : keyFile[v][i].key = k
      BY <3>1 DEF InFiles
    <3>3. PICK i \in DOMAIN keyFile[v] : keyFile[v][i].key = k
      BY <3>2
    <3>4. v = w
      <4>1. v # w => keyFile'[v] = keyFile[v]
        BY <1>5
      <4>. QED  BY <2>4, <3>3, <4>1 DEF InFiles
    <3>5. i = n
      <4>1. i \in 1 .. n - 1 => i \in DOMAIN keyFile'[w] /\ keyFile'[w][i].key = k
        BY <2>1, <3>3, <3>4
      <4>2. i \notin 1 .. n - 1
        BY <2>4, <4>1 DEF InFiles
      <4>. QED  BY <2>1, <3>3, <3>4, <4>2
    <3>6. Prefix(keyFile[w][n].key) = p
      BY <3>3, <3>4, <3>5
    <3>. HIDE DEF p
    <3>. DEFINE c == Cardinality(Found(w, p))
    <3>7. c \in Nat \ {0} /\ Cardinality(Found(w, p)') = c - 1
      BY <1>3, <2>2, <3>1, <3>6
    <3>8. numPrefix[w][p] = Capped(c) /\ numKeys[w] = n
      BY <1>1, <1>5, <3>1 DEF CountInv, n
    <3>. HIDE DEF c
    <3>9. numPrefix[w][p] # 0 /\ (Exact(w, p) => numPrefix[w][p] = c)
      BY <3>7, <3>8, Constants DEF Capped, Exact
    <3>10. numPrefix' = numPrefix /\ numKeys' = numKeys
      BY <1>1
    <3>11. numPrefix'[w][p] # 0
      BY <3>9, <3>10
    <3>12. CASE Exact(w, p)'
      <4>1. Cardinality(Found(w, p)') < numPrefix'[w][p]
        BY <1>3, <3>1, <3>7, <3>9, <3>10, <3>12
      <4>. QED  BY <3>11, <3>12, <4>1 DEF EndsEarly, p
    <3>13. CASE ~ Exact(w, p)'
      <4>1. Len(keyFile'[w]) < numKeys'[w]
        BY <2>1, <3>8, <3>10
      <4>. QED  BY <3>11, <3>13, <4>1 DEF EndsEarly, p
    <3>. QED  BY <3>12, <3>13
  <2>5. \A k \in Keys : Put(k)' => InFiles(k)' \/ \E v \in Ids : EndsEarly(v, Prefix(k))'
    BY <2>4
  <2>. QED  BY <2>3, <2>5 DEF LossInv, Prefix
<1>. QED  BY <1>4, <1>5, CloseEffect

\* Nothing is lost without being missed.
LEMMA NextLoss == ASSUME TypeInv, CountInv, LossInv, [Next]_vars PROVE LossInv'
<1>. SUFFICES ASSUME phase' = "build" PROVE LossInv'
  BY DEF LossInv
<1>1. CASE CloseWriters
  BY <1>1, CloseLoss
<1>2. CASE phase = "build" /\ UNCHANGED <<writerVars, putVars>>
  <2>1. UNCHANGED <<keyFile, numPrefix, numKeys, contents>>
    BY <1>2 DEF writerVars, putVars
  <2>2. \A w, p : /\ Found(w, p)' = Found(w, p) /\ (Exact(w, p)' <=> Exact(w, p))
                  /\ EndsEarly(w, p)' <=> EndsEarly(w, p)
    BY <2>1 DEF Found, Exact, EndsEarly
  <2>3. \A k : (Put(k)' <=> Put(k)) /\ (InFiles(k)' <=> InFiles(k))
    BY <2>1 DEF Put, InFiles
  <2>4. \A w \in Ids, p \in Prefixes :
          Exact(w, p)' => Cardinality(Found(w, p)') <= numPrefix'[w][p]
    BY <1>2, <2>1, <2>2 DEF LossInv
  <2>5. \A k \in Keys : Put(k)' => InFiles(k)' \/ \E w \in Ids : EndsEarly(w, Prefix(k))'
    BY <1>2, <2>2, <2>3 DEF LossInv
  <2>. QED  BY <2>4, <2>5 DEF LossInv, Prefix
<1>3. ASSUME NEW p \in Prefixes, Build(p) PROVE LossInv'
  BY <1>2, <1>3, BuildFrame
<1>4. ASSUME Commits PROVE LossInv'
  <2>1. UNCHANGED vars
    BY <1>4 DEF Commits, BuildFails, WriteManifest, WriteCurrent, CommitFails
  <2>. QED  BY <1>2, <2>1 DEF vars
<1>5. ~ (\E t \in Putters : Get(t)) /\ ~ Abandon
  BY DEF Get, Abandon
<1>6. ~ (\E t \in Putters, k \in Keys : PutWritten(t, k) \/ PutFails(t, k) \/ PutDropped(t, k))
  BY DEF PutWritten, PutFails, PutDropped, Called
<1>. QED  BY <1>1, <1>3, <1>4, <1>5, <1>6, StepKinds

-----------------------------------------------------------------------------
\* Until close() builds there are no tables, and the builders have nothing.
LEMMA OpenBuild ==
  ASSUME TypeInv, StageInv, phase = "open"
  PROVE  \A p \in Prefixes : stage[p] = "todo" /\ built[p] = {} /\ bins[p] = <<>>
  BY DEF StageInv

\* The steps outside the builders leave what they have alone.
LEMMA BuildersRest ==
  ASSUME TypeInv, GateInv, StageInv, [Next]_vars, \A p \in Prefixes : ~ Build(p)
  PROVE  /\ UNCHANGED buildVars
         /\ \/ phase = "open"
            \/ phase' # "open" /\ UNCHANGED <<writerVars, ok, putVars>>
            \/ phase' = phase /\ UNCHANGED <<writerVars, ok, putVars>>
<1>1. ASSUME NEW t \in Putters, Get(t) PROVE UNCHANGED buildVars /\ phase = "open"
  BY <1>1 DEF Get
<1>2. ASSUME NEW t \in Putters, NEW k \in Keys, PutWritten(t, k)
      PROVE  UNCHANGED buildVars /\ phase = "open"
  BY <1>2 DEF PutWritten, Called
<1>3. ASSUME NEW t \in Putters, NEW k \in Keys, PutFails(t, k) \/ PutDropped(t, k)
      PROVE  UNCHANGED buildVars /\ phase = "open"
  BY <1>3 DEF PutFails, PutDropped, Called
<1>4. CloseWriters \/ Abandon => UNCHANGED buildVars /\ phase = "open"
  BY DEF CloseWriters, Abandon
<1>5. ASSUME Commits
      PROVE  /\ UNCHANGED <<writerVars, ok, buildVars, putVars>>
             /\ phase' # "open" \/ phase' = phase
  BY <1>5, CommitsFrame DEF Commits, BuildFails, WriteManifest, WriteCurrent, CommitFails, vars
<1>. QED  BY <1>1, <1>2, <1>3, <1>4, <1>5, StepKinds

\* What BuildTable has sorted and split.
LEMMA ReadEffect ==
  ASSUME TypeInv, FileInv, NEW p \in Prefixes, ReadKeys(p)
  PROVE  \E s :
           /\ s \in Sorted(KeysRead(p)) /\ s \in Seq(FileKey)
           /\ bins' = [bins EXCEPT ![p] = Bins(s)] /\ Bins(s) \in Seq(Seq(FileKey))
           /\ Bins(s) = <<>> <=> KeysRead(p) = {}
           /\ Elements(s) = KeysRead(p)
           /\ \A i, j \in DOMAIN s : i < j => Less(s[i].key, s[j].key)
<1>1. PICK s \in Sorted(KeysRead(p)) : bins' = [bins EXCEPT ![p] = Bins(s)]
  BY DEF ReadKeys
<1>2. /\ s \in Seq(FileKey) /\ Elements(s) = KeysRead(p) /\ (s = <<>> <=> KeysRead(p) = {})
      /\ \A i, j \in DOMAIN s : i < j => Less(s[i].key, s[j].key)
  BY SortedProperties
<1>3. Bins(s) \in Seq(Seq(FileKey)) /\ (Bins(s) = <<>> <=> s = <<>>)
  BY <1>2, BinsProperties
<1>. QED  BY <1>1, <1>2, <1>3

\* Where the builders are.
LEMMA NextStage ==
  ASSUME TypeInv, GateInv, FileInv, StageInv, SourceInv, [Next]_vars PROVE StageInv'
<1>1. CASE \A p \in Prefixes : ~ Build(p)
  <2>1. UNCHANGED <<stage, bins, number, built, fileNumber, tables>>
    BY <1>1, BuildersRest DEF buildVars
  <2>2. phase' = "open" => phase = "open" /\ ok' = ok
    <3>1. ASSUME phase' = "open" PROVE phase = "open" /\ ok' = ok
      <4>1. ASSUME NEW t \in Putters, Get(t) PROVE phase = "open" /\ ok' = ok
        BY <4>1 DEF Get
      <4>2. ASSUME NEW t \in Putters, NEW k \in Keys,
                   PutWritten(t, k) \/ PutFails(t, k) \/ PutDropped(t, k)
            PROVE  phase = "open" /\ ok' = ok
        BY <4>2 DEF PutWritten, PutFails, PutDropped, Called
      <4>3. UNCHANGED vars => phase = "open" /\ ok' = ok
        BY <3>1 DEF vars
      <4>. QED  BY <3>1, <4>1, <4>2, <4>3, OpenSteps
    <3>. QED  BY <3>1
  <2>. QED  BY <2>1, <2>2 DEF StageInv
<1>2. ASSUME NEW p \in Prefixes, Build(p), phase' # "open" PROVE StageInv'
  <2>. USE DEF StageInv
  <2>1. ASSUME NEW st \in {"todo", "sorted", "writing", "done"}, NEW bs, NEW bt,
               stage' = [stage EXCEPT ![p] = st], bins' = [bins EXCEPT ![p] = bs],
               built' = [built EXCEPT ![p] = bt]
        PROVE  /\ stage'[p] = st /\ bins'[p] = bs /\ built'[p] = bt
               /\ \A q \in Prefixes : q # p =>
                    stage'[q] = stage[q] /\ bins'[q] = bins[q] /\ built'[q] = built[q]
    BY <2>1 DEF TypeInv
  <2>2. built = [built EXCEPT ![p] = built[p]] /\ bins = [bins EXCEPT ![p] = bins[p]]
    BY DEF TypeInv
  <2>3. CASE ReadKeys(p)
    <3>1. PICK s : bins' = [bins EXCEPT ![p] = Bins(s)] /\ (Bins(s) = <<>> <=> KeysRead(p) = {})
      BY <2>3, ReadEffect
    <3>. DEFINE st == IF KeysRead(p) = {} THEN "done" ELSE "sorted"
    <3>2. /\ stage' = [stage EXCEPT ![p] = st] /\ st \in {"done", "sorted"} /\ built' = built
          /\ UNCHANGED <<number, fileNumber, tables>>
      BY <2>3 DEF ReadKeys
    <3>3. st = "done" <=> Bins(s) = <<>>
      BY <3>1
    <3>. HIDE DEF st
    <3>4. /\ stage'[p] = st /\ bins'[p] = Bins(s)
          /\ \A q \in Prefixes : q # p => stage'[q] = stage[q] /\ bins'[q] = bins[q]
      <4>1. DOMAIN stage = Prefixes /\ DOMAIN bins = Prefixes
        BY DEF TypeInv
      <4>2. stage'[p] = st /\ \A q \in Prefixes : q # p => stage'[q] = stage[q]
        BY <3>2, <4>1
      <4>3. bins'[p] = Bins(s) /\ \A q \in Prefixes : q # p => bins'[q] = bins[q]
        BY <3>1, <4>1
      <4>. QED  BY <4>2, <4>3
    <3>. QED  BY <1>2, <3>2, <3>3, <3>4
  <2>4. CASE SkipPrefix(p) \/ ReadKeysFails(p)
    <3>1. /\ stage[p] = "todo" /\ stage' = [stage EXCEPT ![p] = "done"]
          /\ UNCHANGED <<bins, number, built, fileNumber, tables>>
      BY <2>4 DEF SkipPrefix, ReadKeysFails, Starts
    <3>2. stage'[p] = "done" /\ \A q \in Prefixes : q # p => stage'[q] = stage[q]
      BY <2>1, <2>2, <3>1
    <3>. QED  BY <1>2, <3>1, <3>2
  <2>5. CASE OpenTable(p)
    <3>1. /\ stage[p] = "sorted" /\ stage' = [stage EXCEPT ![p] = "writing"]
          /\ number' = [number EXCEPT ![p] = fileNumber] /\ fileNumber' = fileNumber + 1
          /\ UNCHANGED <<bins, built, tables>>
      BY <2>5 DEF OpenTable
    <3>2. stage'[p] = "writing" /\ \A q \in Prefixes : q # p => stage'[q] = stage[q]
      BY <2>1, <2>2, <3>1
    <3>3. number'[p] = fileNumber /\ \A q \in Prefixes : q # p => number'[q] = number[q]
      BY <3>1 DEF TypeInv
    <3>4. \A q \in Prefixes : number[q] \in Nat
      BY DEF TypeInv
    <3>5. fileNumber \in Nat /\ \A n \in DOMAIN tables : n \in Nat
      BY DEF TypeInv
    <3>6. \A q \in Prefixes : stage'[q] = "todo" <=> stage[q] = "todo"
      BY <3>1, <3>2
    <3>7. \A q \in Prefixes : stage'[q] \in {"todo", "done"} <=> stage[q] \in {"todo", "done"}
      BY <3>1, <3>2
    <3>8. \A n \in DOMAIN tables : n < fileNumber' /\ n # fileNumber
      BY <3>1, <3>5
    <3>9. \A q \in Prefixes : q # p /\ stage'[q] = "writing" =>
            number'[q] < fileNumber /\ number'[q] < fileNumber' /\ number'[q] \notin DOMAIN tables
      BY <3>1, <3>2, <3>3, <3>4, <3>5
    <3>10. fileNumber < fileNumber'
      BY <3>1, <3>5
    <3>11. \A q \in Prefixes : stage'[q] = "writing" =>
             /\ number'[q] < fileNumber' /\ number'[q] \notin DOMAIN tables
             /\ \A r \in Prefixes : stage'[r] = "writing" /\ number'[r] = number'[q] => r = q
      <4>1. ASSUME NEW q \in Prefixes, stage'[q] = "writing"
            PROVE  number'[q] < fileNumber' /\ number'[q] \notin DOMAIN tables
        BY <3>3, <3>8, <3>9, <3>10, <4>1
      <4>2. ASSUME NEW q \in Prefixes, NEW r \in Prefixes, stage'[q] = "writing",
                   stage'[r] = "writing", number'[r] = number'[q]
            PROVE  r = q
        <5>1. ASSUME NEW o \in Prefixes, o # p, stage'[o] = "writing" PROVE number'[o] # fileNumber
          BY <3>5, <3>9, <5>1
        <5>2. CASE q # p /\ r # p
          BY <3>2, <3>3, <4>2, <5>2
        <5>. QED  BY <3>3, <4>2, <5>1, <5>2
      <4>. QED  BY <4>1, <4>2
    <3>. QED  BY <1>2, <3>1, <3>6, <3>7, <3>8, <3>11
  <2>6. CASE WriteTable(p)
    <3>. DEFINE n == number[p]  bs == Tail(bins[p])
    <3>1. /\ stage[p] = "writing" /\ Len(bins[p]) \in Nat \ {0}
          /\ bs = <<>> <=> Len(bins[p]) = 1
          /\ bins' = [bins EXCEPT ![p] = bs] /\ built' = [built EXCEPT ![p] = built[p] \cup {n}]
          /\ DOMAIN tables' = DOMAIN tables \cup {n}
      BY <2>6, TableWritten
    <3>2. /\ stage' = [stage EXCEPT ![p] = IF Len(bins[p]) = 1 THEN "done" ELSE "sorted"]
          /\ UNCHANGED <<number, fileNumber>>
      BY <2>6 DEF WriteTable
    <3>3. /\ stage'[p] = (IF Len(bins[p]) = 1 THEN "done" ELSE "sorted") /\ bins'[p] = bs
          /\ built'[p] = built[p] \cup {n}
          /\ \A q \in Prefixes : q # p =>
               stage'[q] = stage[q] /\ bins'[q] = bins[q] /\ built'[q] = built[q]
      BY <2>1, <3>1, <3>2
    <3>. HIDE DEF bs
    <3>4. \A q \in Prefixes : q # p /\ stage[q] = "writing" => number[q] # n
      BY <3>1
    <3>5. n < fileNumber
      BY <3>1
    <3>. HIDE DEF n
    <3>6. /\ \A q \in Prefixes : stage'[q] = "todo" => built'[q] = {}
          /\ \A q \in Prefixes : stage'[q] \in {"todo", "done"} <=> bins'[q] = <<>>
      BY <3>1, <3>3
    <3>7. \A q \in Prefixes : stage'[q] = "writing" =>
            /\ number[q] < fileNumber /\ number[q] \notin DOMAIN tables'
            /\ \A r \in Prefixes : stage'[r] = "writing" /\ number[r] = number[q] => r = q
      BY <3>1, <3>3, <3>4
    <3>8. \A q \in Prefixes : built'[q] \subseteq DOMAIN tables'
      BY <3>1, <3>3
    <3>9. \A m \in DOMAIN tables' : m < fileNumber
      BY <3>1, <3>5
    <3>. QED  BY <1>2, <3>2, <3>6, <3>7, <3>8, <3>9
  <2>7. CASE WriteTableFails(p)
    <3>1. /\ stage' = [stage EXCEPT ![p] = "done"] /\ bins' = [bins EXCEPT ![p] = <<>>]
          /\ built' = [built EXCEPT ![p] = {}] /\ UNCHANGED <<number, fileNumber, tables>>
      BY <2>7 DEF WriteTableFails, FailPrefix
    <3>2. /\ stage'[p] = "done" /\ bins'[p] = <<>> /\ built'[p] = {}
          /\ \A q \in Prefixes : q # p =>
               stage'[q] = stage[q] /\ bins'[q] = bins[q] /\ built'[q] = built[q]
      BY <2>1, <3>1
    <3>. QED  BY <1>2, <3>1, <3>2
  <2>. QED  BY <1>2, <2>3, <2>4, <2>5, <2>6, <2>7 DEF Build
<1>3. ASSUME NEW p \in Prefixes, Build(p) PROVE phase' # "open"
  BY <1>3, BuildFrame
<1>. QED  BY <1>1, <1>2, <1>3

-----------------------------------------------------------------------------
\* The entries of the table written are those of the first bin, with the values
\* that were put.
LEMMA EntriesWritten ==
  ASSUME TypeInv, FileInv, StageInv, SourceInv, NEW p \in Prefixes, WriteTable(p)
  PROVE  LET n == number[p]
             bin == Head(bins[p])
         IN  /\ \A e \in Entries(n)' : \E r \in Elements(bin) :
                  e.key = r.key /\ e.sequence = r.sequence /\ e.value = contents[r.key]
             /\ \A r \in Elements(bin) : \E e \in Entries(n)' : e.key = r.key
             /\ \A m \in DOMAIN tables : Entries(m)' = Entries(m)
<1>0. PICK n \in Nat : n = number[p]
  BY DEF TypeInv
<1>. DEFINE bin == Head(bins[p])
<1>1. /\ Len(bins[p]) \in Nat \ {0} /\ DOMAIN bins[p] = 1 .. Len(bins[p])
      /\ bin = bins[p][1] /\ tables'[n] = TableOf(bin)
      /\ \A m \in DOMAIN tables : tables'[m] = tables[m]
      /\ \A i \in DOMAIN bin :
           bin[i].writer \in Ids /\ bin[i].offset \in DOMAIN valueFile[bin[i].writer]
  BY <1>0, TableWritten
<1>2. ASSUME NEW i \in DOMAIN bin
      PROVE  valueFile[bin[i].writer][bin[i].offset] = contents[bin[i].key]
  <2>1. /\ bin[i].offset \in DOMAIN keyFile[bin[i].writer]
        /\ keyFile[bin[i].writer][bin[i].offset].key = bin[i].key
    <3>1. KeyFromFile(p, bin[i])
      BY <1>1, <1>2 DEF SourceInv
    <3>. QED  BY <3>1 DEF KeyFromFile
  <2>. HIDE DEF bin
  <2>2. bin[i].writer \in Ids /\ bin[i].offset \in DOMAIN valueFile[bin[i].writer]
    BY <1>1, <1>2
  <2>. QED  BY <2>1, <2>2 DEF FileInv
<1>. HIDE DEF bin
<1>3. /\ DOMAIN TableOf(bin) = DOMAIN bin
      /\ \A i \in DOMAIN bin : TableOf(bin)[i] =
           [key |-> bin[i].key, sequence |-> bin[i].sequence, value |-> contents[bin[i].key]]
  BY <1>2 DEF TableOf
<1>4. Entries(n)' = {TableOf(bin)[i] : i \in DOMAIN TableOf(bin)}
  <2>1. Entries(n)' = {tables'[n][i] : i \in DOMAIN tables'[n]}
    BY DEF Entries
  <2>. QED  BY <1>1, <2>1
<1>5. \A e \in Entries(n)' : \E r \in Elements(bin) :
        e.key = r.key /\ e.sequence = r.sequence /\ e.value = contents[r.key]
  BY <1>3, <1>4 DEF Elements
<1>6. \A r \in Elements(bin) : \E e \in Entries(n)' : e.key = r.key
  BY <1>3, <1>4 DEF Elements
<1>7. \A m \in DOMAIN tables : Entries(m)' = Entries(m)
  BY <1>1 DEF Entries
<1>8. Entries(number[p])' = Entries(n)'
  <2>1. number'[p] = n
    BY <1>0 DEF WriteTable
  <2>. QED  BY <1>0, <2>1 DEF Entries
<1>. QED  BY <1>0, <1>5, <1>6, <1>7, <1>8 DEF bin

\* What the other steps keep of the builders.
LEMMA RestKeeps ==
  ASSUME TypeInv, GateInv, StageInv, SourceInv, OrderInv, CoverInv, [Next]_vars,
         \A p \in Prefixes : ~ Build(p)
  PROVE  SourceInv' /\ OrderInv' /\ CoverInv'
<1>1. /\ UNCHANGED <<stage, bins, number, built, fileNumber, tables>>
      /\ phase = "open" \/ UNCHANGED <<keyFile, ok, contents>>
  BY BuildersRest DEF buildVars, writerVars, putVars
<1>2. \A n : Entries(n)' = Entries(n)
  BY <1>1 DEF Entries
<1>3. OrderInv'
  BY <1>1, <1>2 DEF OrderInv, AllLess, Elements
<1>4. CASE phase = "open"
  <2>1. \A p \in Prefixes :
          stage[p] = "todo" /\ built[p] = {} /\ bins[p] = <<>> /\ DOMAIN bins[p] = {}
    BY <1>4, OpenBuild, NoEntries
  <2>2. SourceInv'
    BY <1>1, <2>1 DEF SourceInv
  <2>3. \A k \in Keys : stage'[Prefix(k)] = "todo"
    BY <1>1, <2>1, Constants
  <2>4. CoverInv'
    BY <2>3 DEF CoverInv, Prefix
  <2>. QED  BY <1>3, <2>2, <2>4
<1>5. CASE UNCHANGED <<keyFile, ok, contents>>
  <2>1. SourceInv'
    <3>1. \A q, r : KeyFromFile(q, r)' <=> KeyFromFile(q, r)
      BY <1>5 DEF KeyFromFile, Prefix
    <3>2. \A q, e : EntryFromFile(q, e)' <=> EntryFromFile(q, e)
      BY <1>5 DEF EntryFromFile, Prefix
    <3>. QED  BY <1>1, <1>2, <3>1, <3>2 DEF SourceInv
  <2>2. \A k : (Put(k)' <=> Put(k)) /\ (InTables(k)' <=> InTables(k)) /\ (InBins(k)' <=> InBins(k))
    BY <1>1, <1>2, <1>5 DEF Put, InTables, InBins, Elements, Prefix
  <2>3. CoverInv'
    BY <1>1, <1>5, <2>2 DEF CoverInv, Prefix
  <2>. QED  BY <1>3, <2>1, <2>3
<1>. QED  BY <1>1, <1>4, <1>5

\* What the builders have comes from the files.
LEMMA NextSource ==
  ASSUME TypeInv, FileInv, StageInv, SourceInv, NEW p \in Prefixes, Build(p)
  PROVE  SourceInv'
<1>0. UNCHANGED <<keyFile, valueFile, contents>>
  BY BuildFrame DEF writerVars, putVars
\* What SourceInv says of a sequence of bins.
<1>. DEFINE Right(q, bs) == \A b \in DOMAIN bs : \A i \in DOMAIN bs[b] : KeyFromFile(q, bs[b][i])
<1>1. \A q \in Prefixes :
        Right(q, bins[q]) /\ \A n \in built[q] : \A e \in Entries(n) : EntryFromFile(q, e)
  BY DEF SourceInv
<1>2. SUFFICES \A q \in Prefixes :
        Right(q, bins'[q]) /\ \A n \in built'[q] : \A e \in Entries(n)' : EntryFromFile(q, e)
  <2>1. \A q, r : KeyFromFile(q, r)' <=> KeyFromFile(q, r)
    BY <1>0 DEF KeyFromFile, Prefix
  <2>2. \A q, e : EntryFromFile(q, e)' <=> EntryFromFile(q, e)
    BY <1>0 DEF EntryFromFile, Prefix
  <2>. QED  BY <2>1, <2>2 DEF SourceInv
<1>. HIDE DEF Right
<1>3. CASE ReadKeys(p)
  <2>1. PICK s : /\ s \in Seq(FileKey) /\ bins' = [bins EXCEPT ![p] = Bins(s)]
                 /\ Bins(s) \in Seq(Seq(FileKey)) /\ Elements(s) = KeysRead(p)
    BY <1>3, ReadEffect
  <2>2. UNCHANGED <<built, tables>>
    BY <1>3 DEF ReadKeys
  <2>3. Right(p, Bins(s))
    <3>1. ASSUME NEW b \in DOMAIN Bins(s), NEW i \in DOMAIN Bins(s)[b]
          PROVE  Bins(s)[b][i] \in KeysRead(p)
      <4>1. Elements(Bins(s)[b]) \subseteq Elements(s)
        BY <2>1, <3>1, BinsProperties
      <4>. QED  BY <2>1, <3>1, <4>1 DEF Elements
    <3>. QED  BY <3>1, KeysReadFrom DEF Right, KeyFromFile
  <2>4. bins'[p] = Bins(s) /\ \A q \in Prefixes : q # p => bins'[q] = bins[q]
    BY <2>1 DEF TypeInv
  <2>5. \A n : Entries(n)' = Entries(n)
    BY <2>2 DEF Entries
  <2>. QED  BY <1>1, <2>2, <2>3, <2>4, <2>5
<1>4. CASE SkipPrefix(p) \/ ReadKeysFails(p) \/ OpenTable(p)
  <2>1. UNCHANGED <<bins, built, tables>>
    BY <1>4 DEF SkipPrefix, ReadKeysFails, OpenTable
  <2>2. \A n : Entries(n)' = Entries(n)
    BY <2>1 DEF Entries
  <2>. QED  BY <1>1, <2>1, <2>2
<1>5. CASE WriteTable(p)
  <2>0. PICK n \in Nat : n = number[p]
    BY DEF TypeInv
  <2>. DEFINE bin == Head(bins[p])
  <2>1. /\ Len(bins[p]) \in Nat \ {0} /\ DOMAIN bins[p] = 1 .. Len(bins[p]) /\ bin = bins[p][1]
        /\ DOMAIN Tail(bins[p]) = 1 .. Len(bins[p]) - 1
        /\ \A b \in 1 .. Len(bins[p]) - 1 : Tail(bins[p])[b] = bins[p][b + 1]
        /\ bins' = [bins EXCEPT ![p] = Tail(bins[p])]
        /\ built' = [built EXCEPT ![p] = built[p] \cup {n}] /\ n \notin DOMAIN tables
    BY <1>5, <2>0, TableWritten
  <2>2. /\ \A e \in Entries(n)' : \E r \in Elements(bin) :
             e.key = r.key /\ e.sequence = r.sequence /\ e.value = contents[r.key]
        /\ \A m \in DOMAIN tables : Entries(m)' = Entries(m)
    <3>1. Entries(number[p])' = Entries(n)'
      <4>1. number'[p] = n
        BY <1>5, <2>0 DEF WriteTable
      <4>. QED  BY <2>0, <4>1 DEF Entries
    <3>. QED  BY <1>5, <2>0, <3>1, EntriesWritten
  <2>3. /\ bins'[p] = Tail(bins[p]) /\ \A q \in Prefixes : q # p => bins'[q] = bins[q]
        /\ built'[p] = built[p] \cup {n} /\ \A q \in Prefixes : q # p => built'[q] = built[q]
    BY <2>1 DEF TypeInv
  <2>4. Right(p, Tail(bins[p]))
    <3>1. ASSUME NEW b \in 1 .. Len(bins[p]) - 1
          PROVE  b + 1 \in DOMAIN bins[p] /\ Tail(bins[p])[b] = bins[p][b + 1]
      BY <2>1
    <3>2. Right(p, bins[p])
      BY <1>1
    <3>3. ASSUME NEW b \in DOMAIN Tail(bins[p]), NEW i \in DOMAIN Tail(bins[p])[b]
          PROVE  KeyFromFile(p, Tail(bins[p])[b][i])
      <4>1. b + 1 \in DOMAIN bins[p] /\ Tail(bins[p])[b] = bins[p][b + 1]
        BY <2>1, <3>1, <3>3
      <4>. QED  BY <3>2, <3>3, <4>1 DEF Right
    <3>. QED  BY <3>3 DEF Right
  <2>5. \A e \in Entries(n)' : EntryFromFile(p, e)
    <3>1. ASSUME NEW e \in Entries(n)' PROVE EntryFromFile(p, e)
      <4>1. PICK r \in Elements(bin) :
              e.key = r.key /\ e.sequence = r.sequence /\ e.value = contents[r.key]
        BY <2>2, <3>1
      <4>2. PICK i \in DOMAIN bin : r = bin[i]
        BY <4>1 DEF Elements
      <4>3. 1 \in DOMAIN bins[p] /\ Right(p, bins[p])
        BY <1>1, <2>1
      <4>4. /\ Prefix(r.key) = p /\ r.offset \in DOMAIN keyFile[r.writer]
            /\ keyFile[r.writer][r.offset].key = r.key
            /\ keyFile[r.writer][r.offset].sequence = r.sequence
        <5>1. KeyFromFile(p, r)
          BY <2>1, <4>2, <4>3 DEF Right
        <5>. QED  BY <5>1 DEF KeyFromFile
      <4>5. r.writer \in Ids
        BY <1>5, <4>2, TableWritten
      <4>. QED  BY <4>1, <4>4, <4>5 DEF EntryFromFile
    <3>. QED  BY <3>1
  <2>6. \A q \in Prefixes : \A m \in built[q] : \A e \in Entries(m)' : EntryFromFile(q, e)
    BY <1>1, <2>2 DEF StageInv
  <2>. QED  BY <1>1, <2>3, <2>4, <2>5, <2>6
<1>6. CASE WriteTableFails(p)
  <2>1. /\ bins' = [bins EXCEPT ![p] = <<>>] /\ built' = [built EXCEPT ![p] = {}]
        /\ tables' = tables
    BY <1>6 DEF WriteTableFails, FailPrefix
  <2>2. /\ bins'[p] = <<>> /\ built'[p] = {}
        /\ \A q \in Prefixes : q # p => bins'[q] = bins[q] /\ built'[q] = built[q]
    BY <2>1 DEF TypeInv
  <2>3. \A n : Entries(n)' = Entries(n)
    BY <2>1 DEF Entries
  <2>4. Right(p, <<>>)
    BY NoEntries DEF Right
  <2>. QED  BY <1>1, <2>2, <2>3, <2>4
<1>. QED  BY <1>3, <1>4, <1>5, <1>6 DEF Build

-----------------------------------------------------------------------------
\* A builder's step leaves the other prefixes alone.
LEMMA OtherPrefixes ==
  ASSUME TypeInv, FileInv, StageInv, SourceInv, NEW p \in Prefixes, Build(p)
  PROVE  /\ \A q \in Prefixes : q # p =>
              bins'[q] = bins[q] /\ built'[q] = built[q] /\ stage'[q] = stage[q]
         /\ \A m \in DOMAIN tables : Entries(m)' = Entries(m)
         /\ \A q \in Prefixes : built[q] \subseteq DOMAIN tables
<1>1. \A q \in Prefixes : built[q] \subseteq DOMAIN tables
  BY DEF StageInv
<1>2. /\ \E st : stage' = [stage EXCEPT ![p] = st]
      /\ \E bs : bins' = [bins EXCEPT ![p] = bs]
      /\ \E bt : built' = [built EXCEPT ![p] = bt]
  <2>1. stage = [stage EXCEPT ![p] = stage[p]] /\ bins = [bins EXCEPT ![p] = bins[p]]
        /\ built = [built EXCEPT ![p] = built[p]]
    BY DEF TypeInv
  <2>2. CASE ReadKeys(p)
    BY <2>1, <2>2 DEF ReadKeys
  <2>3. CASE SkipPrefix(p) \/ ReadKeysFails(p) \/ OpenTable(p)
    BY <2>1, <2>3 DEF SkipPrefix, ReadKeysFails, OpenTable
  <2>4. CASE WriteTable(p) \/ WriteTableFails(p)
    BY <2>1, <2>4 DEF WriteTable, WriteTableFails, FailPrefix
  <2>. QED  BY <2>2, <2>3, <2>4 DEF Build
<1>3. \A q \in Prefixes : q # p =>
        bins'[q] = bins[q] /\ built'[q] = built[q] /\ stage'[q] = stage[q]
  BY <1>2 DEF TypeInv
<1>4. \A m \in DOMAIN tables : Entries(m)' = Entries(m)
  <2>1. CASE WriteTable(p)
    BY <2>1, EntriesWritten
  <2>2. CASE ~ WriteTable(p)
    <3>1. tables' = tables
      BY <2>2 DEF Build, ReadKeys, SkipPrefix, ReadKeysFails, OpenTable, WriteTableFails
    <3>. QED  BY <3>1 DEF Entries
  <2>. QED  BY <2>1, <2>2
<1>. QED  BY <1>1, <1>3, <1>4

\* The tables of a prefix, and its bins, ascend.
LEMMA NextOrder ==
  ASSUME TypeInv, FileInv, StageInv, SourceInv, OrderInv, NEW p \in Prefixes, Build(p)
  PROVE  OrderInv'
<1>1. /\ \A q \in Prefixes : q # p => bins'[q] = bins[q] /\ built'[q] = built[q]
      /\ \A m \in DOMAIN tables : Entries(m)' = Entries(m)
      /\ \A q \in Prefixes : built[q] \subseteq DOMAIN tables
  BY OtherPrefixes
<1>2. /\ \A m, n \in built[p] :
           m = n \/ AllLess(Entries(m), Entries(n)) \/ AllLess(Entries(n), Entries(m))
      /\ \A n \in built[p], b \in DOMAIN bins[p] : AllLess(Entries(n), Elements(bins[p][b]))
      /\ \A b, c \in DOMAIN bins[p] :
           b < c => AllLess(Elements(bins[p][b]), Elements(bins[p][c]))
  BY DEF OrderInv
\* It is enough to look at this prefix.
<1>3. SUFFICES
        /\ \A m, n \in built'[p] :
             m = n \/ AllLess(Entries(m)', Entries(n)') \/ AllLess(Entries(n)', Entries(m)')
        /\ \A n \in built'[p], b \in DOMAIN bins'[p] :
             AllLess(Entries(n)', Elements(bins'[p][b]))
        /\ \A b, c \in DOMAIN bins'[p] :
             b < c => AllLess(Elements(bins'[p][b]), Elements(bins'[p][c]))
  <2>1. ASSUME NEW q \in Prefixes, q # p
        PROVE
          /\ \A m, n \in built'[q] :
               m = n \/ AllLess(Entries(m)', Entries(n)') \/ AllLess(Entries(n)', Entries(m)')
          /\ \A n \in built'[q], b \in DOMAIN bins'[q] :
               AllLess(Entries(n)', Elements(bins'[q][b]))
          /\ \A b, c \in DOMAIN bins'[q] :
               b < c => AllLess(Elements(bins'[q][b]), Elements(bins'[q][c]))
    <3>1. bins'[q] = bins[q] /\ built'[q] = built[q]
          /\ \A m \in built[q] : Entries(m)' = Entries(m)
      BY <1>1, <2>1
    <3>. QED  BY <3>1 DEF OrderInv
  <2>. QED  BY <1>3, <2>1 DEF OrderInv, AllLess, Elements, Less
<1>4. CASE ReadKeys(p)
  <2>1. PICK s : /\ s \in Seq(FileKey) /\ bins' = [bins EXCEPT ![p] = Bins(s)]
                 /\ \A i, j \in DOMAIN s : i < j => Less(s[i].key, s[j].key)
    BY <1>4, ReadEffect
  <2>2. bins'[p] = Bins(s) /\ built'[p] = {}
    BY <1>4, <2>1 DEF ReadKeys, Starts, StageInv, TypeInv
  <2>3. ASSUME NEW b \in DOMAIN Bins(s), NEW c \in DOMAIN Bins(s), b < c
        PROVE  AllLess(Elements(Bins(s)[b]), Elements(Bins(s)[c]))
    <3>1. ASSUME NEW x \in Elements(Bins(s)[b]), NEW y \in Elements(Bins(s)[c])
          PROVE  Less(x.key, y.key)
      <4>1. \E i, j \in DOMAIN s : i < j /\ x = s[i] /\ y = s[j]
        BY <2>1, <2>3, <3>1, BinsProperties
      <4>. QED  BY <2>1, <4>1
    <3>. QED  BY <3>1 DEF AllLess
  <2>. QED  BY <2>2, <2>3
<1>5. CASE SkipPrefix(p) \/ ReadKeysFails(p) \/ OpenTable(p)
  <2>1. bins' = bins /\ built' = built
    BY <1>5 DEF SkipPrefix, ReadKeysFails, OpenTable
  <2>2. \A n \in built[p] : Entries(n)' = Entries(n)
    BY <1>1
  <2>. QED  BY <1>2, <2>1, <2>2
<1>6. CASE WriteTable(p)
  <2>0. PICK n \in Nat : n = number[p]
    BY DEF TypeInv
  <2>1. /\ Len(bins[p]) \in Nat \ {0} /\ DOMAIN bins[p] = 1 .. Len(bins[p])
        /\ Head(bins[p]) = bins[p][1]
        /\ DOMAIN Tail(bins[p]) = 1 .. Len(bins[p]) - 1
        /\ \A b \in 1 .. Len(bins[p]) - 1 : Tail(bins[p])[b] = bins[p][b + 1]
        /\ bins' = [bins EXCEPT ![p] = Tail(bins[p])]
        /\ built' = [built EXCEPT ![p] = built[p] \cup {n}] /\ n \notin DOMAIN tables
    BY <1>6, <2>0, TableWritten
  <2>2. bins'[p] = Tail(bins[p]) /\ built'[p] = built[p] \cup {n}
    BY <2>1 DEF TypeInv
  <2>3. \A e \in Entries(n)' : \E r \in Elements(bins[p][1]) : e.key = r.key
    <3>1. Entries(number[p])' = Entries(n)'
      <4>1. number'[p] = n
        BY <1>6, <2>0 DEF WriteTable
      <4>. QED  BY <2>0, <4>1 DEF Entries
    <3>. QED  BY <1>6, <2>0, <2>1, <3>1, EntriesWritten
  <2>4. ASSUME NEW b \in DOMAIN Tail(bins[p])
        PROVE  /\ b + 1 \in DOMAIN bins[p] /\ 1 \in DOMAIN bins[p] /\ 1 < b + 1
               /\ Tail(bins[p])[b] = bins[p][b + 1]
    BY <2>1, <2>4
  <2>5. ASSUME NEW m \in built[p]
        PROVE  /\ AllLess(Entries(m)', Entries(n)')
               /\ \A b \in DOMAIN Tail(bins[p]) : AllLess(Entries(m)', Elements(Tail(bins[p])[b]))
    <3>1. Entries(m)' = Entries(m)
      BY <1>1, <2>5
    <3>2. AllLess(Entries(m), Elements(bins[p][1]))
      BY <1>2, <2>1, <2>5
    <3>3. AllLess(Entries(m)', Entries(n)')
      BY <2>3, <3>1, <3>2 DEF AllLess
    <3>4. \A b \in DOMAIN Tail(bins[p]) : AllLess(Entries(m)', Elements(Tail(bins[p])[b]))
      BY <1>2, <2>4, <2>5, <3>1
    <3>. QED  BY <3>3, <3>4
  <2>6. ASSUME NEW b \in DOMAIN Tail(bins[p])
        PROVE  AllLess(Entries(n)', Elements(Tail(bins[p])[b]))
    <3>1. AllLess(Elements(bins[p][1]), Elements(Tail(bins[p])[b]))
      BY <1>2, <2>4, <2>6
    <3>. QED  BY <2>3, <3>1 DEF AllLess
  <2>7. ASSUME NEW b \in DOMAIN Tail(bins[p]), NEW c \in DOMAIN Tail(bins[p]), b < c
        PROVE  AllLess(Elements(Tail(bins[p])[b]), Elements(Tail(bins[p])[c]))
    <3>1. b + 1 < c + 1
      BY <2>1, <2>7
    <3>. QED  BY <1>2, <2>4, <2>7, <3>1
  <2>8. \A l, m \in built[p] :
          l = m \/ AllLess(Entries(l)', Entries(m)') \/ AllLess(Entries(m)', Entries(l)')
    <3>1. \A m \in built[p] : Entries(m)' = Entries(m)
      BY <1>1
    <3>. QED  BY <1>2, <3>1
  <2>. QED  BY <2>2, <2>5, <2>6, <2>7, <2>8
<1>7. CASE WriteTableFails(p)
  <2>1. bins'[p] = <<>> /\ built'[p] = {}
    BY <1>7 DEF WriteTableFails, FailPrefix, TypeInv
  <2>. QED  BY <2>1, NoEntries
<1>. QED  BY <1>4, <1>5, <1>6, <1>7 DEF Build

\* What BuildTable reads when no file ends early.
LEMMA AllRead ==
  ASSUME TypeInv, LossInv, NEW p \in Prefixes, ReadKeys(p), NEW k \in Keys, Put(k), Prefix(k) = p
  PROVE  \E r \in KeysRead(p) : r.key = k
<1>1. phase = "build" /\ \A w \in Ids : ~ EndsEarly(w, p)
  BY DEF ReadKeys, Starts
<1>2. InFiles(k)
  BY <1>1 DEF LossInv
<1>3. PICK w \in Ids : \E i \in DOMAIN keyFile[w] : keyFile[w][i].key = k
  BY <1>2 DEF InFiles
<1>4. PICK i \in DOMAIN keyFile[w] : keyFile[w][i].key = k
  BY <1>3
<1>5. i \in Found(w, p)
  BY <1>4 DEF Found
<1>6. i \in ReadFrom(w, p)
  <2>1. CASE Exact(w, p)
    <3>. DEFINE S == {j \in Found(w, p) : j <= i}
    <3>1. IsFiniteSet(Found(w, p)) /\ Cardinality(Found(w, p)) \in Nat
      BY FileEntries
    <3>2. S \subseteq Found(w, p)
      OBVIOUS
    <3>. HIDE DEF S
    <3>3. Cardinality(S) <= Cardinality(Found(w, p)) /\ Cardinality(S) \in Nat
      BY <3>1, <3>2, FS_Subset, FS_CardinalityType
    <3>4. Cardinality(Found(w, p)) <= numPrefix[w][p] /\ numPrefix[w][p] \in Nat
      BY <1>1, <2>1 DEF LossInv, TypeInv
    <3>5. Cardinality(S) <= numPrefix[w][p]
      BY <3>1, <3>3, <3>4
    <3>. QED  BY <1>5, <2>1, <3>5 DEF S, ReadFrom
  <2>2. CASE ~ Exact(w, p)
    BY <1>5, <2>2 DEF ReadFrom
  <2>. QED  BY <2>1, <2>2
<1>7. KeyAt(w, i) \in KeysRead(p) /\ KeyAt(w, i).key = k
  BY <1>4, <1>6, KeysReadAre DEF KeyAt
<1>. QED  BY <1>7

\* No key is left out.
LEMMA NextCover ==
  ASSUME TypeInv, FileInv, LossInv, StageInv, SourceInv, CoverInv, NEW p \in Prefixes, Build(p)
  PROVE  CoverInv'
<1>. SUFFICES ASSUME ok', NEW k \in Keys, Put(k)', stage'[Prefix(k)] # "todo"
              PROVE  InTables(k)' \/ InBins(k)'
  BY DEF CoverInv, Prefix
<1>0. Put(k) /\ Prefix(k) \in Prefixes
  BY BuildFrame, Constants DEF Put, putVars
<1>1. /\ \A q \in Prefixes : q # p =>
           bins'[q] = bins[q] /\ built'[q] = built[q] /\ stage'[q] = stage[q]
      /\ \A m \in DOMAIN tables : Entries(m)' = Entries(m)
      /\ \A q \in Prefixes : built[q] \subseteq DOMAIN tables
  BY OtherPrefixes
<1>2. ASSUME ok, stage[Prefix(k)] # "todo" PROVE InTables(k) \/ InBins(k)
  BY <1>0, <1>2 DEF CoverInv
<1>3. InTables(k) /\ built[Prefix(k)] \subseteq built'[Prefix(k)] => InTables(k)'
  BY <1>0, <1>1 DEF InTables, Prefix
<1>4. ok
  BY DEF Build, ReadKeys, SkipPrefix, ReadKeysFails, OpenTable, WriteTable, WriteTableFails,
         FailPrefix
<1>5. CASE Prefix(k) # p
  <2>1. /\ bins'[Prefix(k)] = bins[Prefix(k)] /\ built'[Prefix(k)] = built[Prefix(k)]
        /\ stage'[Prefix(k)] = stage[Prefix(k)]
    BY <1>0, <1>1, <1>5
  <2>2. InBins(k) => InBins(k)'
    BY <2>1 DEF InBins, Elements, Prefix
  <2>. QED  BY <1>2, <1>3, <1>4, <2>1, <2>2
<1>6. CASE Prefix(k) = p /\ ReadKeys(p)
  <2>1. PICK s : /\ s \in Seq(FileKey) /\ bins' = [bins EXCEPT ![p] = Bins(s)]
                 /\ Elements(s) = KeysRead(p)
    BY <1>6, ReadEffect
  <2>2. PICK r \in KeysRead(p) : r.key = k
    BY <1>0, <1>6, AllRead
  <2>3. PICK b \in DOMAIN Bins(s) : r \in Elements(Bins(s)[b])
    BY <2>1, <2>2, BinsProperties
  <2>4. bins'[Prefix(k)] = Bins(s)
    BY <1>6, <2>1 DEF TypeInv
  <2>5. InBins(k)'
    BY <2>2, <2>3, <2>4 DEF InBins, Elements, Prefix
  <2>. QED  BY <2>5
<1>7. CASE Prefix(k) = p /\ OpenTable(p)
  <2>1. stage[Prefix(k)] # "todo" /\ bins' = bins /\ built' = built
    BY <1>7 DEF OpenTable
  <2>2. InBins(k) => InBins(k)'
    BY <2>1 DEF InBins, Elements, Prefix
  <2>. QED  BY <1>2, <1>3, <1>4, <2>1, <2>2
<1>8. CASE Prefix(k) = p /\ WriteTable(p)
  <2>0. PICK n \in Nat : n = number[p]
    BY DEF TypeInv
  <2>1. /\ Len(bins[p]) \in Nat \ {0} /\ DOMAIN bins[p] = 1 .. Len(bins[p])
        /\ Head(bins[p]) = bins[p][1] /\ stage[p] = "writing"
        /\ DOMAIN Tail(bins[p]) = 1 .. Len(bins[p]) - 1
        /\ \A b \in 1 .. Len(bins[p]) - 1 : Tail(bins[p])[b] = bins[p][b + 1]
        /\ bins' = [bins EXCEPT ![p] = Tail(bins[p])]
        /\ built' = [built EXCEPT ![p] = built[p] \cup {n}]
    BY <1>8, <2>0, TableWritten
  <2>2. bins'[p] = Tail(bins[p]) /\ built'[p] = built[p] \cup {n}
    BY <2>1 DEF TypeInv
  <2>3. InTables(k) \/ InBins(k)
    BY <1>2, <1>4, <1>8, <2>1
  <2>4. CASE InTables(k)
    BY <1>3, <1>8, <2>2, <2>4
  <2>5. CASE InBins(k)
    <3>1. PICK b \in DOMAIN bins[p] : \E r \in Elements(bins[p][b]) : r.key = k
      BY <1>8, <2>5 DEF InBins
    <3>2. CASE b = 1
      <4>1. \A r \in Elements(bins[p][1]) : \E e \in Entries(n)' : e.key = r.key
        <5>1. Entries(number[p])' = Entries(n)'
          <6>1. number'[p] = n
            BY <1>8, <2>0 DEF WriteTable
          <6>. QED  BY <2>0, <6>1 DEF Entries
        <5>. QED  BY <1>8, <2>0, <2>1, <5>1, EntriesWritten
      <4>2. \E e \in Entries(n)' : e.key = k
        BY <3>1, <3>2, <4>1
      <4>3. n \in built'[Prefix(k)]
        BY <1>8, <2>2
      <4>4. InTables(k)'
        BY <4>2, <4>3 DEF InTables, Prefix
      <4>. QED  BY <4>4
    <3>3. CASE b # 1
      <4>1. b - 1 \in DOMAIN Tail(bins[p]) /\ Tail(bins[p])[b - 1] = bins[p][b]
        BY <2>1, <3>1, <3>3
      <4>2. b - 1 \in DOMAIN bins'[Prefix(k)] /\ bins'[Prefix(k)][b - 1] = bins[p][b]
        BY <1>8, <2>2, <4>1
      <4>3. InBins(k)'
        BY <3>1, <4>2 DEF InBins, Elements, Prefix
      <4>. QED  BY <4>3
    <3>. QED  BY <3>2, <3>3
  <2>. QED  BY <2>3, <2>4, <2>5
<1>9. ~ SkipPrefix(p) /\ ~ ReadKeysFails(p) /\ ~ WriteTableFails(p)
  BY <1>4 DEF SkipPrefix, ReadKeysFails, WriteTableFails, FailPrefix
<1>. QED  BY <1>5, <1>6, <1>7, <1>8, <1>9 DEF Build

-----------------------------------------------------------------------------
\* What the manifest says.
LEMMA NextCommit == ASSUME TypeInv, GateInv, StageInv, CommitInv, [Next]_vars PROVE CommitInv'
<1>1. ASSUME NEW p \in Prefixes, Build(p) PROVE CommitInv'
  <2>1. phase = "build" /\ phase' \in {"build", "crashed"} /\ manifest' = manifest
    BY <1>1, BuildFrame
  <2>. QED  BY <2>1 DEF CommitInv
<1>2. ASSUME UNCHANGED buildVars, manifest' = manifest, phase = "open",
             phase' \notin {"manifest", "committed"}
      PROVE  CommitInv'
  BY <1>2 DEF CommitInv
<1>3. ASSUME NEW t \in Putters, Get(t) PROVE CommitInv'
  BY <1>2, <1>3 DEF Get
<1>4. ASSUME NEW t \in Putters, NEW k \in Keys, PutWritten(t, k) PROVE CommitInv'
  BY <1>2, <1>4 DEF PutWritten, Called
<1>5. ASSUME NEW t \in Putters, NEW k \in Keys, PutFails(t, k) \/ PutDropped(t, k) PROVE CommitInv'
  BY <1>2, <1>5 DEF PutFails, PutDropped, Called
<1>6. ASSUME CloseWriters \/ Abandon PROVE CommitInv'
  BY <1>2, <1>6 DEF CloseWriters, Abandon
<1>7. ASSUME Commits PROVE CommitInv'
  <2>1. UNCHANGED <<sequence, ok, stage, built>>
    BY <1>7, CommitsFrame DEF writerVars, buildVars
  <2>2. Result' = Result
    BY <2>1 DEF Result
  <2>3. CASE BuildFails
    BY <2>2, <2>3 DEF BuildFails, CommitInv
  <2>4. CASE WriteManifest
    BY <2>1, <2>2, <2>4 DEF WriteManifest, BuildersReturned, CommitInv
  <2>5. CASE WriteCurrent
    BY <2>1, <2>2, <2>5 DEF WriteCurrent, CommitInv
  <2>6. CASE CommitFails
    BY <2>2, <2>6 DEF CommitFails, CommitInv
  <2>7. CASE UNCHANGED vars
    BY <2>1, <2>2, <2>7 DEF vars, CommitInv
  <2>. QED  BY <1>7, <2>3, <2>4, <2>5, <2>6, <2>7 DEF Commits
<1>. QED  BY <1>1, <1>3, <1>4, <1>5, <1>6, <1>7, StepKinds

\* A builder that fails gives up its tables, torn or not, and the flag with them.
LEMMA NextTorn == ASSUME TypeInv, GateInv, StageInv, TornInv, [Next]_vars PROVE TornInv'
<1>. USE DEF TypeInv, Result
<1>1. ASSUME NEW p \in Prefixes, WriteTable(p) PROVE TornInv'
  <2>1. /\ \A q \in Prefixes : built[q] \subseteq built'[q]
        /\ number[p] \in built'[p] /\ ok' = ok
        /\ DOMAIN tables' = DOMAIN tables \cup {number[p]}
    BY <1>1 DEF WriteTable
  <2>2. torn' = torn \/ ("table" \in Faults /\ torn' = torn \cup {number[p]})
    BY <1>1 DEF WriteTable
  <2>3. Result \subseteq Result' /\ number[p] \in Result'
    BY <2>1
  <2>. HIDE DEF Result
  <2>. QED  BY <2>1, <2>2, <2>3 DEF TornInv
<1>2. ASSUME NEW p \in Prefixes, Build(p), ~ WriteTable(p) PROVE TornInv'
  <2>1. /\ UNCHANGED <<tables, torn>>
        /\ ok' => UNCHANGED <<ok, built>>
    BY <1>2 DEF Build, ReadKeys, SkipPrefix, ReadKeysFails, OpenTable, WriteTableFails, FailPrefix
  <2>. QED  BY <2>1 DEF TornInv
<1>3. ASSUME \A p \in Prefixes : ~ Build(p) PROVE TornInv'
  <2>1. UNCHANGED <<tables, torn, built>> /\ (phase = "open" \/ UNCHANGED ok)
    BY <1>3, BuildersRest DEF buildVars
  <2>2. phase = "open" => ok
    BY DEF StageInv
  <2>. QED  BY <2>1, <2>2 DEF TornInv
<1>. QED  BY <1>1, <1>2, <1>3

LEMMA NextInv == IInv /\ [Next]_vars => IInv'
<1>. SUFFICES ASSUME IInv, [Next]_vars PROVE IInv'
  OBVIOUS
<1>0. /\ TypeInv /\ GateInv /\ FileInv /\ CountInv /\ LossInv /\ StageInv /\ SourceInv
      /\ OrderInv /\ CoverInv /\ TornInv /\ CommitInv
  BY DEF IInv
<1>1. TypeInv' /\ GateInv' /\ FileInv' /\ CountInv' /\ LossInv' /\ StageInv' /\ TornInv' /\ CommitInv'
  BY <1>0, NextTypes, NextGate, NextFile, NextCount, NextLoss, NextStage, NextTorn, NextCommit
<1>2. SourceInv' /\ OrderInv' /\ CoverInv'
  <2>1. ASSUME NEW p \in Prefixes, Build(p) PROVE SourceInv' /\ OrderInv' /\ CoverInv'
    BY <1>0, <2>1, NextSource, NextOrder, NextCover
  <2>. QED  BY <1>0, <2>1, RestKeeps
<1>. QED  BY <1>1, <1>2 DEF IInv

\* The inductive invariant holds in every state that puts, close and abandon reach.
THEOREM Invariance == SafeSpec => []IInv
<1>. QED  BY InitInv, NextInv, PTL DEF SafeSpec

-----------------------------------------------------------------------------
\* Tables of different prefixes are apart, and those of one prefix ascend.
THEOREM LevelOneDisjointHolds == SafeSpec => []LevelOneDisjoint
<1>1. IInv => LevelOneDisjoint
  <2>. SUFFICES ASSUME IInv, NEW m \in manifest.tables, NEW n \in manifest.tables, m # n
                PROVE  AllLess(Entries(m), Entries(n)) \/ AllLess(Entries(n), Entries(m))
    BY DEF LevelOneDisjoint, AllLess
  <2>1. PICK p \in Prefixes : m \in built[p]
    BY DEF IInv, CommitInv, Result
  <2>2. PICK q \in Prefixes : n \in built[q]
    BY DEF IInv, CommitInv, Result
  <2>3. CASE p = q
    BY <2>1, <2>2, <2>3 DEF IInv, OrderInv
  <2>4. CASE p # q
    <3>1. ASSUME NEW r \in Prefixes, NEW l \in built[r], NEW e \in Entries(l)
          PROVE  e.key \in Keys /\ Prefix(e.key) = r
      <4>1. tables[l] \in Seq(TableEntry)
        BY <3>1 DEF IInv, StageInv, TypeInv
      <4>2. PICK i \in DOMAIN tables[l] : e = tables[l][i]
        BY <3>1 DEF Entries
      <4>3. e \in TableEntry
        BY <4>1, <4>2, ElementOfSeq, LenProperties
      <4>. QED  BY <3>1, <4>3 DEF IInv, SourceInv, EntryFromFile, TableEntry
    <3>2. p < q \/ q < p
      BY <2>4, Constants
    <3>. QED  BY <2>1, <2>2, <3>1, <3>2, LessOrder DEF AllLess
  <2>. QED  BY <2>3, <2>4
<1>. QED  BY <1>1, Invariance, PTL

\* A table number is given to one builder, and no table is written with it twice.
THEOREM NoTableOverwrittenHolds == SafeSpec => NoTableOverwritten
<1>1. IInv /\ [Next]_vars =>
        [\A n \in DOMAIN tables : n \in DOMAIN tables' /\ tables'[n] = tables[n]]_vars
  <2>. SUFFICES ASSUME IInv, [Next]_vars, NEW n \in DOMAIN tables
                PROVE  n \in DOMAIN tables' /\ tables'[n] = tables[n]
    OBVIOUS
  <2>1. TypeInv /\ GateInv /\ StageInv /\ SourceInv
    BY DEF IInv
  <2>2. ASSUME NEW p \in Prefixes, WriteTable(p)
        PROVE  n \in DOMAIN tables' /\ tables'[n] = tables[n]
    BY <2>1, <2>2, TableWritten
  <2>3. ASSUME NEW p \in Prefixes, Build(p), ~ WriteTable(p) PROVE tables' = tables
    BY <2>3 DEF Build, ReadKeys, SkipPrefix, ReadKeysFails, OpenTable, WriteTableFails
  <2>4. ASSUME \A p \in Prefixes : ~ Build(p) PROVE tables' = tables
    BY <2>1, <2>4, BuildersRest DEF buildVars
  <2>. QED  BY <2>2, <2>3, <2>4
<1>. QED  BY <1>1, Invariance, PTL DEF SafeSpec, NoTableOverwritten

\* No step sets the flag again, or goes on with it cleared.
THEOREM FailureSticksHolds == SafeSpec => FailureSticks
<1>1. [Next]_vars =>
        [phase = "build" /\ ~ ok => ~ ok' /\ phase' \in {"build", "failed", "crashed"}]_vars
  <2>. SUFFICES ASSUME [Next]_vars, phase = "build", ~ ok
                PROVE  ~ ok' /\ phase' \in {"build", "failed", "crashed"}
    OBVIOUS
  <2>1. ASSUME NEW p \in Prefixes, Build(p)
        PROVE  ~ ok' /\ phase' \in {"build", "failed", "crashed"}
    <3>1. ~ ok'
      BY <2>1 DEF Build, ReadKeys, SkipPrefix, ReadKeysFails, OpenTable, WriteTable,
                  WriteTableFails, FailPrefix
    <3>. QED  BY <2>1, <3>1, BuildFrame
  <2>2. ASSUME Commits PROVE ~ ok' /\ phase' \in {"build", "failed", "crashed"}
    BY <2>2 DEF Commits, BuildFails, WriteManifest, WriteCurrent, CommitFails, vars
  <2>3. ~ (\E t \in Putters : Get(t)) /\ ~ CloseWriters /\ ~ Abandon
    BY DEF Get, CloseWriters, Abandon
  <2>4. ~ (\E t \in Putters, k \in Keys : PutWritten(t, k) \/ PutFails(t, k) \/ PutDropped(t, k))
    BY DEF PutWritten, PutFails, PutDropped, Called
  <2>. QED  BY <2>1, <2>2, <2>3, <2>4, StepKinds
<1>. QED  BY <1>1, PTL DEF SafeSpec, FailureSticks

-----------------------------------------------------------------------------
\* Until CURRENT is there, nothing can be read.
LEMMA NothingVisible == phase # "committed" => Content = Store!Nothing
<1>. SUFFICES ASSUME phase # "committed" PROVE Content = Store!Nothing
  OBVIOUS
<1>1. Listed = {}
  BY DEF Listed
<1>2. \A k : Readable(k) = {}
  BY <1>1 DEF Readable
<1>. QED  BY <1>2 DEF Content, Store!Nothing

\* The value of the newest of some entries.
Newest(S) == (CHOOSE e \in S : \A f \in S : f.sequence <= e.sequence).value

LEMMA ContentIs ==
  /\ Content = [k \in Keys |-> IF Readable(k) = {} THEN Missing ELSE Newest(Readable(k))]
  /\ Content' = [k \in Keys |-> IF Readable(k)' = {} THEN Missing ELSE Newest(Readable(k)')]
  BY DEF Content, Newest

\* The entries of a key in the tables of the result.
Stored(k) == {e \in UNION {Entries(n) : n \in Result} : e.key = k /\ e.sequence <= sequence}

\* Once every builder is done, a key that was put has entries, all with the
\* value put and all as new; no other key has any.
LEMMA StoredProperties ==
  ASSUME IInv, phase = "manifest", NEW k \in Keys
  PROVE  /\ Put(k) <=> Stored(k) # {}
         /\ \A e \in Stored(k) : e.value = contents[k]
         /\ \A e, f \in Stored(k) : f.sequence <= e.sequence
<1>0. TypeInv /\ FileInv /\ StageInv /\ SourceInv /\ CoverInv /\ CommitInv /\ sequence \in Nat
  BY DEF IInv, TypeInv
\* Where an entry comes from.
<1>1. ASSUME NEW n \in Result, NEW e \in Entries(n)
      PROVE  /\ e.key \in Keys /\ e.value = contents[e.key]
             /\ \E w \in Ids : \E i \in DOMAIN keyFile[w] :
                  /\ keyFile[w][i].key = e.key /\ keyFile[w][i].sequence = e.sequence
                  /\ e.sequence \in Nat /\ e.sequence < sequence /\ Put(e.key)
  <2>1. PICK p \in Prefixes : n \in built[p]
    BY <1>1 DEF Result
  <2>2. PICK w \in Ids : \E i \in DOMAIN keyFile[w] :
                  keyFile[w][i].key = e.key /\ keyFile[w][i].sequence = e.sequence
    BY <1>0, <1>1, <2>1 DEF SourceInv, EntryFromFile
  <2>3. PICK i \in DOMAIN keyFile[w] :
                  keyFile[w][i].key = e.key /\ keyFile[w][i].sequence = e.sequence
    BY <2>2
  <2>4. keyFile[w][i] \in KeyEntry
    BY <1>0, FileEntries
  <2>5. e.key \in Keys /\ e.sequence \in Nat /\ e.sequence < sequence /\ Put(e.key)
    BY <1>0, <2>3, <2>4 DEF FileInv, KeyEntry, Put
  <2>6. e.value = contents[e.key]
    BY <1>0, <1>1, <2>1 DEF SourceInv, EntryFromFile
  <2>. QED  BY <2>3, <2>5, <2>6
<1>2. ASSUME NEW e \in Stored(k)
      PROVE  e.value = contents[k] /\ Put(k)
  BY <1>1, <1>2 DEF Stored
<1>3. ASSUME NEW e \in Stored(k), NEW f \in Stored(k) PROVE f.sequence <= e.sequence
  <2>1. PICK v \in Ids : \E i \in DOMAIN keyFile[v] :
          keyFile[v][i].key = k /\ keyFile[v][i].sequence = e.sequence /\ e.sequence \in Nat
    BY <1>1, <1>3 DEF Stored
  <2>2. PICK w \in Ids : \E i \in DOMAIN keyFile[w] :
          keyFile[w][i].key = k /\ keyFile[w][i].sequence = f.sequence
    BY <1>1, <1>3 DEF Stored
  <2>3. PICK i \in DOMAIN keyFile[v] :
          keyFile[v][i].key = k /\ keyFile[v][i].sequence = e.sequence /\ e.sequence \in Nat
    BY <2>1
  <2>4. PICK j \in DOMAIN keyFile[w] :
          keyFile[w][j].key = k /\ keyFile[w][j].sequence = f.sequence
    BY <2>2
  <2>5. v = w /\ i = j
    BY <1>0, <2>3, <2>4 DEF FileInv
  <2>. QED  BY <2>3, <2>4, <2>5
<1>4. ASSUME Put(k) PROVE Stored(k) # {}
  <2>1. Prefix(k) \in Prefixes
    BY Constants
  <2>2. ok /\ stage[Prefix(k)] = "done"
    BY <1>0, <2>1 DEF CommitInv
  <2>3. DOMAIN bins[Prefix(k)] = {}
    BY <1>0, <2>1, <2>2, NoEntries DEF StageInv
  <2>4. InTables(k)
    BY <1>0, <1>4, <2>2, <2>3 DEF CoverInv, InBins
  <2>5. PICK n \in built[Prefix(k)] : \E e \in Entries(n) : e.key = k
    BY <2>4 DEF InTables
  <2>6. PICK e \in Entries(n) : e.key = k
    BY <2>5
  <2>7. n \in Result
    BY <2>1, <2>5 DEF Result
  <2>8. e.sequence \in Nat /\ e.sequence < sequence
    BY <1>1, <2>6, <2>7
  <2>9. e \in Stored(k)
    BY <1>0, <2>6, <2>7, <2>8 DEF Stored
  <2>. QED  BY <2>9
<1>. QED  BY <1>2, <1>3, <1>4

\* The entries of a key that can be read once there is CURRENT: those of a key
\* whose table was torn are in no other table, those of another key in no torn one.
Whole(k) == {e \in UNION {Entries(n) : n \in Result \ torn} : e.key = k /\ e.sequence <= sequence}

LEMMA WholeIs ==
  ASSUME IInv, phase = "manifest", NEW k \in Keys
  PROVE  Whole(k) = IF k \in LostKeys THEN {} ELSE Stored(k)
<1>1. CASE k \in LostKeys
  <2>. SUFFICES ASSUME NEW e \in Whole(k) PROVE FALSE
    BY <1>1
  <2>1. PICK m \in Result \ torn : e \in Entries(m) /\ e.key = k
    BY DEF Whole
  <2>2. PICK n \in torn : \E f \in Entries(n) : f.key = k
    BY <1>1 DEF LostKeys
  <2>3. PICK f \in Entries(n) : f.key = k
    BY <2>2
  <2>4. n \in Result
    BY DEF IInv, CommitInv, TornInv
  <2>5. PICK p \in Prefixes : m \in built[p]
    BY <2>1 DEF Result
  <2>6. PICK q \in Prefixes : n \in built[q]
    BY <2>4 DEF Result
  <2>7. Prefix(k) = p /\ Prefix(k) = q
    BY <2>1, <2>3, <2>5, <2>6 DEF IInv, SourceInv, EntryFromFile
  <2>8. AllLess(Entries(m), Entries(n)) \/ AllLess(Entries(n), Entries(m))
    BY <2>1, <2>5, <2>6, <2>7 DEF IInv, OrderInv
  <2>9. Less(k, k)
    BY <2>1, <2>3, <2>8 DEF AllLess
  <2>. QED  BY <2>9, LessOrder
<1>2. CASE k \notin LostKeys
  <2>1. ASSUME NEW n \in torn, NEW e \in Entries(n) PROVE e.key # k
    BY <1>2, <2>1 DEF LostKeys
  <2>. QED  BY <1>2, <2>1 DEF Whole, Stored
<1>. QED  BY <1>1, <1>2

\* What can be read of the values put: all but those in torn tables.
Kept == [k \in Keys |-> IF k \in LostKeys THEN Missing ELSE contents[k]]

\* With CURRENT, everything can be read that was put and not lost in a torn table.
LEMMA CommitVisible ==
  ASSUME IInv, WriteCurrent PROVE Content' = Kept
<1>1. /\ phase = "manifest" /\ phase' = "committed" /\ contents' = contents
      /\ UNCHANGED <<tables, torn, manifest>>
      /\ manifest.tables = Result /\ manifest.lastSequence = sequence
  BY DEF WriteCurrent, buildVars, putVars, IInv, CommitInv
<1>2. Listed' = Result /\ manifest'.lastSequence = sequence
  BY <1>1 DEF Listed
<1>3. \A n : Entries(n)' = Entries(n)
  BY <1>1 DEF Entries
<1>4. \A k : Readable(k)' = Whole(k)
  BY <1>1, <1>2, <1>3 DEF Readable, Whole
<1>5. ASSUME NEW k \in Keys
      PROVE  (IF Stored(k) = {} THEN Missing ELSE Newest(Stored(k))) = contents[k]
  <2>1. /\ Put(k) <=> Stored(k) # {}
        /\ \A e \in Stored(k) : e.value = contents[k]
        /\ \A e, f \in Stored(k) : f.sequence <= e.sequence
    BY <1>1, StoredProperties
  <2>2. CASE Stored(k) = {}
    BY <2>1, <2>2 DEF Put
  <2>3. CASE Stored(k) # {}
    <3>. DEFINE e == CHOOSE e \in Stored(k) : \A f \in Stored(k) : f.sequence <= e.sequence
    <3>1. e \in Stored(k)
      BY <2>1, <2>3
    <3>. HIDE DEF e
    <3>2. e.value = contents[k]
      BY <2>1, <3>1
    <3>. QED  BY <2>3, <3>2 DEF e, Newest
  <2>. QED  BY <2>2, <2>3
<1>6. Content' = [k \in Keys |-> IF Whole(k) = {} THEN Missing ELSE Newest(Whole(k))]
  BY <1>4, ContentIs
<1>7. ASSUME NEW k \in Keys
      PROVE  (IF Whole(k) = {} THEN Missing ELSE Newest(Whole(k)))
               = IF k \in LostKeys THEN Missing ELSE contents[k]
  BY <1>1, <1>5, WholeIs
<1>. QED  BY <1>6, <1>7 DEF Kept

\* A step that leaves the tables alone loses nothing.
LEMMA LostSame == ASSUME UNCHANGED <<tables, torn>> PROVE LostKeys' = LostKeys
<1>1. \A n : Entries(n)' = Entries(n)
  BY DEF Entries
<1>. QED  BY <1>1 DEF LostKeys

LEMMA InitStore == Init => Store!Init
<1>. SUFFICES ASSUME Init PROVE Store!Init
  OBVIOUS
<1>1. phase = "open" /\ contents = Store!Nothing /\ LostKeys = {}
  BY DEF Init, Store!Nothing, LostKeys
<1>. QED  BY <1>1, NothingVisible DEF Store!Init

\* The phases in which the database is still to be committed.
Undecided == phase \in {"open", "build", "manifest"}

\* A step that leaves what was put alone, and decides nothing or for failure, shows
\* nothing; it fails, or is none of the store.
LEMMA ContentSame ==
  ASSUME Undecided, phase' # "committed" PROVE Content' = Content
<1>1. Content' = Content
  <2>1. phase # "committed"
    BY DEF Undecided
  <2>2. Content = Store!Nothing
    BY <2>1, NothingVisible
  <2>3. phase' # "committed" => Content' = Store!Nothing
    <3>1. phase' # "committed" => Listed' = {}
      BY DEF Listed
    <3>2. phase' # "committed" => \A k : Readable(k)' = {}
      BY <3>1 DEF Readable
    <3>. QED  BY <3>2 DEF Content, Store!Nothing
  <2>. QED  BY <2>2, <2>3
<1>. QED  BY <1>1

LEMMA StoreFails ==
  ASSUME contents' = contents, LostKeys' = LostKeys, Undecided, phase' # "committed"
  PROVE  Store!Fail \/ UNCHANGED Store!storeVars
  BY ContentSame DEF Undecided, Store!Fail, Store!storeVars

\* Every step of the database is one of the store, or changes nothing there.
LEMMA StepStore ==
  ASSUME IInv, [Next]_vars PROVE [Store!Next]_(Store!storeVars)
<1>. SUFFICES Store!Next \/ UNCHANGED Store!storeVars
  OBVIOUS
<1>1. ASSUME NEW k \in Keys, contents' = [contents EXCEPT ![k] = calls], calls \in Calls,
             phase = "open", phase' = "open", LostKeys' = LostKeys
      PROVE  Store!Next
  <2>1. Content' = Content
    <3>1. Listed = {} /\ Listed' = {}
      BY <1>1 DEF Listed
    <3>2. \A l : Readable(l) = {} /\ Readable(l)' = {}
      BY <3>1 DEF Readable
    <3>. QED  BY <3>2 DEF Content
  <2>2. Store!Put(k, calls)
    BY <1>1, <2>1 DEF Store!Put
  <2>. QED  BY <1>1, <2>2 DEF Store!Next
<1>2. ASSUME NEW t \in Putters, Get(t) PROVE Store!Next \/ UNCHANGED Store!storeVars
  <2>1. contents' = contents /\ Undecided /\ phase' # "committed" /\ LostKeys' = LostKeys
    BY <1>2, LostSame DEF Get, putVars, buildVars, Undecided
  <2>. QED  BY <2>1, StoreFails DEF Store!Next
<1>3. ASSUME NEW t \in Putters, NEW k \in Keys,
             PutWritten(t, k) \/ PutFails(t, k) \/ PutDropped(t, k)
      PROVE  Store!Next
  <2>1. Called(k) /\ phase' = phase /\ LostKeys' = LostKeys
    BY <1>3, LostSame DEF PutWritten, PutFails, PutDropped, buildVars
  <2>2. calls \in Calls
    BY <2>1, BoundsAssumption DEF Called, Calls, IInv, TypeInv
  <2>. QED  BY <1>1, <2>1, <2>2 DEF Called
<1>4. ASSUME CloseWriters \/ Abandon PROVE Store!Next \/ UNCHANGED Store!storeVars
  <2>1. contents' = contents /\ Undecided /\ phase' # "committed" /\ LostKeys' = LostKeys
    BY <1>4, LostSame DEF CloseWriters, Abandon, putVars, buildVars, Undecided
  <2>. QED  BY <2>1, StoreFails DEF Store!Next
<1>5. ASSUME NEW p \in Prefixes, Build(p) PROVE Store!Next \/ UNCHANGED Store!storeVars
  <2>1. contents' = contents /\ Undecided /\ phase' # "committed" /\ phase = "build"
    BY <1>5, BuildFrame DEF putVars, Undecided
  <2>2. CASE WriteTable(p)
    <3>1. /\ torn \subseteq torn' /\ torn \subseteq DOMAIN tables /\ phase' = phase
          /\ \A m \in DOMAIN tables : tables'[m] = tables[m]
      BY <2>2, TableWritten DEF WriteTable, IInv, TornInv
    <3>2. \A m \in torn : Entries(m)' = Entries(m)
      BY <3>1 DEF Entries
    <3>3. LostKeys \subseteq LostKeys' /\ LostKeys' \in SUBSET Keys
      BY <3>1, <3>2 DEF LostKeys
    <3>4. Store!Lose(LostKeys')
      BY <2>1, <3>1, <3>3, ContentSame DEF Store!Lose
    <3>. QED  BY <3>3, <3>4 DEF Store!Next
  <2>3. CASE ~ WriteTable(p)
    <3>1. UNCHANGED <<tables, torn>>
      BY <1>5, <2>3 DEF Build, ReadKeys, SkipPrefix, ReadKeysFails, OpenTable, WriteTableFails
    <3>. QED  BY <2>1, <3>1, LostSame, StoreFails DEF Store!Next
  <2>. QED  BY <2>2, <2>3
<1>6. ASSUME BuildFails \/ WriteManifest \/ CommitFails
      PROVE  Store!Next \/ UNCHANGED Store!storeVars
  <2>1. contents' = contents /\ Undecided /\ phase' # "committed" /\ LostKeys' = LostKeys
    BY <1>6, LostSame DEF BuildFails, WriteManifest, CommitFails, BuildersReturned, putVars,
                         buildVars, Undecided
  <2>. QED  BY <2>1, StoreFails DEF Store!Next
<1>7. ASSUME WriteCurrent PROVE Store!Next
  <2>1. /\ phase = "manifest" /\ phase' = "committed" /\ contents' = contents
        /\ LostKeys' = LostKeys
    BY <1>7, LostSame DEF WriteCurrent, putVars, buildVars
  <2>2. Store!Commit
    BY <1>7, <2>1, CommitVisible DEF Store!Commit, Kept
  <2>. QED  BY <2>2 DEF Store!Next
<1>8. ASSUME UNCHANGED vars PROVE UNCHANGED Store!storeVars
  <2>1. UNCHANGED <<phase, tables, torn, manifest, contents>> /\ LostKeys' = LostKeys
    BY <1>8, LostSame DEF vars, buildVars, putVars
  <2>2. \A n : Entries(n)' = Entries(n)
    BY <2>1 DEF Entries
  <2>3. Listed' = Listed
    BY <2>1 DEF Listed
  <2>4. \A k : Readable(k)' = Readable(k)
    BY <2>1, <2>2, <2>3 DEF Readable
  <2>5. Content' = Content
    BY <2>4, ContentIs
  <2>. QED  BY <2>1, <2>5 DEF Store!storeVars
<1>. QED  BY <1>2, <1>3, <1>4, <1>5, <1>6, <1>7, <1>8, StepKinds DEF Commits

\* Writers, builders and the commit together implement the store.
THEOREM StoreRefined == SafeSpec => ImplementsStore
<1>1. IInv /\ [Next]_vars => [Store!Next]_(Store!storeVars)
  BY StepStore
<1>. QED  BY <1>1, InitStore, Invariance, PTL DEF SafeSpec, ImplementsStore, Store!Spec

\* A committed database shows what was put and not torn.
CommittedInv == phase = "committed" => Content = Kept

LEMMA NextCommitted == IInv /\ CommittedInv /\ [Next]_vars => CommittedInv'
<1>. SUFFICES ASSUME IInv, CommittedInv, [Next]_vars, phase' = "committed"
              PROVE  Content' = Kept'
  BY DEF CommittedInv
<1>1. CASE WriteCurrent
  <2>1. contents' = contents /\ LostKeys' = LostKeys
    BY <1>1, LostSame DEF WriteCurrent, putVars, buildVars
  <2>. QED  BY <1>1, <2>1, CommitVisible DEF Kept
<1>2. CASE UNCHANGED vars
  <2>1. UNCHANGED <<phase, tables, torn, manifest, contents>> /\ LostKeys' = LostKeys
    BY <1>2, LostSame DEF vars, buildVars, putVars
  <2>2. \A n : Entries(n)' = Entries(n)
    BY <2>1 DEF Entries
  <2>3. \A k : Readable(k)' = Readable(k)
    BY <2>1, <2>2 DEF Readable, Listed
  <2>4. Content' = Content
    BY <2>3, ContentIs
  <2>. QED  BY <2>1, <2>4 DEF CommittedInv, Kept
<1>3. ASSUME NEW t \in Putters, Get(t) PROVE FALSE
  BY <1>3 DEF Get
<1>4. ASSUME NEW t \in Putters, NEW k \in Keys,
             PutWritten(t, k) \/ PutFails(t, k) \/ PutDropped(t, k)
      PROVE  FALSE
  BY <1>4 DEF PutWritten, PutFails, PutDropped, Called
<1>5. ~ CloseWriters /\ ~ Abandon /\ ~ BuildFails /\ ~ WriteManifest /\ ~ CommitFails
  BY DEF CloseWriters, Abandon, BuildFails, WriteManifest, CommitFails
<1>6. ASSUME NEW p \in Prefixes, Build(p) PROVE FALSE
  BY <1>6, BuildFrame
<1>. QED  BY <1>1, <1>2, <1>3, <1>4, <1>5, <1>6, StepKinds DEF Commits

\* As long as no write to a table file fails, close() answers true only when every
\* value put by every thread can be read (_concurrent-db.hpp:567, 748-751).
THEOREM CommitIsCompleteHolds ==
  ASSUME "table" \notin Faults PROVE SafeSpec => []CommitIsComplete
<1>1. Init => CommittedInv
  BY DEF Init, CommittedInv
<1>2. IInv /\ CommittedInv => CommitIsComplete
  <2>. SUFFICES ASSUME IInv, CommittedInv, phase = "committed" PROVE Content = contents
    BY DEF CommitIsComplete
  <2>1. LostKeys = {}
    BY DEF IInv, TornInv, LostKeys
  <2>2. contents = [k \in Keys |-> contents[k]]
    BY DEF IInv, TypeInv
  <2>. QED  BY <2>1, <2>2 DEF CommittedInv, Kept
<1>. QED  BY <1>1, <1>2, NextCommitted, Invariance, PTL DEF SafeSpec
=============================================================================
