------------------------ MODULE TobeConverter_proofs ------------------------
(***************************************************************************)
(* Proofs about TobeConverter for every world: any dimensions, regions,    *)
(* chunks and actors.  The inductive invariant IInv has one part per idea: *)
(*   TypeInv      the types;                                               *)
(*   OnceInv      no key was put twice;                                    *)
(*   PhaseInv     no region is converted before or behind the Reduce;      *)
(*   ChunkInv     the chunks put are those a region has behind it;         *)
(*   SumInv       what is behind it is in its sum, then in the dimension's;*)
(*   FileInv      an entity file is about a dimension's own chunks;        *)
(*   LeftInv      what is to be put has not been put, and comes only once; *)
(*   ActorInv     the actors put belong to dimensions that are drained;    *)
(*   DigpInv      a digp lists the actors put, and none is put behind it;  *)
(*   DrainInv     a drained dimension is in the level data and its actors  *)
(*                are put or still to be put, unless something failed;     *)
(*   CommitInv    the database is open until Run returns, and what then    *)
(*                becomes visible.                                         *)
(***************************************************************************)
EXTENDS TobeConverter, TLAPS

AllFiles == Chunks \X Chunks

WorldData == [chunks : SUBSET Chunks, files : SUBSET AllFiles]

\* Chunk c belongs to dimension d.
InDim(c, d) ==
  \E r \in Regions : DimOf[r] = d /\ \E i \in DOMAIN ChunksOf[r] : ChunksOf[r][i] = c

TypeInv ==
  /\ phase \in {"prepare", "convert", "drain", "entities", "level", "close", "returned"}
  /\ ok \in BOOLEAN /\ abort \in BOOLEAN /\ entitiesOk \in BOOLEAN /\ levelDat \in BOOLEAN
  /\ pc \in [Regions -> {"todo", "check", "convert", "report", "merged", "dropped"}]
  /\ at \in [Regions -> Nat]
  /\ \A r \in Regions : at[r] \in 1 .. Len(ChunksOf[r]) + 1
  /\ \A r \in Regions : pc[r] \in {"convert", "report"} => at[r] \in DOMAIN ChunksOf[r]
  /\ sum \in [Regions -> WorldData]
  /\ data \in [Dims -> WorldData]
  /\ dimsLeft \subseteq Dims /\ dim \in Dims \cup {0}
  /\ left \in [Chunks -> SUBSET Actors]
  /\ digp \in [Chunks -> SUBSET Actors]
  /\ putting \subseteq Chunks /\ level \subseteq Chunks
  /\ status \in {"running", "ok", "error"}
  /\ state \in {"open", "committed", "failed"}
  /\ contents \in [DbKeys -> DbValues \cup {Missing}]
  /\ visible \in [DbKeys -> DbValues \cup {Missing}]
  /\ twice \subseteq DbKeys
  /\ lost \subseteq Chunks /\ threw \subseteq Chunks

OnceInv == twice = {}

Stored(k) == contents[k] # Missing
Late == phase \notin {"prepare", "convert"}

PhaseInv ==
  /\ phase = "prepare" => \A r \in Regions : pc[r] = "todo"
  /\ Late => \A r \in Regions : pc[r] \in {"todo", "merged", "dropped"}
  /\ \A r \in Regions : pc[r] = "merged" => at[r] \notin DOMAIN ChunksOf[r]
  /\ Stored(<<"player", 0>>) => phase # "prepare"
  /\ Stored(<<"level", 0>>) => phase \in {"close", "returned"}

ChunkInv ==
  \A r \in Regions : \A i \in DOMAIN ChunksOf[r] :
    Stored(<<"chunk", ChunksOf[r][i]>>) =>
      i < at[r] \/ (i = at[r] /\ pc[r] \in {"report", "dropped"})

\* The conversion of the i-th chunk of a region is behind the region.
Behind(r, i) == i < at[r] \/ (i = at[r] /\ pc[r] = "report")

SumInv ==
  /\ \A r \in Regions : \A i \in DOMAIN ChunksOf[r] :
       Behind(r, i) /\ ChunksOf[r][i] \notin Absent \cup lost =>
         /\ Stored(<<"chunk", ChunksOf[r][i]>>)
         /\ ChunksOf[r][i] \in sum[r].chunks
         /\ FilesOf(ChunksOf[r][i]) \subseteq sum[r].files
  /\ \A r \in Regions : pc[r] = "merged" =>
       /\ sum[r].chunks \subseteq data[DimOf[r]].chunks
       /\ sum[r].files \subseteq data[DimOf[r]].files

\* A file of dimension d is that of an actor held there.
FileOfDim(f, d) == \E a \in Actors : f = <<HeldBy[a], StandsIn[a]>> /\ InDim(HeldBy[a], d)

FileInv ==
  /\ \A r \in Regions : \A f \in sum[r].files : FileOfDim(f, DimOf[r])
  /\ \A d \in Dims : \A f \in data[d].files : FileOfDim(f, d)

\* No dimension of a chunk is still to be drained.
Past(c) == \A d \in dimsLeft : ~ InDim(c, d)

LeftInv ==
  phase = "entities" =>
    /\ \A c \in Chunks : \A a \in left[c] :
         StandsIn[a] = c /\ ~ Stored(<<"actor", a>>) /\ Past(HeldBy[a])
    /\ \A c \in putting : ~ Stored(<<"digp", c>>) /\ Past(c)

ActorInv ==
  /\ \A a \in Actors : Stored(<<"actor", a>>) => Late /\ Past(HeldBy[a])
  /\ \A c \in Chunks : Stored(<<"digp", c>>) => Late /\ Past(c)

\* Nothing has failed since the Reduce.
Good ==
  \/ phase = "drain"
  \/ phase = "entities" /\ entitiesOk
  \/ phase \in {"level", "close", "returned"} /\ ok

Pending(c) == phase = "entities" /\ c \in putting

DigpInv ==
  /\ \A c \in Chunks : digp[c] = {a \in Actors : StandsIn[a] = c /\ Stored(<<"actor", a>>)}
  /\ \A c \in Chunks : Stored(<<"digp", c>>) => contents[<<"digp", c>>] = digp[c]
  /\ Good => \A c \in Chunks : digp[c] # {} => Stored(<<"digp", c>>) \/ Pending(c)

\* An actor is put, or it is still going to be.
ActorPut(a) ==
  Stored(<<"actor", a>>) \/ (Pending(StandsIn[a]) /\ a \in left[StandsIn[a]])

DrainInv ==
  /\ ~ Late => dimsLeft = {}
  /\ phase \in {"prepare", "convert", "drain"} => putting = {}
  /\ phase \in {"level", "close", "returned"} /\ ok => dimsLeft = {}
  /\ Late => \A r \in Regions : pc[r] = "merged" =>
       DimOf[r] \in dimsLeft \/ data[DimOf[r]].chunks \subseteq level
  /\ Good => \A r \in Regions : pc[r] = "merged" =>
       \/ DimOf[r] \in dimsLeft
       \/ \A a \in Actors :
            <<HeldBy[a], StandsIn[a]>> \in data[DimOf[r]].files => ActorPut(a)

CommitInv ==
  /\ phase # "returned" => state = "open" /\ status = "running" /\ visible = Db!Nothing
  /\ phase = "close" /\ ok => levelDat /\ contents[<<"level", 0>>] = level
  /\ phase = "returned" =>
       \/ /\ status = "ok" /\ state = "committed" /\ ok /\ visible = contents
          /\ levelDat /\ contents[<<"level", 0>>] = level
       \/ status = "error" /\ state = "failed" /\ visible = Db!Nothing

IInv ==
  /\ TypeInv
  /\ OnceInv
  /\ PhaseInv
  /\ ChunkInv
  /\ SumInv
  /\ FileInv
  /\ LeftInv
  /\ ActorInv
  /\ DigpInv
  /\ DrainInv
  /\ CommitInv

-----------------------------------------------------------------------------
\* The keys and values the converter puts.
LEMMA KeysAndValues ==
  /\ \A c \in Chunks : <<"chunk", c>> \in DbKeys /\ <<"digp", c>> \in DbKeys
  /\ \A a \in Actors : <<"actor", a>> \in DbKeys
  /\ <<"player", 0>> \in DbKeys /\ <<"level", 0>> \in DbKeys
  /\ Chunks \subseteq DbValues /\ SUBSET Actors \subseteq DbValues
  /\ SUBSET Chunks \subseteq DbValues
  /\ \A v \in DbValues : v # Missing
  BY MissingAssumption DEF DbKeys, DbValues

\* Putting a key stores it, and no other.
LEMMA PutEffect ==
  ASSUME TypeInv, NEW k \in DbKeys, NEW v \in DbValues, PutKey(k, v)
  PROVE  /\ contents' = [contents EXCEPT ![k] = v]
         /\ contents' \in [DbKeys -> DbValues \cup {Missing}]
         /\ \A j \in DbKeys : Stored(j)' <=> Stored(j) \/ j = k
         /\ \A j \in DbKeys : j # k => contents'[j] = contents[j]
         /\ contents'[k] = v
         /\ twice' \subseteq DbKeys
         /\ ~ Stored(k) => twice' = twice
         /\ UNCHANGED <<visible, state>>
<1>1. contents' = [contents EXCEPT ![k] = v] /\ UNCHANGED <<visible, state>>
  BY DEF PutKey, Db!Put
<1>2. v # Missing
  BY KeysAndValues
<1>3. contents' \in [DbKeys -> DbValues \cup {Missing}]
  BY <1>1 DEF TypeInv
<1>4. twice' \subseteq DbKeys /\ (~ Stored(k) => twice' = twice)
  BY DEF PutKey, TypeInv, Stored
<1>. QED  BY <1>1, <1>2, <1>3, <1>4 DEF TypeInv, Stored

\* A region's chunks are chunks.
LEMMA ChunksInRegions ==
  ASSUME NEW r \in Regions
  PROVE  /\ DOMAIN ChunksOf[r] = 1 .. Len(ChunksOf[r]) /\ Len(ChunksOf[r]) \in Nat
         /\ \A i \in DOMAIN ChunksOf[r] : ChunksOf[r][i] \in Chunks
         /\ DimOf[r] \in Dims
<1>1. ChunksOf[r] \in Seq(Chunks) /\ DimOf[r] \in Dims
  BY ShapeAssumption
<1>. QED  BY <1>1

\* Every chunk has one dimension.
LEMMA OneDimension ==
  /\ \A c \in Chunks : \E d \in Dims : InDim(c, d)
  /\ \A c, d, e : InDim(c, d) /\ InDim(c, e) => d = e
<1>1. ASSUME NEW c \in Chunks PROVE \E d \in Dims : InDim(c, d)
  <2>1. PICK r \in Regions : c \in {ChunksOf[r][i] : i \in DOMAIN ChunksOf[r]}
    BY DEF Chunks
  <2>. QED  BY <2>1, ChunksInRegions DEF InDim
<1>2. ASSUME NEW c, NEW d, NEW e, InDim(c, d), InDim(c, e) PROVE d = e
  BY <1>2, ChunksAssumption DEF InDim
<1>. QED  BY <1>1, <1>2

\* An actor stands in the dimension of the chunk that holds it.
LEMMA StandsInDimension ==
  ASSUME NEW a \in Actors, NEW d, InDim(HeldBy[a], d)
  PROVE  InDim(StandsIn[a], d)
<1>1. StandsIn[a] \in Chunks
  BY ShapeAssumption
<1>2. PICK e \in Dims : InDim(StandsIn[a], e)
  BY <1>1, OneDimension
<1>3. d = e
  BY <1>2, PlacesAssumption DEF InDim
<1>. QED  BY <1>2, <1>3

\* The files of a chunk are entity files.
LEMMA FilesOfChunk ==
  ASSUME NEW c \in Chunks PROVE FilesOf(c) \subseteq AllFiles
  BY ShapeAssumption DEF FilesOf, AllFiles

\* A WorldData drained into another is one.
LEMMA DrainType ==
  ASSUME NEW from \in WorldData, NEW to \in WorldData
  PROVE  /\ Drain(from, to) \in WorldData
         /\ Drain(from, to).chunks = to.chunks \cup from.chunks
         /\ Drain(from, to).files = to.files \cup from.files
  BY DEF Drain, WorldData

-----------------------------------------------------------------------------
\* What a step of a region does to the other variables: nothing.
LEMMA RegionFrame ==
  ASSUME NEW r \in Regions, ConvertRegion(r)
  PROVE  /\ UNCHANGED <<phase, ok, dimsLeft, dim, left, digp, putting, entitiesOk,
                        level, levelDat, status>>
         /\ \A s \in Regions \ {r} : TypeInv => pc'[s] = pc[s] /\ at'[s] = at[s] /\ sum'[s] = sum[s]
  BY DEF ConvertRegion, TakeRegion, TestAbort, ConvertChunk, SkipChunk, LoseChunk,
         ChunkThrows, ReportChunk, ReturnRegion, GotoR, TypeInv, entityVars

\* A region converts the chunk it is at: nothing is put, or that chunk.
Puts(r) ==
  /\ pc[r] = "convert"
  /\ PutKey(<<"chunk", ChunkAt(r)>>, ChunkAt(r))

LEMMA RegionPuts ==
  ASSUME NEW r \in Regions, ConvertRegion(r)
  PROVE  UNCHANGED dbVars \/ Puts(r)
  BY DEF ConvertRegion, TakeRegion, TestAbort, ConvertChunk, SkipChunk, LoseChunk,
         ChunkThrows, ReportChunk, ReturnRegion, Puts

\* The chunk a region is at.
LEMMA AtChunk ==
  ASSUME TypeInv, NEW r \in Regions, pc[r] \in {"convert", "report"}
  PROVE  at[r] \in DOMAIN ChunksOf[r] /\ ChunkAt(r) \in Chunks
  BY ChunksInRegions DEF TypeInv, ChunkAt

LEMMA PutsEffect ==
  ASSUME TypeInv, NEW r \in Regions, Puts(r)
  PROVE  /\ contents' \in [DbKeys -> DbValues \cup {Missing}]
         /\ \A j \in DbKeys : Stored(j)' <=> Stored(j) \/ j = <<"chunk", ChunkAt(r)>>
         /\ \A j \in DbKeys : j # <<"chunk", ChunkAt(r)>> => contents'[j] = contents[j]
         /\ twice' \subseteq DbKeys
         /\ ~ Stored(<<"chunk", ChunkAt(r)>>) => twice' = twice
         /\ UNCHANGED <<visible, state>>
<1>1. ChunkAt(r) \in Chunks
  BY AtChunk DEF Puts
<1>2. <<"chunk", ChunkAt(r)>> \in DbKeys /\ ChunkAt(r) \in DbValues
  BY <1>1, KeysAndValues
<1>. QED  BY <1>2, PutEffect DEF Puts

\* The initial states.
LEMMA InitInv == Init => IInv
<1>. SUFFICES ASSUME Init PROVE IInv
  OBVIOUS
<1>1. \A k \in DbKeys : contents[k] = Missing
  BY DEF Init, Db!Init, Db!Nothing
<1>2. TypeInv
  <2>1. \A r \in Regions : 1 \in 1 .. Len(ChunksOf[r]) + 1
    BY ChunksInRegions
  <2>2. NoData \in WorldData
    BY DEF NoData, WorldData
  <2>3. contents \in [DbKeys -> DbValues \cup {Missing}] /\ visible = contents
    BY DEF Init, Db!Init, Db!Nothing
  <2>. QED  BY <2>1, <2>2, <2>3 DEF Init, Db!Init, TypeInv
<1>3. OnceInv /\ PhaseInv /\ LeftInv
  BY <1>1, KeysAndValues DEF Init, OnceInv, PhaseInv, LeftInv, Late, Stored
<1>4. ChunkInv
  BY <1>1, KeysAndValues, ChunksInRegions DEF ChunkInv, Stored
<1>5. SumInv
  BY ChunksInRegions DEF Init, SumInv, Behind
<1>6. FileInv
  BY ShapeAssumption DEF Init, FileInv, NoData
<1>7. ActorInv
  BY <1>1, KeysAndValues DEF ActorInv, Stored
<1>8. DigpInv
  BY <1>1, KeysAndValues DEF Init, DigpInv, Stored, Good
<1>9. DrainInv
  BY DEF Init, DrainInv, Late, Good
<1>10. CommitInv
  BY DEF Init, Db!Init, CommitInv
<1>. QED  BY <1>2, <1>3, <1>4, <1>5, <1>6, <1>7, <1>8, <1>9, <1>10 DEF IInv

-----------------------------------------------------------------------------
\* A step of a region keeps the types.
LEMMA RegionTypes ==
  ASSUME TypeInv, NEW r \in Regions, ConvertRegion(r) PROVE TypeInv'
<1>0. /\ UNCHANGED <<phase, ok, dimsLeft, dim, left, digp, putting, entitiesOk, level,
                     levelDat, status>>
      /\ twice' \subseteq DbKeys
      /\ contents' \in [DbKeys -> DbValues \cup {Missing}] /\ UNCHANGED <<visible, state>>
  <2>1. CASE UNCHANGED dbVars
    BY <2>1, RegionFrame DEF dbVars, TypeInv
  <2>2. CASE Puts(r)
    BY <2>2, RegionFrame, PutsEffect
  <2>. QED  BY <2>1, <2>2, RegionPuts
<1>. DEFINE Inner ==
       /\ abort \in BOOLEAN
       /\ pc \in [Regions -> {"todo", "check", "convert", "report", "merged", "dropped"}]
       /\ at \in [Regions -> Nat]
       /\ \A s \in Regions : at[s] \in 1 .. Len(ChunksOf[s]) + 1
       /\ \A s \in Regions : pc[s] \in {"convert", "report"} => at[s] \in DOMAIN ChunksOf[s]
       /\ sum \in [Regions -> WorldData]
       /\ data \in [Dims -> WorldData]
       /\ lost \subseteq Chunks /\ threw \subseteq Chunks
<1>1. Inner
  BY DEF TypeInv
<1>2. SUFFICES Inner'
  BY <1>0 DEF TypeInv
<1>3. \A s \in Regions : DOMAIN ChunksOf[s] = 1 .. Len(ChunksOf[s]) /\ Len(ChunksOf[s]) \in Nat
  BY ChunksInRegions
<1>4. pc[r] = "convert" => ChunkAt(r) \in Chunks
  BY AtChunk
<1>5. ASSUME TakeRegion(r) PROVE Inner'
  BY <1>1, <1>5 DEF TakeRegion, GotoR
<1>6. ASSUME TestAbort(r) PROVE Inner'
  BY <1>1, <1>6 DEF TestAbort, GotoR
<1>7. ASSUME ConvertChunk(r) PROVE Inner'
  <2>. DEFINE chunk == [chunks |-> {ChunkAt(r)}, files |-> FilesOf(ChunkAt(r))]
  <2>1. chunk \in WorldData
    BY <1>4, <1>7, FilesOfChunk DEF WorldData, ConvertChunk
  <2>2. Drain(chunk, sum[r]) \in WorldData
    BY <1>1, <2>1, DrainType
  <2>3. sum' = [sum EXCEPT ![r] = Drain(chunk, sum[r])]
    BY <1>7 DEF ConvertChunk
  <2>. HIDE DEF chunk
  <2>4. sum' \in [Regions -> WorldData]
    BY <1>1, <2>2, <2>3
  <2>. QED  BY <1>1, <1>7, <2>4 DEF ConvertChunk, GotoR
<1>8. ASSUME SkipChunk(r) PROVE Inner'
  BY <1>1, <1>8 DEF SkipChunk, GotoR
<1>9. ASSUME LoseChunk(r) PROVE Inner'
  BY <1>1, <1>4, <1>9 DEF LoseChunk, GotoR
<1>10. ASSUME ChunkThrows(r) PROVE Inner'
  BY <1>1, <1>4, <1>10 DEF ChunkThrows, GotoR
<1>11. ASSUME ReportChunk(r) PROVE Inner'
  <2>1. at[r] \in DOMAIN ChunksOf[r]
    BY <1>1, <1>11 DEF ReportChunk
  <2>2. at' \in [Regions -> Nat] /\ \A s \in Regions : at'[s] \in 1 .. Len(ChunksOf[s]) + 1
    BY <1>1, <1>3, <1>11, <2>1 DEF ReportChunk
  <2>3. pc' = [pc EXCEPT ![r] = "check"] /\ \A s \in Regions : s # r => at'[s] = at[s]
    BY <1>1, <1>11 DEF ReportChunk, GotoR
  <2>. QED  BY <1>1, <1>11, <2>2, <2>3 DEF ReportChunk
<1>12. ASSUME ReturnRegion(r) PROVE Inner'
  <2>. DEFINE d == DimOf[r]
  <2>0. d \in Dims
    BY ChunksInRegions
  <2>1. Drain(sum[r], data[d]) \in WorldData
    BY <1>1, <2>0, DrainType
  <2>2. data' \in [Dims -> WorldData]
    BY <1>1, <1>12, <2>0, <2>1 DEF ReturnRegion, MergeInto
  <2>. QED  BY <1>1, <1>12, <2>2 DEF ReturnRegion, GotoR
<1>. QED  BY <1>5, <1>6, <1>7, <1>8, <1>9, <1>10, <1>11, <1>12 DEF ConvertRegion

\* The player and the level data are put only in their phases.
LEMMA PutPlayer ==
  ASSUME TypeInv, PutKey(<<"player", 0>>, {})
  PROVE  /\ contents' \in [DbKeys -> DbValues \cup {Missing}]
         /\ \A j \in DbKeys : Stored(j)' <=> Stored(j) \/ j = <<"player", 0>>
         /\ \A j \in DbKeys : j # <<"player", 0>> => contents'[j] = contents[j]
         /\ twice' \subseteq DbKeys
         /\ ~ Stored(<<"player", 0>>) => twice' = twice
         /\ UNCHANGED <<visible, state>>
<1>1. <<"player", 0>> \in DbKeys /\ {} \in DbValues
  BY KeysAndValues
<1>. QED  BY <1>1, PutEffect

LEMMA PutLevel ==
  ASSUME TypeInv, PutKey(<<"level", 0>>, level)
  PROVE  /\ contents' \in [DbKeys -> DbValues \cup {Missing}]
         /\ \A j \in DbKeys : Stored(j)' <=> Stored(j) \/ j = <<"level", 0>>
         /\ \A j \in DbKeys : j # <<"level", 0>> => contents'[j] = contents[j]
         /\ contents'[<<"level", 0>>] = level
         /\ twice' \subseteq DbKeys
         /\ ~ Stored(<<"level", 0>>) => twice' = twice
         /\ UNCHANGED <<visible, state>>
<1>1. <<"level", 0>> \in DbKeys /\ level \in DbValues
  BY KeysAndValues DEF TypeInv
<1>. QED  BY <1>1, PutEffect

\* An actor is put with the chunk that held it.
LEMMA PutActorEffect ==
  ASSUME TypeInv, NEW c \in Chunks, NEW a \in Actors, PutActor(c, a)
  PROVE  /\ contents' \in [DbKeys -> DbValues \cup {Missing}]
         /\ \A j \in DbKeys : Stored(j)' <=> Stored(j) \/ j = <<"actor", a>>
         /\ \A j \in DbKeys : j # <<"actor", a>> => contents'[j] = contents[j]
         /\ twice' \subseteq DbKeys
         /\ ~ Stored(<<"actor", a>>) => twice' = twice
         /\ UNCHANGED <<visible, state>>
<1>1. <<"actor", a>> \in DbKeys /\ HeldBy[a] \in DbValues
  BY ShapeAssumption, KeysAndValues
<1>. QED  BY <1>1, PutEffect DEF PutActor

\* A digp is put with the actors put before.
LEMMA PutDigpEffect ==
  ASSUME TypeInv, NEW c \in Chunks, PutDigp(c)
  PROVE  /\ contents' \in [DbKeys -> DbValues \cup {Missing}]
         /\ \A j \in DbKeys : Stored(j)' <=> Stored(j) \/ j = <<"digp", c>>
         /\ \A j \in DbKeys : j # <<"digp", c>> => contents'[j] = contents[j]
         /\ contents'[<<"digp", c>>] = digp[c]
         /\ twice' \subseteq DbKeys
         /\ ~ Stored(<<"digp", c>>) => twice' = twice
         /\ UNCHANGED <<visible, state>>
<1>1. <<"digp", c>> \in DbKeys /\ digp[c] \in DbValues
  BY KeysAndValues DEF TypeInv
<1>. QED  BY <1>1, PutEffect DEF PutDigp

\* WriteLevel puts the level data or nothing.
LEMMA WriteLevelEffect ==
  ASSUME TypeInv, WriteLevel
  PROVE  /\ phase = "level" /\ phase' = "close"
         /\ UNCHANGED <<convertVars, entityVars, status>>
         /\ UNCHANGED dbVars \/ PutKey(<<"level", 0>>, level)
         /\ levelDat' \in BOOLEAN /\ ok' \in BOOLEAN
         /\ ok' => ok /\ PutKey(<<"level", 0>>, level) /\ levelDat'
<1>1. phase = "level" /\ phase' = "close" /\ UNCHANGED <<convertVars, entityVars, status>>
  BY DEF WriteLevel
<1>2. CASE ok /\ levelDat' = TRUE /\ PutKey(<<"level", 0>>, level) /\ UNCHANGED ok
  BY <1>1, <1>2 DEF TypeInv
<1>3. CASE /\ ok' = FALSE
           /\ \/ levelDat' \in BOOLEAN /\ UNCHANGED dbVars
              \/ levelDat' = TRUE /\ PutKey(<<"level", 0>>, level)
  BY <1>1, <1>3
<1>4. CASE ~ ok /\ UNCHANGED <<ok, levelDat, dbVars>>
  BY <1>1, <1>4 DEF TypeInv
<1>. QED  BY <1>2, <1>3, <1>4 DEF WriteLevel

\* Every step keeps the types.
LEMMA NextTypes == ASSUME TypeInv, [Next]_vars PROVE TypeInv'
<1>. USE DEF convertVars, entityVars, dbVars
<1>1. ASSUME PrepareFails PROVE TypeInv'
  BY <1>1 DEF TypeInv, PrepareFails, Db!Fail
<1>2. ASSUME Prepare PROVE TypeInv'
  <2>1. contents' \in [DbKeys -> DbValues \cup {Missing}] /\ UNCHANGED <<visible, state>>
        /\ twice' \subseteq DbKeys
    <3>1. CASE UNCHANGED dbVars
      BY <3>1 DEF TypeInv
    <3>2. CASE PutKey(<<"player", 0>>, {})
      BY <3>2, PutPlayer
    <3>. QED  BY <1>2, <3>1, <3>2 DEF Prepare
  <2>2. ok' \in BOOLEAN
    BY <1>2 DEF Prepare
  <2>. QED  BY <1>2, <2>1, <2>2 DEF TypeInv, Prepare
<1>3. ASSUME NEW r \in Regions, ConvertRegion(r) PROVE TypeInv'
  BY <1>3, RegionTypes
<1>4. ASSUME ReduceReturns PROVE TypeInv'
  BY <1>4, ChunksInRegions DEF TypeInv, ReduceReturns
<1>5. ASSUME NEW d \in Dims, DrainDim(d) PROVE TypeInv'
  <2>1. data[d] \in WorldData
    BY DEF TypeInv
  <2>2. putting' \subseteq Chunks /\ level' \subseteq Chunks
    BY <1>5, <2>1 DEF DrainDim, TypeInv, WorldData, AllFiles
  <2>3. left' \in [Chunks -> SUBSET Actors]
    BY <1>5 DEF DrainDim, ActorsIn
  <2>. QED  BY <1>5, <2>2, <2>3 DEF TypeInv, DrainDim
<1>6. ASSUME NEW c \in Chunks, NEW a \in Actors, PutActor(c, a) PROVE TypeInv'
  <2>1. /\ contents' \in [DbKeys -> DbValues \cup {Missing}] /\ UNCHANGED <<visible, state>>
        /\ twice' \subseteq DbKeys
    BY <1>6, PutActorEffect
  <2>2. left' \in [Chunks -> SUBSET Actors] /\ digp' \in [Chunks -> SUBSET Actors]
    BY <1>6 DEF PutActor, TypeInv
  <2>. QED  BY <1>6, <2>1, <2>2 DEF TypeInv, PutActor
<1>7. ASSUME NEW c \in Chunks, PutDigp(c) PROVE TypeInv'
  <2>1. /\ contents' \in [DbKeys -> DbValues \cup {Missing}] /\ UNCHANGED <<visible, state>>
        /\ twice' \subseteq DbKeys
    BY <1>7, PutDigpEffect
  <2>. QED  BY <1>7, <2>1 DEF TypeInv, PutDigp
<1>8. ASSUME NEW c \in Chunks, PutEntitiesFails(c) PROVE TypeInv'
  BY <1>8 DEF TypeInv, PutEntitiesFails
<1>9. ASSUME EntitiesReturn PROVE TypeInv'
  BY <1>9 DEF TypeInv, EntitiesReturn
<1>10. ASSUME DimsDone PROVE TypeInv'
  BY <1>10 DEF TypeInv, DimsDone
<1>11. ASSUME WriteLevel PROVE TypeInv'
  <2>1. /\ contents' \in [DbKeys -> DbValues \cup {Missing}] /\ UNCHANGED <<visible, state>>
        /\ twice' \subseteq DbKeys
    BY <1>11, WriteLevelEffect, PutLevel DEF TypeInv
  <2>. QED  BY <1>11, <2>1, WriteLevelEffect DEF TypeInv
<1>12. ASSUME Close PROVE TypeInv'
  BY <1>12 DEF TypeInv, Close, Db!Commit, Db!Fail
<1>13. ASSUME AbandonDb PROVE TypeInv'
  BY <1>13 DEF TypeInv, AbandonDb, Db!Fail
<1>14. ASSUME UNCHANGED vars PROVE TypeInv'
  BY <1>14 DEF TypeInv, vars
<1>. QED  BY <1>1, <1>2, <1>3, <1>4, <1>5, <1>6, <1>7, <1>8, <1>9, <1>10, <1>11, <1>12,
            <1>13, <1>14 DEF Next, Terminated

-----------------------------------------------------------------------------
\* The steps outside the regions that leave the contents of the database alone.
Quiet ==
  \/ PrepareFails
  \/ ReduceReturns
  \/ \E d \in Dims : DrainDim(d)
  \/ \E c \in Chunks : PutEntitiesFails(c)
  \/ EntitiesReturn
  \/ DimsDone
  \/ Close
  \/ AbandonDb
  \/ UNCHANGED vars

LEMMA QuietEffect == ASSUME Quiet PROVE UNCHANGED <<contents, twice>>
  BY DEF Quiet, PrepareFails, ReduceReturns, DrainDim, PutEntitiesFails, EntitiesReturn,
         DimsDone, Close, AbandonDb, vars, dbVars, Db!Fail, Db!Commit

\* Every step is quiet, or puts something, or is one of a region.
LEMMA StepKinds ==
  ASSUME [Next]_vars
  PROVE  \/ Prepare
         \/ \E r \in Regions : ConvertRegion(r)
         \/ \E c \in Chunks, a \in Actors : PutActor(c, a)
         \/ \E c \in Chunks : PutDigp(c)
         \/ WriteLevel
         \/ Quiet
  BY DEF Next, Quiet, Terminated

\* No key is put twice.
LEMMA NextOnce ==
  ASSUME TypeInv, OnceInv, PhaseInv, ChunkInv, LeftInv, [Next]_vars PROVE OnceInv'
<1>1. ASSUME Prepare PROVE twice' = twice
  <2>1. ~ Stored(<<"player", 0>>)
    BY <1>1 DEF Prepare, PhaseInv
  <2>. QED  BY <1>1, <2>1, PutPlayer DEF Prepare, dbVars
<1>2. ASSUME NEW r \in Regions, ConvertRegion(r) PROVE twice' = twice
  <2>1. ASSUME Puts(r) PROVE ~ Stored(<<"chunk", ChunkAt(r)>>)
    <3>1. at[r] \in DOMAIN ChunksOf[r] /\ at[r] \in Nat /\ pc[r] = "convert"
      BY <2>1, AtChunk DEF Puts, TypeInv
    <3>. QED  BY <3>1 DEF ChunkInv, ChunkAt
  <2>. QED  BY <1>2, <2>1, RegionPuts, PutsEffect DEF dbVars
<1>3. ASSUME NEW c \in Chunks, NEW a \in Actors, PutActor(c, a) PROVE twice' = twice
  <2>1. ~ Stored(<<"actor", a>>)
    BY <1>3 DEF PutActor, LeftInv
  <2>. QED  BY <1>3, <2>1, PutActorEffect
<1>4. ASSUME NEW c \in Chunks, PutDigp(c) PROVE twice' = twice
  <2>1. ~ Stored(<<"digp", c>>)
    BY <1>4 DEF PutDigp, LeftInv
  <2>. QED  BY <1>4, <2>1, PutDigpEffect
<1>5. ASSUME WriteLevel PROVE twice' = twice
  <2>1. ~ Stored(<<"level", 0>>)
    BY <1>5, WriteLevelEffect DEF PhaseInv
  <2>. QED  BY <1>5, <2>1, WriteLevelEffect, PutLevel DEF dbVars
<1>. QED  BY <1>1, <1>2, <1>3, <1>4, <1>5, StepKinds, QuietEffect DEF OnceInv

\* The keys that a step may store.
LEMMA NewKeys ==
  ASSUME TypeInv, [Next]_vars, NEW k \in DbKeys
  PROVE  /\ Stored(k) => Stored(k)'
         /\ Stored(k)' /\ ~ Stored(k) =>
              \/ phase = "prepare" /\ phase' = "convert" /\ k = <<"player", 0>>
              \/ \E r \in Regions : ConvertRegion(r) /\ Puts(r) /\ k = <<"chunk", ChunkAt(r)>>
              \/ \E c \in Chunks, a \in Actors : PutActor(c, a) /\ k = <<"actor", a>>
              \/ \E c \in Chunks : PutDigp(c) /\ k = <<"digp", c>>
              \/ phase = "level" /\ phase' = "close" /\ k = <<"level", 0>>
<1>1. CASE Prepare
  BY <1>1, PutPlayer DEF Prepare, dbVars, Stored
<1>2. CASE \E r \in Regions : ConvertRegion(r)
  <2>1. PICK r \in Regions : ConvertRegion(r)
    BY <1>2
  <2>. QED  BY <2>1, RegionPuts, PutsEffect DEF dbVars, Stored
<1>3. CASE \E c \in Chunks, a \in Actors : PutActor(c, a)
  BY <1>3, PutActorEffect
<1>4. CASE \E c \in Chunks : PutDigp(c)
  BY <1>4, PutDigpEffect
<1>5. CASE WriteLevel
  BY <1>5, WriteLevelEffect, PutLevel DEF dbVars, Stored
<1>6. CASE Quiet
  BY <1>6, QuietEffect DEF Stored
<1>. QED  BY <1>1, <1>2, <1>3, <1>4, <1>5, <1>6, StepKinds

\* A region is converted during the Reduce.
LEMMA RegionPhase ==
  ASSUME PhaseInv, NEW r \in Regions, ConvertRegion(r)
  PROVE  ~ Late /\ phase = "convert" /\ phase' = phase
<1>1. phase' = phase
  BY DEF ConvertRegion, TakeRegion, TestAbort, ConvertChunk, SkipChunk, LoseChunk,
         ChunkThrows, ReportChunk, ReturnRegion
<1>2. pc[r] \notin {"merged", "dropped"} /\ (pc[r] = "todo" => phase = "convert")
  BY DEF ConvertRegion, TakeRegion, TestAbort, ConvertChunk, SkipChunk, LoseChunk,
         ChunkThrows, ReportChunk, ReturnRegion
<1>. QED  BY <1>1, <1>2 DEF PhaseInv, Late

\* Where the phases go, with what a region is at.
LEMMA NextPhase == ASSUME TypeInv, PhaseInv, [Next]_vars PROVE PhaseInv'
<1>1. ASSUME NEW r \in Regions, ConvertRegion(r)
      PROVE  /\ ~ Late /\ phase' = phase /\ phase # "prepare"
             /\ \A s \in Regions : pc'[s] = "merged" => at'[s] \notin DOMAIN ChunksOf[s]
  <2>1. /\ ~ Late /\ phase' = phase /\ phase # "prepare"
        /\ \A s \in Regions \ {r} : pc'[s] = pc[s] /\ at'[s] = at[s]
    BY <1>1, RegionFrame, RegionPhase
  <2>4. pc'[r] = "merged" => at'[r] \notin DOMAIN ChunksOf[r]
    BY <1>1 DEF ConvertRegion, TakeRegion, TestAbort, ConvertChunk, SkipChunk, LoseChunk,
                ChunkThrows, ReportChunk, ReturnRegion, GotoR, TypeInv
  <2>. QED  BY <2>1, <2>4 DEF PhaseInv
<1>2. ASSUME ReduceReturns
      PROVE  UNCHANGED <<pc, at>> /\ \A r \in Regions : pc[r] \in {"merged", "dropped"}
  BY <1>2 DEF ReduceReturns, convertVars
<1>3. ASSUME PrepareFails \/ Prepare
      PROVE  UNCHANGED <<pc, at>> /\ \A r \in Regions : pc[r] = "todo"
  BY <1>3 DEF PrepareFails, Prepare, convertVars, PhaseInv
<1>4. ASSUME \/ \E d \in Dims : DrainDim(d)
             \/ \E c \in Chunks, a \in Actors : PutActor(c, a)
             \/ \E c \in Chunks : PutDigp(c) \/ PutEntitiesFails(c)
             \/ EntitiesReturn \/ DimsDone \/ WriteLevel \/ Close \/ AbandonDb
      PROVE  UNCHANGED <<pc, at>> /\ Late /\ Late'
  BY <1>4 DEF DrainDim, PutActor, PutDigp, PutEntitiesFails, EntitiesReturn, DimsDone,
              WriteLevel, Close, AbandonDb, convertVars, Late, TypeInv
<1>5. ASSUME UNCHANGED vars PROVE UNCHANGED <<pc, at, phase>>
  BY <1>5 DEF vars, convertVars
<1>6. phase' = "prepare" => UNCHANGED <<pc, at, phase>>
  BY <1>1, <1>5 DEF Next, PrepareFails, Prepare, ReduceReturns, DrainDim, PutActor,
       PutDigp, PutEntitiesFails, EntitiesReturn, DimsDone, WriteLevel, Close, AbandonDb,
       Terminated, Late, TypeInv
<1>7. phase' = "prepare" => \A r \in Regions : pc'[r] = "todo"
  BY <1>6 DEF PhaseInv
<1>8. Late' => \A r \in Regions : pc'[r] \in {"todo", "merged", "dropped"}
  BY <1>1, <1>2, <1>3, <1>4, <1>5 DEF Next, Terminated, PhaseInv, Late
<1>9. \A r \in Regions : pc'[r] = "merged" => at'[r] \notin DOMAIN ChunksOf[r]
  BY <1>1, <1>2, <1>3, <1>4, <1>5 DEF Next, Terminated, PhaseInv
<1>10. Stored(<<"player", 0>>)' => phase' # "prepare"
  <2>1. phase' = "prepare" => phase = "prepare"
    BY <1>6
  <2>2. <<"player", 0>> \in DbKeys
    BY KeysAndValues
  <2>3. phase' = "prepare" => ~ \E r \in Regions : Puts(r)
    BY <2>1 DEF PhaseInv, Puts
  <2>. QED  BY <2>1, <2>2, <2>3, NewKeys DEF PhaseInv, PutActor, PutDigp
<1>11. Stored(<<"level", 0>>)' => phase' \in {"close", "returned"}
  <2>1. <<"level", 0>> \in DbKeys
    BY KeysAndValues
  <2>2. phase \in {"close", "returned"} => phase' \in {"close", "returned"}
    <3>1. ASSUME NEW r \in Regions, ConvertRegion(r) PROVE phase' = phase
      BY <3>1, RegionFrame
    <3>. QED  BY <3>1 DEF Next, PrepareFails, Prepare, ReduceReturns, DrainDim, PutActor,
                PutDigp, PutEntitiesFails, EntitiesReturn, DimsDone, WriteLevel, Close,
                AbandonDb, Terminated, vars
  <2>. QED  BY <2>1, <2>2, NewKeys DEF PhaseInv
<1>. QED  BY <1>7, <1>8, <1>9, <1>10, <1>11 DEF PhaseInv

\* Where a step takes its region.
LEMMA RegionMoves ==
  ASSUME TypeInv, NEW r \in Regions, ConvertRegion(r)
  PROVE  /\ pc[r] \notin {"merged", "dropped"}
         /\ pc[r] = "report" => pc'[r] = "check" /\ at'[r] = at[r] + 1
         /\ pc[r] # "report" => at'[r] = at[r]
         /\ pc[r] = "convert" <=> pc'[r] \in {"report", "dropped"} /\ pc[r] # "check"
         /\ pc[r] = "todo" => pc'[r] = "check"
         /\ pc[r] = "check" => pc'[r] \in {"convert", "dropped", "merged"}
<1>. USE DEF GotoR, TypeInv
<1>1. ASSUME TakeRegion(r) PROVE pc[r] = "todo" /\ pc'[r] = "check" /\ at' = at
  BY <1>1 DEF TakeRegion
<1>2. ASSUME TestAbort(r)
      PROVE  pc[r] = "check" /\ pc'[r] \in {"convert", "dropped"} /\ at' = at
  BY <1>2 DEF TestAbort
<1>3. ASSUME ConvertChunk(r) \/ SkipChunk(r) \/ LoseChunk(r) \/ ChunkThrows(r)
      PROVE  pc[r] = "convert" /\ pc'[r] \in {"report", "dropped"} /\ at' = at
  BY <1>3 DEF ConvertChunk, SkipChunk, LoseChunk, ChunkThrows
<1>4. ASSUME ReportChunk(r) PROVE pc[r] = "report" /\ pc'[r] = "check" /\ at'[r] = at[r] + 1
  BY <1>4 DEF ReportChunk
<1>5. ASSUME ReturnRegion(r) PROVE pc[r] = "check" /\ pc'[r] = "merged" /\ at' = at
  BY <1>5 DEF ReturnRegion
<1>. QED  BY <1>1, <1>2, <1>3, <1>4, <1>5 DEF ConvertRegion

\* The chunks put are behind the regions, or the one a region is at.
LEMMA NextChunk ==
  ASSUME TypeInv, ChunkInv, [Next]_vars PROVE ChunkInv'
<1>. SUFFICES ASSUME NEW r \in Regions, NEW i \in DOMAIN ChunksOf[r],
                     Stored(<<"chunk", ChunksOf[r][i]>>)'
              PROVE  (i < at[r] \/ (i = at[r] /\ pc[r] \in {"report", "dropped"}))'
  BY DEF ChunkInv
<1>0. i \in Nat /\ at[r] \in Nat /\ ChunksOf[r][i] \in Chunks
  BY ChunksInRegions DEF TypeInv
<1>1. <<"chunk", ChunksOf[r][i]>> \in DbKeys
  BY <1>0, KeysAndValues
<1>2. CASE Stored(<<"chunk", ChunksOf[r][i]>>)
  <2>1. i < at[r] \/ (i = at[r] /\ pc[r] \in {"report", "dropped"})
    BY <1>2 DEF ChunkInv
  <2>2. CASE UNCHANGED <<pc, at>>
    BY <2>1, <2>2
  <2>3. CASE \E s \in Regions : ConvertRegion(s)
    <3>1. PICK s \in Regions : ConvertRegion(s)
      BY <2>3
    <3>2. CASE s # r
      BY <2>1, <3>1, <3>2, RegionFrame
    <3>3. CASE s = r
      BY <1>0, <2>1, <3>1, <3>3, RegionMoves
    <3>. QED  BY <3>2, <3>3
  <2>. QED  BY <2>2, <2>3 DEF Next, PrepareFails, Prepare, ReduceReturns, DrainDim, PutActor,
                PutDigp, PutEntitiesFails, EntitiesReturn, DimsDone, WriteLevel, Close,
                AbandonDb, Terminated, vars, convertVars
<1>3. CASE ~ Stored(<<"chunk", ChunksOf[r][i]>>)
  <2>1. PICK s \in Regions : /\ ConvertRegion(s) /\ Puts(s)
                             /\ <<"chunk", ChunksOf[r][i]>> = <<"chunk", ChunkAt(s)>>
    BY <1>1, <1>3, NewKeys
  <2>2. at[s] \in DOMAIN ChunksOf[s] /\ pc[s] = "convert"
    BY <2>1, AtChunk DEF Puts
  <2>3. s = r /\ at[s] = i
    BY <2>1, <2>2, ChunksAssumption DEF ChunkAt
  <2>4. pc'[r] \in {"report", "dropped"} /\ at'[r] = i
    BY <2>1, <2>2, <2>3, RegionMoves
  <2>. QED  BY <2>4
<1>. QED  BY <1>2, <1>3

-----------------------------------------------------------------------------
\* What a step of a region does to the sums.
LEMMA RegionSums ==
  ASSUME TypeInv, NEW r \in Regions, ConvertRegion(r)
  PROVE  /\ sum[r].chunks \subseteq sum'[r].chunks /\ sum[r].files \subseteq sum'[r].files
         /\ \A d \in Dims : /\ data[d].chunks \subseteq data'[d].chunks
                            /\ data[d].files \subseteq data'[d].files
         /\ lost \subseteq lost'
         /\ pc[r] = "convert" /\ pc'[r] = "report" =>
              \/ ChunkAt(r) \in Absent \cup lost'
              \/ /\ Puts(r)
                 /\ ChunkAt(r) \in sum'[r].chunks
                 /\ FilesOf(ChunkAt(r)) \subseteq sum'[r].files
         /\ pc'[r] = "merged" =>
              /\ sum'[r].chunks \subseteq data'[DimOf[r]].chunks
              /\ sum'[r].files \subseteq data'[DimOf[r]].files
         /\ \A f \in sum'[r].files :
              f \in sum[r].files \/ (pc[r] = "convert" /\ f \in FilesOf(ChunkAt(r)))
         /\ \A d \in Dims : \A f \in data'[d].files :
              f \in data[d].files \/ (d = DimOf[r] /\ f \in sum[r].files)
<1>0. pc'[r] = "merged" => pc[r] = "check"
  BY RegionMoves DEF TypeInv
<1>1. CASE TakeRegion(r) \/ TestAbort(r) \/ SkipChunk(r) \/ LoseChunk(r) \/ ChunkThrows(r)
           \/ ReportChunk(r)
  <2>1. sum' = sum /\ data' = data /\ lost \subseteq lost'
    BY <1>1 DEF TakeRegion, TestAbort, SkipChunk, LoseChunk, ChunkThrows, ReportChunk
  <2>2. pc[r] = "convert" /\ pc'[r] = "report" => ChunkAt(r) \in Absent \cup lost'
    BY <1>1 DEF TakeRegion, TestAbort, SkipChunk, LoseChunk, ChunkThrows, ReportChunk,
                GotoR, TypeInv
  <2>3. pc'[r] # "merged"
    BY <1>1 DEF TakeRegion, TestAbort, SkipChunk, LoseChunk, ChunkThrows, ReportChunk,
                GotoR, TypeInv
  <2>. QED  BY <2>1, <2>2, <2>3
<1>2. CASE ConvertChunk(r)
  <2>. DEFINE chunk == [chunks |-> {ChunkAt(r)}, files |-> FilesOf(ChunkAt(r))]
              into == Drain(chunk, sum[r])
  <2>0. pc[r] = "convert" /\ Puts(r) /\ data' = data /\ lost' = lost /\ pc'[r] = "report"
    BY <1>2 DEF ConvertChunk, Puts, GotoR, TypeInv
  <2>1. chunk \in WorldData /\ sum[r] \in WorldData
    BY <2>0, AtChunk, FilesOfChunk DEF WorldData, TypeInv
  <2>2. chunk.chunks = {ChunkAt(r)} /\ chunk.files = FilesOf(ChunkAt(r))
    OBVIOUS
  <2>3. sum' = [sum EXCEPT ![r] = into]
    BY <1>2 DEF ConvertChunk
  <2>. HIDE DEF chunk
  <2>4. /\ into.chunks = sum[r].chunks \cup chunk.chunks
        /\ into.files = sum[r].files \cup chunk.files
    BY <2>1, DrainType
  <2>. HIDE DEF into
  <2>5. sum'[r] = into
    BY <2>3 DEF TypeInv
  <2>. QED  BY <2>0, <2>2, <2>4, <2>5
<1>3. CASE ReturnRegion(r)
  <2>. DEFINE into == Drain(sum[r], data[DimOf[r]])
  <2>0. sum' = sum /\ lost' = lost /\ pc[r] = "check" /\ pc'[r] = "merged"
    BY <1>3 DEF ReturnRegion, GotoR, TypeInv
  <2>1. DimOf[r] \in Dims
    BY ChunksInRegions
  <2>2. data' = [data EXCEPT ![DimOf[r]] = into]
    BY <1>3 DEF ReturnRegion, MergeInto
  <2>3. /\ into.chunks = data[DimOf[r]].chunks \cup sum[r].chunks
        /\ into.files = data[DimOf[r]].files \cup sum[r].files
    BY <2>1, DrainType DEF TypeInv
  <2>. HIDE DEF into
  <2>4. data'[DimOf[r]] = into /\ \A d \in Dims : d # DimOf[r] => data'[d] = data[d]
    BY <2>1, <2>2 DEF TypeInv
  <2>. QED  BY <2>0, <2>1, <2>3, <2>4
<1>. QED  BY <1>1, <1>2, <1>3 DEF ConvertRegion

\* The regions change in their own steps only.
LEMMA OutsideRegions ==
  ASSUME [Next]_vars PROVE UNCHANGED convertVars \/ \E r \in Regions : ConvertRegion(r)
  BY DEF Next, PrepareFails, Prepare, ReduceReturns, DrainDim, PutActor, PutDigp,
         PutEntitiesFails, EntitiesReturn, DimsDone, WriteLevel, Close, AbandonDb, Terminated,
         vars

\* What is behind a region is in its sum, and then in that of its dimension.
LEMMA NextSum ==
  ASSUME TypeInv, PhaseInv, SumInv, [Next]_vars PROVE SumInv'
<1>1. ASSUME NEW r \in Regions, NEW i \in DOMAIN ChunksOf[r],
             Behind(r, i)', ChunksOf[r][i] \notin Absent \cup lost'
      PROVE  /\ Stored(<<"chunk", ChunksOf[r][i]>>)'
             /\ ChunksOf[r][i] \in sum'[r].chunks
             /\ FilesOf(ChunksOf[r][i]) \subseteq sum'[r].files
  <2>. i \in Nat /\ at[r] \in Nat /\ ChunksOf[r][i] \in Chunks
    BY ChunksInRegions DEF TypeInv
  <2>0. i \in Nat /\ at[r] \in Nat /\ <<"chunk", ChunksOf[r][i]>> \in DbKeys
    BY KeysAndValues
  <2>1. ASSUME Behind(r, i), lost \subseteq lost', sum[r].chunks \subseteq sum'[r].chunks,
               sum[r].files \subseteq sum'[r].files
        PROVE  /\ Stored(<<"chunk", ChunksOf[r][i]>>)'
               /\ ChunksOf[r][i] \in sum'[r].chunks
               /\ FilesOf(ChunksOf[r][i]) \subseteq sum'[r].files
    <3>1. /\ Stored(<<"chunk", ChunksOf[r][i]>>)
          /\ ChunksOf[r][i] \in sum[r].chunks
          /\ FilesOf(ChunksOf[r][i]) \subseteq sum[r].files
      BY <1>1, <2>1 DEF SumInv
    <3>. QED  BY <2>0, <2>1, <3>1, NewKeys
  <2>2. CASE UNCHANGED convertVars
    BY <1>1, <2>1, <2>2 DEF convertVars, Behind
  <2>3. ASSUME NEW s \in Regions, ConvertRegion(s)
        PROVE  /\ Stored(<<"chunk", ChunksOf[r][i]>>)'
               /\ ChunksOf[r][i] \in sum'[r].chunks
               /\ FilesOf(ChunksOf[r][i]) \subseteq sum'[r].files
    <3>1. CASE s # r
      <4>1. pc'[r] = pc[r] /\ at'[r] = at[r] /\ sum'[r] = sum[r]
        BY <2>3, <3>1, RegionFrame
      <4>2. lost \subseteq lost'
        BY <2>3, RegionSums
      <4>. QED  BY <1>1, <2>1, <4>1, <4>2 DEF Behind
    <3>2. CASE s = r /\ Behind(r, i)
      BY <2>1, <2>3, <3>2, RegionSums
    <3>3. CASE s = r /\ ~ Behind(r, i)
      <4>1. i = at[r] /\ pc[r] = "convert" /\ pc'[r] = "report"
        BY <1>1, <2>0, <2>3, <3>3, RegionMoves DEF Behind
      <4>2. ChunkAt(r) = ChunksOf[r][i]
        BY <4>1 DEF ChunkAt
      <4>3. /\ Puts(r)
            /\ ChunkAt(r) \in sum'[r].chunks
            /\ FilesOf(ChunkAt(r)) \subseteq sum'[r].files
        BY <1>1, <2>3, <3>3, <4>1, <4>2, RegionSums
      <4>. QED  BY <2>0, <4>2, <4>3, PutsEffect
    <3>. QED  BY <3>1, <3>2, <3>3
  <2>. QED  BY <2>2, <2>3, OutsideRegions
<1>2. ASSUME NEW r \in Regions, pc'[r] = "merged"
      PROVE  /\ sum'[r].chunks \subseteq data'[DimOf[r]].chunks
             /\ sum'[r].files \subseteq data'[DimOf[r]].files
  <2>0. DimOf[r] \in Dims
    BY ChunksInRegions
  <2>1. CASE UNCHANGED convertVars
    BY <1>2, <2>1 DEF convertVars, SumInv
  <2>2. ASSUME NEW s \in Regions, ConvertRegion(s), s # r
        PROVE  /\ sum'[r].chunks \subseteq data'[DimOf[r]].chunks
               /\ sum'[r].files \subseteq data'[DimOf[r]].files
    <3>1. pc[r] = "merged" /\ sum'[r] = sum[r]
      BY <1>2, <2>2, RegionFrame
    <3>. QED  BY <2>0, <2>2, <3>1, RegionSums DEF SumInv
  <2>3. CASE ConvertRegion(r)
    BY <1>2, <2>3, RegionSums
  <2>. QED  BY <2>1, <2>2, <2>3, OutsideRegions
<1>. QED  BY <1>1, <1>2 DEF SumInv

\* Entity files are about the chunks of their dimension.
LEMMA NextFiles ==
  ASSUME TypeInv, FileInv, [Next]_vars PROVE FileInv'
<1>1. CASE UNCHANGED convertVars
  BY <1>1 DEF FileInv, convertVars
<1>2. ASSUME NEW s \in Regions, ConvertRegion(s) PROVE FileInv'
  <2>1. ASSUME pc[s] = "convert", NEW f \in FilesOf(ChunkAt(s)) PROVE FileOfDim(f, DimOf[s])
    <3>1. InDim(ChunkAt(s), DimOf[s])
      BY <2>1, AtChunk DEF InDim, ChunkAt
    <3>. QED  BY <2>1, <3>1 DEF FilesOf, FileOfDim
  <2>2. ASSUME NEW r \in Regions, NEW f \in sum'[r].files PROVE FileOfDim(f, DimOf[r])
    <3>1. CASE r = s
      BY <1>2, <2>1, <2>2, <3>1, RegionSums DEF FileInv
    <3>2. CASE r # s
      BY <1>2, <2>2, <3>2, RegionFrame DEF FileInv
    <3>. QED  BY <3>1, <3>2
  <2>3. ASSUME NEW d \in Dims, NEW f \in data'[d].files PROVE FileOfDim(f, d)
    BY <1>2, <2>3, RegionSums DEF FileInv
  <2>. QED  BY <2>2, <2>3 DEF FileInv
<1>. QED  BY <1>1, <1>2, OutsideRegions

-----------------------------------------------------------------------------
\* The steps behind the Reduce, which leave the regions alone.
LEMMA LateSteps ==
  ASSUME TypeInv, PhaseInv, [Next]_vars, Late
  PROVE  Late' /\ dimsLeft' \subseteq dimsLeft /\ UNCHANGED convertVars
<1>1. \A r \in Regions : ~ ConvertRegion(r)
  BY RegionPhase
<1>2. UNCHANGED convertVars
  BY <1>1, OutsideRegions
<1>3. Late' /\ dimsLeft' \subseteq dimsLeft
  BY <1>1 DEF Next, PrepareFails, Prepare, ReduceReturns, DrainDim, PutActor, PutDigp,
         PutEntitiesFails, EntitiesReturn, DimsDone, WriteLevel, Close, AbandonDb,
         Terminated, vars, entityVars, Late
<1>. QED  BY <1>2, <1>3

\* How PutWorldEntities goes on.
LEMMA EntitySteps ==
  ASSUME PhaseInv, [Next]_vars, phase' = "entities"
  PROVE  \/ \E d \in Dims : DrainDim(d)
         \/ \E c \in Chunks, a \in Actors : PutActor(c, a)
         \/ \E c \in Chunks : PutDigp(c)
         \/ \E c \in Chunks : PutEntitiesFails(c)
         \/ UNCHANGED vars
<1>1. \A r \in Regions : ~ ConvertRegion(r)
  BY RegionPhase
<1>. QED
  BY <1>1 DEF Next, PrepareFails, Prepare, ReduceReturns, EntitiesReturn, DimsDone,
              WriteLevel, Close, AbandonDb, Terminated

\* The entities a dimension is drained for stand in its chunks and belong to them.
LEMMA DrainEffect ==
  ASSUME TypeInv, FileInv, NEW d \in Dims, DrainDim(d)
  PROVE  /\ \A c \in Chunks : \A a \in left'[c] :
              a \in Actors /\ StandsIn[a] = c /\ InDim(HeldBy[a], d)
         /\ \A c \in putting' : c \in Chunks /\ InDim(c, d)
         /\ \A a \in Actors : <<HeldBy[a], StandsIn[a]>> \in data[d].files =>
              StandsIn[a] \in putting' /\ a \in left'[StandsIn[a]]
<1>0. \A a \in Actors : StandsIn[a] \in Chunks
  BY ShapeAssumption
<1>1. left' = [c \in Chunks |->
                 UNION {ActorsIn(f) : f \in {g \in data[d].files : g[2] = c}}]
  BY DEF DrainDim
<1>2. putting' = {f[2] : f \in data[d].files}
  BY DEF DrainDim
<1>3. ASSUME NEW c \in Chunks, NEW a \in left'[c]
      PROVE  a \in Actors /\ StandsIn[a] = c /\ InDim(HeldBy[a], d)
  <2>1. PICK f \in data[d].files : f[2] = c /\ a \in ActorsIn(f)
    BY <1>1, <1>3
  <2>2. a \in Actors /\ HeldBy[a] = f[1] /\ StandsIn[a] = f[2]
    BY <2>1 DEF ActorsIn
  <2>3. PICK b \in Actors : f = <<HeldBy[b], StandsIn[b]>> /\ InDim(HeldBy[b], d)
    BY <2>1 DEF FileInv, FileOfDim
  <2>. QED  BY <2>1, <2>2, <2>3
<1>4. ASSUME NEW c \in putting' PROVE c \in Chunks /\ InDim(c, d)
  <2>1. PICK f \in data[d].files : f[2] = c
    BY <1>2, <1>4
  <2>2. PICK b \in Actors : f = <<HeldBy[b], StandsIn[b]>> /\ InDim(HeldBy[b], d)
    BY <2>1 DEF FileInv, FileOfDim
  <2>. QED  BY <1>0, <2>1, <2>2, StandsInDimension
<1>5. ASSUME NEW a \in Actors, <<HeldBy[a], StandsIn[a]>> \in data[d].files
      PROVE  StandsIn[a] \in putting' /\ a \in left'[StandsIn[a]]
  <2>. DEFINE f == <<HeldBy[a], StandsIn[a]>>
  <2>1. f \in data[d].files /\ f[1] = HeldBy[a] /\ f[2] = StandsIn[a]
    BY <1>5
  <2>. HIDE DEF f
  <2>2. a \in ActorsIn(f)
    BY <2>1 DEF ActorsIn
  <2>3. StandsIn[a] \in putting'
    BY <1>2, <2>1
  <2>4. ActorsIn(f) \in {ActorsIn(h) : h \in {g \in data[d].files : g[2] = StandsIn[a]}}
    BY <2>1
  <2>5. left'[StandsIn[a]] =
          UNION {ActorsIn(h) : h \in {g \in data[d].files : g[2] = StandsIn[a]}}
    BY <1>0, <1>1
  <2>. QED  BY <2>2, <2>3, <2>4, <2>5
<1>. QED  BY <1>3, <1>4, <1>5

\* Nothing about a dimension that is still to be drained is stored.
LEMMA FreshDim ==
  ASSUME ActorInv, NEW d \in dimsLeft
  PROVE  /\ \A a \in Actors : InDim(HeldBy[a], d) => ~ Stored(<<"actor", a>>)
         /\ \A c \in Chunks : InDim(c, d) => ~ Stored(<<"digp", c>>)
  BY DEF ActorInv, Past

\* What is to be put has not been put.
LEMMA NextLeft ==
  ASSUME TypeInv, PhaseInv, FileInv, ActorInv, LeftInv, [Next]_vars PROVE LeftInv'
<1>. SUFFICES ASSUME phase' = "entities" PROVE LeftInv'
  BY DEF LeftInv
<1>1. ASSUME NEW d \in Dims, DrainDim(d) PROVE LeftInv'
  <2>0. d \in dimsLeft /\ dimsLeft' = dimsLeft \ {d} /\ contents' = contents
    BY <1>1 DEF DrainDim, dbVars
  <2>1. \A c : InDim(c, d) => Past(c)'
    BY <2>0, OneDimension DEF Past
  <2>2. ASSUME NEW c \in Chunks, NEW a \in left'[c]
        PROVE  StandsIn[a] = c /\ ~ Stored(<<"actor", a>>)' /\ Past(HeldBy[a])'
    BY <1>1, <2>0, <2>1, <2>2, DrainEffect, FreshDim DEF Stored
  <2>3. ASSUME NEW c \in putting' PROVE ~ Stored(<<"digp", c>>)' /\ Past(c)'
    BY <1>1, <2>0, <2>1, <2>3, DrainEffect, FreshDim DEF Stored
  <2>. QED  BY <2>2, <2>3 DEF LeftInv
<1>2. ASSUME NEW c \in Chunks, NEW a \in Actors, PutActor(c, a) PROVE LeftInv'
  <2>0. /\ phase = "entities" /\ a \in left[c]
        /\ dimsLeft' = dimsLeft /\ putting' = putting
        /\ left' = [left EXCEPT ![c] = left[c] \ {a}]
    BY <1>2 DEF PutActor
  <2>1. ASSUME NEW e \in Chunks, NEW b \in left'[e]
        PROVE  StandsIn[b] = e /\ ~ Stored(<<"actor", b>>)' /\ Past(HeldBy[b])'
    <3>1. b \in left[e] /\ b \in Actors /\ (e = c => b # a)
      BY <2>0, <2>1 DEF TypeInv
    <3>2. StandsIn[b] = e /\ ~ Stored(<<"actor", b>>) /\ Past(HeldBy[b]) /\ StandsIn[a] = c
      BY <2>0, <3>1 DEF LeftInv
    <3>3. b # a
      BY <3>1, <3>2
    <3>4. <<"actor", b>> \in DbKeys
      BY <3>1, KeysAndValues
    <3>. QED  BY <1>2, <2>0, <3>2, <3>3, <3>4, PutActorEffect DEF Past
  <2>2. ASSUME NEW e \in putting' PROVE ~ Stored(<<"digp", e>>)' /\ Past(e)'
    <3>1. ~ Stored(<<"digp", e>>) /\ Past(e) /\ <<"digp", e>> \in DbKeys
      BY <2>0, <2>2, KeysAndValues DEF LeftInv, TypeInv
    <3>. QED  BY <1>2, <2>0, <3>1, PutActorEffect DEF Past
  <2>. QED  BY <2>1, <2>2 DEF LeftInv
<1>3. ASSUME NEW c \in Chunks, PutDigp(c) PROVE LeftInv'
  <2>0. /\ phase = "entities"
        /\ dimsLeft' = dimsLeft /\ putting' = putting \ {c} /\ left' = left
    BY <1>3 DEF PutDigp
  <2>1. ASSUME NEW e \in Chunks, NEW b \in left'[e]
        PROVE  StandsIn[b] = e /\ ~ Stored(<<"actor", b>>)' /\ Past(HeldBy[b])'
    <3>1. b \in Actors /\ StandsIn[b] = e /\ ~ Stored(<<"actor", b>>) /\ Past(HeldBy[b])
      BY <2>0, <2>1 DEF LeftInv, TypeInv
    <3>. QED  BY <1>3, <2>0, <3>1, PutDigpEffect, KeysAndValues DEF Past
  <2>2. ASSUME NEW e \in putting' PROVE ~ Stored(<<"digp", e>>)' /\ Past(e)'
    <3>1. e # c /\ ~ Stored(<<"digp", e>>) /\ Past(e) /\ <<"digp", e>> \in DbKeys
      BY <2>0, <2>2, KeysAndValues DEF LeftInv, TypeInv
    <3>. QED  BY <1>3, <2>0, <3>1, PutDigpEffect DEF Past
  <2>. QED  BY <2>1, <2>2 DEF LeftInv
<1>4. ASSUME NEW c \in Chunks, PutEntitiesFails(c) PROVE LeftInv'
  BY <1>4 DEF LeftInv, PutEntitiesFails, dbVars, Stored, Past
<1>5. ASSUME UNCHANGED vars PROVE LeftInv'
  BY <1>5 DEF LeftInv, vars, entityVars, dbVars, Stored, Past
<1>. QED  BY <1>1, <1>2, <1>3, <1>4, <1>5, EntitySteps

\* What is put belongs to dimensions that are drained.
LEMMA NextActor ==
  ASSUME TypeInv, PhaseInv, ActorInv, LeftInv, [Next]_vars PROVE ActorInv'
<1>1. \A c : Late /\ Past(c) => Late' /\ Past(c)'
  BY LateSteps DEF Past
<1>2. ASSUME NEW a \in Actors, Stored(<<"actor", a>>)' PROVE Late' /\ Past(HeldBy[a])'
  <2>1. CASE Stored(<<"actor", a>>)
    BY <1>1, <2>1 DEF ActorInv
  <2>2. CASE ~ Stored(<<"actor", a>>)
    <3>1. <<"actor", a>> \in DbKeys
      BY KeysAndValues
    <3>2. PICK c \in Chunks : PutActor(c, a)
      BY <1>2, <2>2, <3>1, NewKeys
    <3>3. phase = "entities" /\ Past(HeldBy[a])
      BY <3>2 DEF PutActor, LeftInv
    <3>. QED  BY <1>1, <3>3 DEF Late
  <2>. QED  BY <2>1, <2>2
<1>3. ASSUME NEW c \in Chunks, Stored(<<"digp", c>>)' PROVE Late' /\ Past(c)'
  <2>1. CASE Stored(<<"digp", c>>)
    BY <1>1, <2>1 DEF ActorInv
  <2>2. CASE ~ Stored(<<"digp", c>>)
    <3>1. <<"digp", c>> \in DbKeys
      BY KeysAndValues
    <3>2. PutDigp(c)
      BY <1>3, <2>2, <3>1, NewKeys
    <3>3. phase = "entities" /\ Past(c)
      BY <3>2 DEF PutDigp, LeftInv
    <3>. QED  BY <1>1, <3>3 DEF Late
  <2>. QED  BY <2>1, <2>2
<1>. QED  BY <1>2, <1>3 DEF ActorInv

-----------------------------------------------------------------------------
\* What has failed stays failed.
LEMMA GoodSteps ==
  ASSUME TypeInv, PhaseInv, [Next]_vars, Good'
  PROVE  Good \/ ~ Late
<1>1. ASSUME \/ PrepareFails \/ Prepare \/ ReduceReturns \/ \E r \in Regions : ConvertRegion(r)
      PROVE  ~ Late
  BY <1>1, RegionPhase DEF PrepareFails, Prepare, ReduceReturns, Late
<1>2. ASSUME \/ \E d \in Dims : DrainDim(d)
             \/ DimsDone
             \/ UNCHANGED vars
      PROVE  Good
  BY <1>2 DEF DrainDim, DimsDone, vars, entityVars, Good
<1>3. ASSUME \/ \E c \in Chunks, a \in Actors : PutActor(c, a)
             \/ \E c \in Chunks : PutDigp(c) \/ PutEntitiesFails(c)
      PROVE  Good
  BY <1>3 DEF PutActor, PutDigp, PutEntitiesFails, Good
<1>4. ASSUME EntitiesReturn PROVE Good
  <2>1. phase = "entities" /\ ok' = (ok /\ entitiesOk) /\ entitiesOk \in BOOLEAN
    BY <1>4 DEF EntitiesReturn, TypeInv
  <2>2. ~ entitiesOk => phase' = "level" /\ ok' = FALSE
    BY <1>4, <2>1 DEF EntitiesReturn
  <2>3. entitiesOk
    BY <2>2 DEF Good
  <2>. QED  BY <2>1, <2>3 DEF Good
<1>5. ASSUME WriteLevel PROVE Good
  BY <1>5, WriteLevelEffect DEF Good
<1>6. ASSUME Close \/ AbandonDb PROVE Good
  BY <1>6 DEF Close, AbandonDb, Good
<1>. QED  BY <1>1, <1>2, <1>3, <1>4, <1>5, <1>6 DEF Next, Terminated

\* The lists of UniqueIDs change when an actor is put.
LEMMA DigpSteps ==
  ASSUME [Next]_vars
  PROVE  UNCHANGED digp \/ \E c \in Chunks, a \in Actors : PutActor(c, a)
<1>1. \A r \in Regions : ConvertRegion(r) => digp' = digp
  BY RegionFrame
<1>. QED
  BY <1>1 DEF Next, PrepareFails, Prepare, ReduceReturns, DrainDim, PutDigp,
         PutEntitiesFails, EntitiesReturn, DimsDone, WriteLevel, Close, AbandonDb,
         Terminated, vars, entityVars

\* A chunk stops to be pending when its digp is put, or something fails.
LEMMA PendingSteps ==
  ASSUME TypeInv, PhaseInv, [Next]_vars, Good', NEW c \in Chunks, Pending(c)
  PROVE  \/ Pending(c)' /\ UNCHANGED left
         \/ Pending(c)' /\ \E e \in Chunks, a \in Actors : PutActor(e, a)
         \/ PutDigp(c)
<1>0. phase = "entities" /\ c \in putting
  BY DEF Pending
<1>1. \A r \in Regions : ~ ConvertRegion(r)
  BY <1>0, RegionPhase
<1>2. ASSUME NEW e \in Chunks, NEW a \in Actors, PutActor(e, a) PROVE Pending(c)'
  BY <1>0, <1>2 DEF PutActor, Pending
<1>3. ASSUME NEW e \in Chunks, PutDigp(e), e # c PROVE Pending(c)' /\ UNCHANGED left
  BY <1>0, <1>3 DEF PutDigp, Pending
<1>4. ASSUME NEW e \in Chunks, PutEntitiesFails(e) PROVE FALSE
  BY <1>0, <1>4 DEF PutEntitiesFails, Good
<1>5. ASSUME UNCHANGED vars PROVE Pending(c)' /\ UNCHANGED left
  BY <1>0, <1>5 DEF vars, entityVars, Pending
<1>. QED
  BY <1>0, <1>1, <1>2, <1>3, <1>4, <1>5
     DEF Next, PrepareFails, Prepare, ReduceReturns, DrainDim, EntitiesReturn, DimsDone,
         WriteLevel, Close, AbandonDb, Terminated

\* The digp of a chunk lists the actors put for it, and no other.
LEMMA NextDigp ==
  ASSUME TypeInv, PhaseInv, LeftInv, ActorInv, DigpInv, [Next]_vars PROVE DigpInv'
<1>1. ASSUME NEW c \in Chunks
      PROVE  digp'[c] = {a \in Actors : StandsIn[a] = c /\ Stored(<<"actor", a>>)'}
  <2>1. digp[c] = {a \in Actors : StandsIn[a] = c /\ Stored(<<"actor", a>>)}
    BY DEF DigpInv
  <2>2. ASSUME NEW e \in Chunks, NEW b \in Actors, PutActor(e, b)
        PROVE  digp'[c] = {a \in Actors : StandsIn[a] = c /\ Stored(<<"actor", a>>)'}
    <3>1. StandsIn[b] = e
      BY <2>2 DEF PutActor, LeftInv
    <3>2. digp'[c] = IF c = e THEN digp[c] \cup {b} ELSE digp[c]
      BY <2>2 DEF PutActor, TypeInv
    <3>3. \A a \in Actors : Stored(<<"actor", a>>)' <=> Stored(<<"actor", a>>) \/ a = b
      BY <2>2, PutActorEffect, KeysAndValues
    <3>. QED  BY <2>1, <3>1, <3>2, <3>3
  <2>3. CASE ~ \E e \in Chunks, b \in Actors : PutActor(e, b)
    <3>1. \A a \in Actors : Stored(<<"actor", a>>)' <=> Stored(<<"actor", a>>)
      BY <2>3, NewKeys, KeysAndValues
    <3>2. digp' = digp
      BY <2>3, DigpSteps
    <3>. QED  BY <2>1, <3>1, <3>2
  <2>. QED  BY <2>2, <2>3
<1>2. ASSUME NEW c \in Chunks, Stored(<<"digp", c>>)' PROVE contents'[<<"digp", c>>] = digp'[c]
  <2>0. <<"digp", c>> \in DbKeys
    BY KeysAndValues
  <2>1. CASE PutDigp(c)
    BY <2>1, PutDigpEffect DEF PutDigp
  <2>2. CASE ~ PutDigp(c)
    <3>1. Stored(<<"digp", c>>)
      BY <1>2, <2>0, <2>2, NewKeys
    <3>2. contents[<<"digp", c>>] = digp[c] /\ Late
      BY <3>1 DEF DigpInv, ActorInv
    <3>3. ASSUME NEW e \in Chunks, NEW a \in Actors, PutActor(e, a)
          PROVE  contents'[<<"digp", c>>] = digp'[c]
      <4>1. c # e
        BY <3>1, <3>3 DEF PutActor, LeftInv
      <4>2. digp'[c] = digp[c]
        BY <3>3, <4>1 DEF PutActor, TypeInv
      <4>. QED  BY <2>0, <3>2, <3>3, <4>2, PutActorEffect
    <3>4. CASE ~ \E e \in Chunks, a \in Actors : PutActor(e, a)
      <4>1. digp' = digp
        BY <3>4, DigpSteps
      <4>2. ~ \E r \in Regions : ConvertRegion(r)
        BY <3>2, RegionPhase
      <4>3. contents'[<<"digp", c>>] = contents[<<"digp", c>>]
        <5>1. CASE Prepare
          BY <3>2, <5>1 DEF Prepare, Late
        <5>2. ASSUME NEW e \in Chunks, PutDigp(e) PROVE contents'[<<"digp", c>>] = contents[<<"digp", c>>]
          BY <2>0, <2>2, <5>2, PutDigpEffect
        <5>3. CASE WriteLevel
          BY <2>0, <5>3, WriteLevelEffect, PutLevel DEF dbVars
        <5>4. CASE Quiet
          BY <5>4, QuietEffect
        <5>. QED  BY <3>4, <4>2, <5>1, <5>2, <5>3, <5>4, StepKinds
      <4>. QED  BY <3>2, <4>1, <4>3
    <3>. QED  BY <3>3, <3>4
  <2>. QED  BY <2>1, <2>2
<1>3. ASSUME Good', NEW c \in Chunks, digp'[c] # {}
      PROVE  Stored(<<"digp", c>>)' \/ Pending(c)'
  <2>0. <<"digp", c>> \in DbKeys
    BY KeysAndValues
  <2>1. ASSUME NEW a \in Actors, PutActor(c, a) PROVE Pending(c)'
    BY <2>1 DEF PutActor, Pending
  <2>2. CASE digp[c] = {}
    <3>1. PICK e \in Chunks, a \in Actors : PutActor(e, a)
      BY <1>3, <2>2, DigpSteps
    <3>2. e = c
      BY <1>3, <2>2, <3>1 DEF PutActor, TypeInv
    <3>. QED  BY <2>1, <3>1, <3>2
  <2>3. CASE digp[c] # {}
    <3>1. Late
      BY <2>3 DEF DigpInv, ActorInv
    <3>2. Stored(<<"digp", c>>) \/ Pending(c)
      BY <1>3, <2>3, <3>1, GoodSteps DEF DigpInv
    <3>3. CASE Stored(<<"digp", c>>)
      BY <2>0, <3>3, NewKeys
    <3>4. CASE Pending(c)
      BY <1>3, <2>0, <3>4, PendingSteps, PutDigpEffect
    <3>. QED  BY <3>2, <3>3, <3>4
  <2>. QED  BY <2>2, <2>3
<1>. QED  BY <1>1, <1>2, <1>3 DEF DigpInv

-----------------------------------------------------------------------------
\* How the Reduce ends, and the preparation.
LEMMA EarlySteps ==
  ASSUME TypeInv, PhaseInv, DrainInv, [Next]_vars, ~ Late
  PROVE  /\ ~ Late' => dimsLeft' = dimsLeft /\ putting' = putting
         /\ putting' = putting
         /\ Late' => \A r \in Regions : pc'[r] = "merged" => DimOf[r] \in dimsLeft'
         /\ Late' /\ phase' # "drain" => dimsLeft' = {}
<1>1. ASSUME NEW r \in Regions, ConvertRegion(r)
      PROVE  ~ Late' /\ dimsLeft' = dimsLeft /\ putting' = putting
  BY <1>1, RegionFrame, RegionPhase DEF Late
<1>2. ASSUME PrepareFails
      PROVE  /\ dimsLeft' = dimsLeft /\ putting' = putting
             /\ \A r \in Regions : pc'[r] # "merged"
  BY <1>2 DEF PrepareFails, PhaseInv, convertVars, entityVars
<1>3. ASSUME Prepare PROVE ~ Late' /\ dimsLeft' = dimsLeft /\ putting' = putting
  BY <1>3 DEF Prepare, Late, entityVars
<1>4. ASSUME ReduceReturns
      PROVE  /\ Late' /\ phase' = "drain" /\ putting' = putting
             /\ \A r \in Regions : pc'[r] = "merged" => DimOf[r] \in dimsLeft'
  BY <1>4 DEF ReduceReturns, Late, convertVars
<1>5. ASSUME UNCHANGED vars PROVE ~ Late' /\ dimsLeft' = dimsLeft /\ putting' = putting
  BY <1>5 DEF vars, entityVars, Late
<1>6. \/ \E r \in Regions : ConvertRegion(r)
      \/ PrepareFails \/ Prepare \/ ReduceReturns \/ UNCHANGED vars
  BY DEF Next, DrainDim, PutActor, PutDigp, PutEntitiesFails, EntitiesReturn, DimsDone,
         WriteLevel, Close, AbandonDb, Terminated, Late
<1>7. dimsLeft = {}
  BY DEF DrainInv
<1>. QED  BY <1>1, <1>2, <1>3, <1>4, <1>5, <1>6, <1>7

\* The dimensions drained are in the level data, and their actors put.
LEMMA NextDrain ==
  ASSUME TypeInv, PhaseInv, FileInv, LeftInv, DrainInv, [Next]_vars PROVE DrainInv'
<1>0. \A r \in Regions : DimOf[r] \in Dims
  BY ChunksInRegions
<1>1. ASSUME ~ Late PROVE DrainInv'
  <2>1. putting = {} /\ dimsLeft = {}
    BY <1>1 DEF DrainInv, Late, TypeInv
  <2>. QED  BY <1>1, <2>1, EarlySteps DEF DrainInv, Late, Good
<1>2. ASSUME Late PROVE DrainInv'
  <2>0. Late' /\ UNCHANGED <<pc, data>>
    BY <1>2, LateSteps DEF convertVars
  <2>. DEFINE Level(r) == DimOf[r] \in dimsLeft \/ data[DimOf[r]].chunks \subseteq level
              Entities(r) ==
                \/ DimOf[r] \in dimsLeft
                \/ \A a \in Actors :
                     <<HeldBy[a], StandsIn[a]>> \in data[DimOf[r]].files => ActorPut(a)
  <2>1. /\ \A r \in Regions : pc[r] = "merged" => Level(r)
        /\ Good => \A r \in Regions : pc[r] = "merged" => Entities(r)
    BY <1>2 DEF DrainInv
  <2>2. ASSUME NEW d \in Dims, DrainDim(d) PROVE DrainInv'
    <3>0. /\ phase = "drain" /\ phase' = "entities" /\ dimsLeft' = dimsLeft \ {d}
          /\ level' = level \cup data[d].chunks /\ contents' = contents
      BY <2>2 DEF DrainDim, dbVars
    <3>1. ASSUME NEW r \in Regions, pc[r] = "merged" PROVE Level(r)'
      BY <2>0, <2>1, <3>0, <3>1
    <3>2. ASSUME NEW r \in Regions, pc[r] = "merged" PROVE Entities(r)'
      <4>1. CASE DimOf[r] = d
        BY <2>0, <2>2, <3>0, <4>1, DrainEffect DEF Pending, ActorPut
      <4>2. CASE DimOf[r] # d
        <5>1. Entities(r)
          BY <2>1, <3>0, <3>2 DEF Good
        <5>. QED  BY <2>0, <3>0, <4>2, <5>1 DEF Pending, Stored, ActorPut
      <4>. QED  BY <4>1, <4>2
    <3>. QED  BY <2>0, <3>0, <3>1, <3>2 DEF DrainInv
  <2>3. ASSUME NEW c \in Chunks, NEW a \in Actors, PutActor(c, a) PROVE DrainInv'
    <3>0. /\ phase = "entities" /\ phase' = "entities" /\ dimsLeft' = dimsLeft
          /\ level' = level /\ putting' = putting /\ entitiesOk' = entitiesOk
          /\ left' = [left EXCEPT ![c] = left[c] \ {a}]
      BY <2>3 DEF PutActor
    <3>1. \A b \in Actors : Stored(<<"actor", b>>)' <=> Stored(<<"actor", b>>) \/ b = a
      BY <2>3, PutActorEffect, KeysAndValues
    <3>2. \A b \in Actors, e \in Chunks : b \in left[e] => b = a \/ b \in left'[e]
      BY <3>0 DEF TypeInv
    <3>3. \A b \in Actors : StandsIn[b] \in Chunks
      BY ShapeAssumption
    <3>4. \A b \in Actors : ActorPut(b) => ActorPut(b)'
      BY <3>0, <3>1, <3>2, <3>3 DEF Pending, ActorPut
    <3>5. Good' => Good
      BY <3>0 DEF Good
    <3>. QED  BY <2>0, <2>1, <3>0, <3>4, <3>5 DEF DrainInv
  <2>4. ASSUME NEW c \in Chunks, PutDigp(c) PROVE DrainInv'
    <3>0. /\ phase = "entities" /\ phase' = "entities" /\ dimsLeft' = dimsLeft
          /\ level' = level /\ putting' = putting \ {c} /\ entitiesOk' = entitiesOk
          /\ left' = left /\ left[c] = {}
      BY <2>4 DEF PutDigp
    <3>1. \A b \in Actors : Stored(<<"actor", b>>)' <=> Stored(<<"actor", b>>)
      BY <2>4, PutDigpEffect, KeysAndValues
    <3>2. \A b \in Actors : ActorPut(b) => ActorPut(b)'
      BY <3>0, <3>1 DEF Pending, ActorPut
    <3>3. Good' => Good
      BY <3>0 DEF Good
    <3>. QED  BY <2>0, <2>1, <3>0, <3>2, <3>3 DEF DrainInv
  <2>5. ASSUME NEW c \in Chunks, PutEntitiesFails(c) PROVE DrainInv'
    BY <2>0, <2>1, <2>5 DEF PutEntitiesFails, DrainInv, Good
  <2>6. ASSUME EntitiesReturn \/ DimsDone PROVE DrainInv'
    <3>0. /\ UNCHANGED <<dimsLeft, level, putting, left, contents>> /\ putting = {}
          /\ phase \in {"drain", "entities"} /\ phase' \in {"drain", "level"}
      BY <2>6 DEF EntitiesReturn, DimsDone, entityVars, dbVars, DrainInv
    <3>1. Good' => Good
      BY <1>2, GoodSteps
    <3>2. \A b \in Actors : ActorPut(b) => ActorPut(b)'
      BY <3>0 DEF Pending, Stored, ActorPut
    <3>3. phase' = "level" /\ ok' => dimsLeft' = {}
      <4>1. CASE EntitiesReturn
        BY <4>1 DEF EntitiesReturn, TypeInv
      <4>2. CASE DimsDone
        BY <4>2 DEF DimsDone, entityVars
      <4>. QED  BY <2>6, <4>1, <4>2
    <3>. QED  BY <2>0, <2>1, <3>0, <3>1, <3>2, <3>3 DEF DrainInv
  <2>7. ASSUME WriteLevel \/ Close \/ AbandonDb \/ UNCHANGED vars PROVE DrainInv'
    <3>0. /\ UNCHANGED <<dimsLeft, level, putting, left>>
          /\ phase' = phase \/ (phase \in {"level", "close"} /\ phase' \in {"close", "returned"})
          /\ phase' # phase /\ ok' => ok
      BY <2>7, WriteLevelEffect DEF Close, AbandonDb, vars, entityVars
    <3>1. Good' => Good
      BY <1>2, GoodSteps
    <3>2. \A b \in Actors : Stored(<<"actor", b>>) => Stored(<<"actor", b>>)'
      BY NewKeys, KeysAndValues
    <3>3. \A b \in Actors : ActorPut(b) => ActorPut(b)'
      BY <3>0, <3>2 DEF Pending, ActorPut
    <3>4. phase' = phase => ok' = ok
      BY <2>7, WriteLevelEffect DEF Close, AbandonDb, vars
    <3>. QED  BY <2>0, <2>1, <3>0, <3>1, <3>3, <3>4 DEF DrainInv
  <2>8. \A r \in Regions : ~ ConvertRegion(r)
    BY <1>2, RegionPhase
  <2>9. ~ (PrepareFails \/ Prepare \/ ReduceReturns)
    BY <1>2 DEF PrepareFails, Prepare, ReduceReturns, Late
  <2>. QED  BY <2>2, <2>3, <2>4, <2>5, <2>6, <2>7, <2>8, <2>9 DEF Next, Terminated
<1>. QED  BY <1>1, <1>2

-----------------------------------------------------------------------------
\* The database is open until Run returns, and committed exactly with Ok.
LEMMA NextCommit ==
  ASSUME TypeInv, PhaseInv, CommitInv, [Next]_vars PROVE CommitInv'
<1>1. ASSUME NEW r \in Regions, ConvertRegion(r) PROVE CommitInv'
  <2>1. /\ phase = "convert" /\ phase' = phase /\ status' = status
        /\ UNCHANGED <<visible, state>>
    BY <1>1, RegionPhase, RegionFrame, RegionPuts, PutsEffect DEF dbVars
  <2>. QED  BY <2>1 DEF CommitInv
<1>2. ASSUME PrepareFails PROVE CommitInv'
  BY <1>2 DEF PrepareFails, Db!Fail, CommitInv
<1>3. ASSUME Prepare PROVE CommitInv'
  <2>1. phase = "prepare" /\ phase' = "convert" /\ status' = status
    BY <1>3 DEF Prepare
  <2>2. UNCHANGED <<visible, state>>
    BY <1>3, PutPlayer DEF Prepare, dbVars
  <2>. QED  BY <2>1, <2>2 DEF CommitInv
<1>4. ASSUME \/ ReduceReturns \/ (\E d \in Dims : DrainDim(d))
             \/ (\E c \in Chunks : PutEntitiesFails(c)) \/ EntitiesReturn \/ DimsDone
      PROVE  CommitInv'
  <2>1. /\ phase # "returned" /\ phase' \notin {"close", "returned"} /\ status' = status
        /\ UNCHANGED dbVars
    BY <1>4 DEF ReduceReturns, DrainDim, PutEntitiesFails, EntitiesReturn, DimsDone
  <2>. QED  BY <2>1 DEF CommitInv, dbVars
<1>5. ASSUME NEW c \in Chunks, (\E a \in Actors : PutActor(c, a)) \/ PutDigp(c)
      PROVE  CommitInv'
  <2>1. phase = "entities" /\ phase' = "entities" /\ status' = status
    BY <1>5 DEF PutActor, PutDigp
  <2>2. UNCHANGED <<visible, state>>
    BY <1>5, PutActorEffect, PutDigpEffect
  <2>. QED  BY <2>1, <2>2 DEF CommitInv
<1>6. ASSUME WriteLevel PROVE CommitInv'
  <2>1. /\ phase = "level" /\ phase' = "close" /\ status' = status /\ level' = level
        /\ ok' => PutKey(<<"level", 0>>, level) /\ levelDat'
    BY <1>6, WriteLevelEffect DEF entityVars
  <2>2. UNCHANGED <<visible, state>> /\ (ok' => contents'[<<"level", 0>>] = level)
    BY <1>6, <2>1, WriteLevelEffect, PutLevel DEF dbVars
  <2>. QED  BY <2>1, <2>2 DEF CommitInv
<1>7. ASSUME Close PROVE CommitInv'
  <2>1. /\ phase = "close" /\ ok /\ phase' = "returned" /\ ok' = ok /\ level' = level
        /\ levelDat' = levelDat
    BY <1>7 DEF Close, entityVars
  <2>2. CASE Db!Commit /\ status' = "ok"
    <3>1. contents = [k \in DbKeys |-> contents[k]]
      BY DEF TypeInv
    <3>2. visible' = contents /\ state' = "committed" /\ contents' = contents
      BY <2>2, <3>1 DEF Db!Commit
    <3>. QED  BY <2>1, <2>2, <3>2 DEF CommitInv
  <2>3. CASE Db!Fail /\ status' = "error"
    BY <2>1, <2>3 DEF Db!Fail, CommitInv
  <2>. QED  BY <1>7, <2>2, <2>3 DEF Close
<1>8. ASSUME AbandonDb PROVE CommitInv'
  BY <1>8 DEF AbandonDb, Db!Fail, CommitInv
<1>9. ASSUME UNCHANGED vars PROVE CommitInv'
  BY <1>9 DEF vars, dbVars, entityVars, CommitInv
<1>. QED  BY <1>1, <1>2, <1>3, <1>4, <1>5, <1>6, <1>7, <1>8, <1>9 DEF Next, Terminated

\* Every step keeps the invariant.
LEMMA NextInv == IInv /\ [Next]_vars => IInv'
  BY NextTypes, NextOnce, NextPhase, NextChunk, NextSum, NextFiles, NextLeft, NextActor,
     NextDigp, NextDrain, NextCommit
     DEF IInv

\* The inductive invariant holds throughout a conversion.
THEOREM Invariance == SafeSpec => []IInv
<1>1. Init => IInv
  BY InitInv
<1>2. IInv /\ [Next]_vars => IInv'
  BY NextInv
<1>. QED  BY <1>1, <1>2, PTL DEF SafeSpec

-----------------------------------------------------------------------------
\* The state of a conversion is well formed.
THEOREM TypeCorrect == SafeSpec => []TypeOK
<1>1. IInv => TypeOK
  BY DEF IInv, TypeInv, TypeOK, WorldData, AllFiles
<1>. QED  BY <1>1, Invariance, PTL

\* Whatever the regions, the order of their threads and what fails, a database that
\* can be read has a digp for every chunk with entities, and it lists exactly those
\* that have a value.
THEOREM DigpMatchesActorsHolds == SafeSpec => []DigpMatchesActors
<1>1. ASSUME IInv PROVE DigpMatchesActors
  <2>. USE <1>1 DEF IInv
  <2>. SUFFICES ASSUME NEW c \in Chunks
                PROVE  LET here == {a \in Actors : StandsIn[a] = c /\ Has(<<"actor", a>>)}
                       IN  IF Has(<<"digp", c>>) THEN visible[<<"digp", c>>] = here
                                                 ELSE here = {}
    BY DEF DigpMatchesActors
  <2>1. CASE visible = Db!Nothing
    BY <2>1, KeysAndValues DEF Db!Nothing, Has
  <2>2. CASE visible = contents /\ phase = "returned" /\ ok
    <3>1. \A k : Has(k) <=> Stored(k)
      BY <2>2 DEF Has, Stored
    <3>2. digp[c] = {a \in Actors : StandsIn[a] = c /\ Has(<<"actor", a>>)}
      BY <3>1 DEF DigpInv
    <3>3. Good /\ ~ Pending(c)
      BY <2>2 DEF Good, Pending
    <3>4. digp[c] # {} => Has(<<"digp", c>>)
      BY <3>1, <3>3 DEF DigpInv
    <3>5. Has(<<"digp", c>>) => visible[<<"digp", c>>] = digp[c]
      BY <2>2, <3>1 DEF DigpInv
    <3>. QED  BY <3>2, <3>4, <3>5
  <2>. QED  BY <2>1, <2>2 DEF CommitInv
<1>. QED  BY <1>1, Invariance, PTL

\* Ok means that every region that was neither aborted nor lost a chunk is in the
\* database, in the level data, and with all its actors.
THEOREM OkMeansRegionsCompleteHolds == SafeSpec => []OkMeansRegionsComplete
<1>1. ASSUME IInv PROVE OkMeansRegionsComplete
  <2>. USE <1>1 DEF IInv
  <2>. DEFINE mine(r) == {ChunksOf[r][i] : i \in DOMAIN ChunksOf[r]} \ Absent
  <2>. SUFFICES ASSUME status = "ok", NEW r \in Regions, pc[r] = "merged",
                       mine(r) \cap lost = {}
                PROVE  /\ \A c \in mine(r) : Has(<<"chunk", c>>)
                       /\ mine(r) \subseteq visible[<<"level", 0>>]
                       /\ \A a \in Actors : HeldBy[a] \in mine(r) => Has(<<"actor", a>>)
    BY DEF OkMeansRegionsComplete
  <2>1. /\ phase = "returned" /\ ok /\ visible = contents
        /\ contents[<<"level", 0>>] = level
    BY DEF CommitInv, TypeInv
  <2>2. Good /\ Late /\ dimsLeft = {} /\ \A c \in Chunks : ~ Pending(c)
    BY <2>1 DEF Good, Late, Pending, DrainInv
  <2>3. \A k : Stored(k) => Has(k)
    BY <2>1 DEF Stored, Has
  <2>4. ASSUME NEW c \in mine(r)
        PROVE  /\ Stored(<<"chunk", c>>)
               /\ c \in data[DimOf[r]].chunks
               /\ FilesOf(c) \subseteq data[DimOf[r]].files
    <3>1. PICK i \in DOMAIN ChunksOf[r] : c = ChunksOf[r][i]
      BY <2>4
    <3>2. Behind(r, i)
      BY ChunksInRegions DEF TypeInv, PhaseInv, Behind
    <3>3. c \notin Absent \cup lost
      BY <2>4
    <3>. QED  BY <3>1, <3>2, <3>3 DEF SumInv
  <2>5. data[DimOf[r]].chunks \subseteq level
    BY <2>2 DEF DrainInv
  <2>6. ASSUME NEW a \in Actors, HeldBy[a] \in mine(r) PROVE Stored(<<"actor", a>>)
    <3>1. <<HeldBy[a], StandsIn[a]>> \in FilesOf(HeldBy[a]) /\ StandsIn[a] \in Chunks
      BY ShapeAssumption DEF FilesOf
    <3>2. <<HeldBy[a], StandsIn[a]>> \in data[DimOf[r]].files
      BY <2>4, <2>6, <3>1
    <3>3. ActorPut(a)
      BY <2>2, <3>2 DEF DrainInv
    <3>. QED  BY <2>2, <3>1, <3>3 DEF ActorPut
  <2>. HIDE DEF mine
  <2>. QED  BY <2>1, <2>3, <2>4, <2>5, <2>6
<1>. QED  BY <1>1, Invariance, PTL

\* Ok exactly when the database was committed, and nothing to read after an error.
THEOREM OkMeansCommittedHolds == SafeSpec => []OkMeansCommitted
<1>1. IInv => OkMeansCommitted
  BY DEF IInv, CommitInv, OkMeansCommitted
<1>. QED  BY <1>1, Invariance, PTL

\* ConcurrentDb gets every key at most once.
THEOREM NoKeyPutTwiceHolds == SafeSpec => []NoKeyPutTwice
<1>1. IInv => NoKeyPutTwice
  BY DEF IInv, OnceInv, NoKeyPutTwice
<1>. QED  BY <1>1, Invariance, PTL

\* After abortSignal no region starts a chunk that it had not started.
THEOREM AbortStopsChunksHolds == SafeSpec => AbortStopsChunks
<1>. DEFINE Stops == \A r \in Regions : abort /\ pc[r] # "convert" => pc'[r] # "convert"
<1>1. ASSUME TypeInv, [Next]_vars PROVE [Stops]_vars
  <2>1. CASE UNCHANGED convertVars
    BY <2>1 DEF convertVars
  <2>2. ASSUME NEW s \in Regions, ConvertRegion(s) PROVE Stops
    <3>1. ASSUME abort, pc[s] # "convert" PROVE pc'[s] # "convert"
      <4>1. CASE TestAbort(s)
        BY <1>1, <3>1, <4>1 DEF TestAbort, GotoR, TypeInv
      <4>2. CASE ~ TestAbort(s)
        BY <1>1, <2>2, <3>1, <4>2
           DEF ConvertRegion, TakeRegion, ConvertChunk, SkipChunk, LoseChunk, ChunkThrows,
               ReportChunk, ReturnRegion, GotoR, TypeInv
      <4>. QED  BY <4>1, <4>2
    <3>. QED  BY <1>1, <2>2, <3>1, RegionFrame
  <2>. QED  BY <1>1, <2>1, <2>2, OutsideRegions
<1>2. IInv => TypeInv
  BY DEF IInv
<1>. QED  BY <1>1, <1>2, Invariance, PTL DEF SafeSpec, AbortStopsChunks
=============================================================================
