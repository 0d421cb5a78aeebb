--------------------------- MODULE TobeConverter ---------------------------
(***************************************************************************)
(* The Java to Bedrock conversion: src/src/tobe-converter.cpp drives       *)
(* tobe-region.cpp and tobe-chunk.cpp over all regions in parallel, merges *)
(* what they found out, puts the entities of every chunk                   *)
(* (tobe-world.cpp), the level data (tobe/_level-data.hpp), and closes the *)
(* database.  An entity belongs to the chunk it stands in, which need not  *)
(* be the chunk, nor the region, whose data holds it: each converted chunk *)
(* leaves one temporary file per chunk its entities stand in.              *)
(*                                                                         *)
(* Parallel::Reduce is taken at its promise (WorkPool) and the database at *)
(* its own (KvStore).                                                      *)
(***************************************************************************)
EXTENDS Integers, Sequences, FiniteSets

CONSTANTS
  Dims,                 \* the dimensions converted: 1 .. n in their order
  Regions,              \* the region files
  DimOf,                \* the dimension of each region
  ChunksOf,             \* the chunks of each region, in the order of the loop
  Absent,               \* chunks without data, or left out by the filter
  Actors,               \* the UniqueIDs of the entities
  HeldBy,               \* the chunk whose data holds each actor
  StandsIn,             \* the chunk each actor stands in
  Concurrency,          \* the threads of a Reduce
  Faults,               \* what can go wrong: see below
  Missing               \* no value

\* "input" before the conversion, "chunk" a conversion that yields nothing,
\* "throw" an exception in it, "cancel" the progress callback, "entities" an
\* entity file that cannot be opened, "level" level.dat or the level data,
\* "close" ConcurrentDb::close.
AllFaults == {"input", "chunk", "throw", "cancel", "entities", "level", "close"}

Chunks == UNION {{ChunksOf[r][i] : i \in DOMAIN ChunksOf[r]} : r \in Regions}

ASSUME ShapeAssumption ==
  /\ IsFiniteSet(Dims) /\ Dims \subseteq Nat
  /\ DimOf \in [Regions -> Dims]
  /\ ChunksOf \in [Regions -> Seq(Chunks)]
  /\ Absent \subseteq Chunks
  /\ HeldBy \in [Actors -> Chunks]
  /\ StandsIn \in [Actors -> Chunks]
  /\ Concurrency \in Nat \ {0}
  /\ Faults \subseteq AllFaults

\* A region file holds the 32 x 32 chunks of its own coordinates, each once.
ASSUME ChunksAssumption ==
  \A r, s \in Regions : \A i \in DOMAIN ChunksOf[r], j \in DOMAIN ChunksOf[s] :
    ChunksOf[r][i] = ChunksOf[s][j] => r = s /\ i = j

\* An entity stands in the dimension whose files hold it: where it stands is
\* worked out from its Pos alone.
ASSUME PlacesAssumption ==
  \A a \in Actors, r, s \in Regions :
    \A i \in DOMAIN ChunksOf[r], j \in DOMAIN ChunksOf[s] :
      ChunksOf[r][i] = HeldBy[a] /\ ChunksOf[s][j] = StandsIn[a] => DimOf[r] = DimOf[s]

DbKeys == ({"chunk"} \X Chunks) \cup ({"actor"} \X Actors)
            \cup ({"digp"} \X Chunks) \cup {<<"player", 0>>, <<"level", 0>>}

\* What a key's value tells the properties apart: the chunk that held an actor,
\* the actors of a digp, the chunks merged into the level data.
DbValues == Chunks \cup (SUBSET Actors) \cup (SUBSET Chunks)

ASSUME MissingAssumption == \A v \in DbValues : v # Missing

VARIABLES
  phase,                \* where Converter::Run is
  ok,                   \* its flag
  abort,                \* abortSignal
  pc,                   \* per region: where Region::Convert is
  at,                   \* per region: the index of its next chunk
  sum,                  \* per region: the WorldData of its chunks so far
  data,                 \* per dimension: the merged WorldData of the Reduce
  dimsLeft,             \* the dimensions Run has not drained
  dim,                  \* the one it is at
  left,                 \* per chunk: the entities PutChunkEntities has to put
  digp,                 \* per chunk: the UniqueIDs it has put
  putting,              \* the chunks with entities still to put
  entitiesOk,           \* what PutWorldEntities returns
  level,                \* the chunks whose data is in the LevelData
  levelDat,             \* level.dat is written
  status,               \* what Run returns
  contents, visible, state,     \* the database: see KvStore
  twice,                \* history: keys that were put more than once
  lost,                 \* history: chunks whose conversion yielded nothing
  threw                 \* history: chunks whose conversion threw

convertVars == <<abort, pc, at, sum, data, lost, threw>>
entityVars == <<dimsLeft, dim, left, digp, putting, entitiesOk, level>>
dbVars == <<contents, visible, state, twice>>
vars == <<phase, ok, convertVars, entityVars, levelDat, status, dbVars>>

\* The database loses nothing without a word, which is what ConcurrentDb promises
\* (CommitIsComplete) as long as every write to a table file succeeds.
Db == INSTANCE KvStore WITH Keys <- DbKeys, Values <- DbValues, lost <- {}

\* A WorldData: the chunks drained into it, and <<source, target>> for each file.
NoData == [chunks |-> {}, files |-> {}]
FilesOf(c) == {<<c, StandsIn[a]>> : a \in {b \in Actors : HeldBy[b] = c}}
ActorsIn(file) == {a \in Actors : HeldBy[a] = file[1] /\ StandsIn[a] = file[2]}

TypeOK ==
  /\ phase \in {"prepare", "convert", "drain", "entities", "level", "close",
                "returned"}
  /\ ok \in BOOLEAN /\ abort \in BOOLEAN /\ entitiesOk \in BOOLEAN
  /\ levelDat \in BOOLEAN
  /\ pc \in [Regions -> {"todo", "check", "convert", "report", "merged", "dropped"}]
  /\ \A r \in Regions : at[r] \in 1 .. Len(ChunksOf[r]) + 1
  /\ \A r \in Regions : sum[r].chunks \subseteq Chunks
                          /\ sum[r].files \subseteq Chunks \X Chunks
  /\ \A d \in Dims : data[d].chunks \subseteq Chunks
                       /\ data[d].files \subseteq Chunks \X Chunks
  /\ dimsLeft \subseteq Dims /\ dim \in Dims \cup {0}
  /\ left \in [Chunks -> SUBSET Actors]
  /\ digp \in [Chunks -> SUBSET Actors]
  /\ putting \subseteq Chunks /\ level \subseteq Chunks
  /\ status \in {"running", "ok", "error"}
  /\ state \in {"open", "committed", "failed"}
  /\ twice \subseteq DbKeys /\ lost \subseteq Chunks /\ threw \subseteq Chunks
  /\ DOMAIN contents = DbKeys /\ DOMAIN visible = DbKeys

Init ==
  /\ phase = "prepare"
  /\ ok = TRUE
  /\ abort = FALSE
  /\ pc = [r \in Regions |-> "todo"]
  /\ at = [r \in Regions |-> 1]
  /\ sum = [r \in Regions |-> NoData]
  /\ data = [d \in Dims |-> NoData]
  /\ dimsLeft = {}
  /\ dim = 0
  /\ left = [c \in Chunks |-> {}]
  /\ digp = [c \in Chunks |-> {}]
  /\ putting = {}
  /\ entitiesOk = TRUE
  /\ level = {}
  /\ levelDat = FALSE
  /\ status = "running"
  /\ Db!Init
  /\ twice = {}
  /\ lost = {}
  /\ threw = {}

\* db.put, and whether the key was there.
PutKey(k, v) ==
  /\ Db!Put(k, v)
  /\ twice' = IF contents[k] = Missing THEN twice ELSE twice \cup {k}

-----------------------------------------------------------------------------
\* The session lock, the output directory, level.dat or a temporary directory
\* fails: Run returns, and the destructor of the database abandons it.
PrepareFails ==
  /\ "input" \in Faults
  /\ phase = "prepare"
  /\ phase' = "returned"
  /\ status' = "error"
  /\ Db!Fail
  /\ UNCHANGED <<ok, convertVars, entityVars, levelDat, twice>>

\* Datapacks::Import, whose failure is only looked at after the conversion, and
\* the local player.
Prepare ==
  /\ phase = "prepare"
  /\ phase' = "convert"
  /\ ok' \in {TRUE} \cup {FALSE : f \in Faults \cap {"input"}}
  /\ \/ UNCHANGED dbVars
     \/ PutKey(<<"player", 0>>, {})
  /\ UNCHANGED <<convertVars, entityVars, levelDat, status>>

-----------------------------------------------------------------------------
Busy == {r \in Regions : pc[r] \in {"check", "convert", "report"}}
ChunkAt(r) == ChunksOf[r][at[r]]
GotoR(r, label) == pc' = [pc EXCEPT ![r] = label]

\* A thread of the Reduce takes a region.
TakeRegion(r) ==
  /\ phase = "convert"
  /\ pc[r] = "todo"
  /\ Cardinality(Busy) < Concurrency
  /\ GotoR(r, "check")
  /\ UNCHANGED <<phase, ok, abort, at, sum, data, lost, threw, entityVars, levelDat,
                 status, dbVars>>

\* Mutant: a region that sees abortSignal goes round its loop again.
TestAbortContinues(r) ==
  /\ pc[r] = "check"
  /\ at[r] \in DOMAIN ChunksOf[r]
  /\ GotoR(r, IF abort THEN "check" ELSE "convert")
  /\ UNCHANGED <<phase, ok, abort, at, sum, data, lost, threw, entityVars, levelDat,
                 status, dbVars>>

\* Mutant: abortSignal is looked at before the first chunk only.
TestAbortOnce(r) ==
  /\ pc[r] = "check"
  /\ at[r] \in DOMAIN ChunksOf[r]
  /\ GotoR(r, IF abort /\ at[r] = 1 THEN "dropped" ELSE "convert")
  /\ UNCHANGED <<phase, ok, abort, at, sum, data, lost, threw, entityVars, levelDat,
                 status, dbVars>>

\* if (abortSignal) return {}: the WorldData of the region is dropped.
TestAbort(r) ==
  /\ pc[r] = "check"
  /\ at[r] \in DOMAIN ChunksOf[r]
  /\ GotoR(r, IF abort THEN "dropped" ELSE "convert")
  /\ UNCHANGED <<phase, ok, abort, at, sum, data, lost, threw, entityVars, levelDat,
                 status, dbVars>>

Drain(from, to) ==
  [chunks |-> to.chunks \cup from.chunks, files |-> to.files \cup from.files]

\* Chunk::Convert returns the WorldData of the chunk, and the chunk is put.
ConvertChunk(r) ==
  /\ pc[r] = "convert"
  /\ ChunkAt(r) \notin Absent
  /\ PutKey(<<"chunk", ChunkAt(r)>>, ChunkAt(r))
  /\ sum' = [sum EXCEPT ![r] =
       Drain([chunks |-> {ChunkAt(r)}, files |-> FilesOf(ChunkAt(r))], @)]
  /\ GotoR(r, "report")
  /\ UNCHANGED <<phase, ok, abort, at, data, lost, threw, entityVars, levelDat, status>>

\* There is no such chunk, or the filter leaves it out.
SkipChunk(r) ==
  /\ pc[r] = "convert"
  /\ ChunkAt(r) \in Absent
  /\ GotoR(r, "report")
  /\ UNCHANGED <<phase, ok, abort, at, sum, data, lost, threw, entityVars, levelDat,
                 status, dbVars>>

\* MakeWorldData returns nullptr: before cd.put, or after it when an entity
\* cannot be written.  Region::Convert cannot tell this from an absent chunk.
LoseChunk(r) ==
  /\ "chunk" \in Faults
  /\ pc[r] = "convert"
  /\ ChunkAt(r) \notin Absent
  /\ \/ PutKey(<<"chunk", ChunkAt(r)>>, ChunkAt(r))
     \/ UNCHANGED dbVars
  /\ lost' = lost \cup {ChunkAt(r)}
  /\ GotoR(r, "report")
  /\ UNCHANGED <<phase, ok, abort, at, sum, data, threw, entityVars, levelDat, status>>

\* Chunk::Convert catches an exception and returns the error in a WorldData that
\* Region::Convert drops with its own: abortSignal is set, return {}.
ChunkThrows(r) ==
  /\ "throw" \in Faults
  /\ pc[r] = "convert"
  /\ ChunkAt(r) \notin Absent
  /\ \/ PutKey(<<"chunk", ChunkAt(r)>>, ChunkAt(r))
     \/ UNCHANGED dbVars
  /\ threw' = threw \cup {ChunkAt(r)}
  /\ abort' = TRUE
  /\ GotoR(r, "dropped")
  /\ UNCHANGED <<phase, ok, at, sum, data, lost, entityVars, levelDat, status>>

\* The progress callback, whose answer may set abortSignal.
ReportChunk(r) ==
  /\ pc[r] = "report"
  /\ abort' \in {abort} \cup {TRUE : f \in Faults \cap {"cancel"}}
  /\ at' = [at EXCEPT ![r] = @ + 1]
  /\ GotoR(r, "check")
  /\ UNCHANGED <<phase, ok, sum, data, lost, threw, entityVars, levelDat, status, dbVars>>

\* Mutant: the files of a chunk are assigned where they should be appended.
MergeOverwrites(from, to) ==
  [chunks |-> to.chunks \cup from.chunks,
   files |-> from.files \cup
     {f \in to.files : \A g \in from.files : g[2] # f[2]}]

\* Result::mergeInto, which moves or drains one WorldData into the other.
MergeInto(from, to) == Drain(from, to)

\* The last chunk is behind: Region::Convert returns sum, abort or not, and the
\* Reduce merges it.
ReturnRegion(r) ==
  /\ pc[r] = "check"
  /\ at[r] \notin DOMAIN ChunksOf[r]
  /\ data' = [data EXCEPT ![DimOf[r]] = MergeInto(sum[r], @)]
  /\ GotoR(r, "merged")
  /\ UNCHANGED <<phase, ok, abort, at, sum, lost, threw, entityVars, levelDat, status,
                 dbVars>>

\* The Reduce returns: the dimensions with data are in result.fData.
ReduceReturns ==
  /\ phase = "convert"
  /\ \A r \in Regions : pc[r] \in {"merged", "dropped"}
  /\ phase' = "drain"
  /\ dimsLeft' = {DimOf[r] : r \in {q \in Regions : pc[q] = "merged"}}
  /\ UNCHANGED <<ok, convertVars, dim, left, digp, putting, entitiesOk, level, levelDat,
                 status, dbVars>>

-----------------------------------------------------------------------------
\* The next dimension is drained into the LevelData, and PutWorldEntities gets
\* one work for each chunk that has entity files.
DrainDim(d) ==
  /\ phase = "drain"
  /\ d \in dimsLeft
  /\ \A e \in dimsLeft : d <= e
  /\ phase' = "entities"
  /\ dim' = d
  /\ dimsLeft' = dimsLeft \ {d}
  /\ level' = level \cup data[d].chunks
  /\ putting' = {f[2] : f \in data[d].files}
  /\ left' = [c \in Chunks |->
       UNION {ActorsIn(f) : f \in {g \in data[d].files : g[2] = c}}]
  /\ entitiesOk' = TRUE
  /\ UNCHANGED <<ok, convertVars, digp, levelDat, status, dbVars>>

\* Mutant: the actor is listed for the chunk that held it.
PutActorWhereHeld(c, a) ==
  /\ phase = "entities"
  /\ c \in putting
  /\ a \in left[c]
  /\ PutKey(<<"actor", a>>, HeldBy[a])
  /\ left' = [left EXCEPT ![c] = @ \ {a}]
  /\ digp' = [digp EXCEPT ![HeldBy[a]] = @ \cup {a}]
  /\ UNCHANGED <<phase, ok, convertVars, dimsLeft, dim, putting, entitiesOk, level,
                 levelDat, status>>

\* PutChunkEntities reads the next entity of the chunk's files and puts it.  All
\* actors have a UniqueID and can be serialized: the code skips one that has
\* none, and lists without a value one that cannot.
PutActor(c, a) ==
  /\ phase = "entities"
  /\ c \in putting
  /\ a \in left[c]
  /\ PutKey(<<"actor", a>>, HeldBy[a])
  /\ left' = [left EXCEPT ![c] = @ \ {a}]
  /\ digp' = [digp EXCEPT ![c] = @ \cup {a}]
  /\ UNCHANGED <<phase, ok, convertVars, dimsLeft, dim, putting, entitiesOk, level,
                 levelDat, status>>

\* Mutant: the digp is put after each file, with what has been read so far.
PutDigpPerFile(c) ==
  /\ phase = "entities"
  /\ c \in putting
  /\ digp[c] # {}
  /\ contents[<<"digp", c>>] # digp[c] \/ left[c] = {}
  /\ PutKey(<<"digp", c>>, digp[c])
  /\ putting' = IF left[c] = {} THEN putting \ {c} ELSE putting
  /\ UNCHANGED <<phase, ok, convertVars, dimsLeft, dim, left, digp, entitiesOk, level,
                 levelDat, status>>

\* All files of the chunk are read: its digp lists the entities put.
PutDigp(c) ==
  /\ phase = "entities"
  /\ c \in putting
  /\ left[c] = {}
  /\ PutKey(<<"digp", c>>, digp[c])
  /\ putting' = putting \ {c}
  /\ UNCHANGED <<phase, ok, convertVars, dimsLeft, dim, left, digp, entitiesOk, level,
                 levelDat, status>>

\* A file cannot be opened: this chunk's work returns false, without a digp.
PutEntitiesFails(c) ==
  /\ "entities" \in Faults
  /\ phase = "entities"
  /\ c \in putting
  /\ left[c] # {}
  /\ entitiesOk' = FALSE
  /\ putting' = putting \ {c}
  /\ UNCHANGED <<phase, ok, convertVars, dimsLeft, dim, left, digp, level, levelDat,
                 status, dbVars>>

\* PutWorldEntities returns; false ends the loop over the dimensions.
EntitiesReturn ==
  /\ phase = "entities"
  /\ putting = {}
  /\ phase' = IF entitiesOk THEN "drain" ELSE "level"
  /\ ok' = (ok /\ entitiesOk)
  /\ UNCHANGED <<convertVars, entityVars, levelDat, status, dbVars>>

\* Every dimension is drained.
DimsDone ==
  /\ phase = "drain"
  /\ dimsLeft = {}
  /\ phase' = "level"
  /\ UNCHANGED <<ok, convertVars, entityVars, levelDat, status, dbVars>>

-----------------------------------------------------------------------------
\* level.write, then levelData->put, each only if all went well so far; put may
\* fail after some of its keys.
WriteLevel ==
  /\ phase = "level"
  /\ phase' = "close"
  /\ \/ /\ ok
        /\ levelDat' = TRUE
        /\ PutKey(<<"level", 0>>, level)
        /\ UNCHANGED ok
     \/ /\ ok
        /\ "level" \in Faults
        /\ ok' = FALSE
        /\ \/ levelDat' \in BOOLEAN /\ UNCHANGED dbVars
           \/ levelDat' = TRUE /\ PutKey(<<"level", 0>>, level)
     \/ /\ ~ok
        /\ UNCHANGED <<ok, levelDat, dbVars>>
  /\ UNCHANGED <<convertVars, entityVars, status>>

\* Mutant: the result of close() is not looked at.
CloseUnchecked ==
  /\ phase = "close"
  /\ ok
  /\ phase' = "returned"
  /\ \/ Db!Commit
     \/ "close" \in Faults /\ Db!Fail
  /\ status' = "ok"
  /\ UNCHANGED <<ok, convertVars, entityVars, levelDat, twice>>

\* db.close() decides what Run returns.  levelData->fError is never set: what
\* addError recorded was dropped with the WorldData of its region.
Close ==
  /\ phase = "close"
  /\ ok
  /\ phase' = "returned"
  /\ \/ Db!Commit /\ status' = "ok"
     \/ "close" \in Faults /\ Db!Fail /\ status' = "error"
  /\ UNCHANGED <<ok, convertVars, entityVars, levelDat, twice>>

\* db.abandon(), and an error.
AbandonDb ==
  /\ phase = "close"
  /\ ~ok
  /\ phase' = "returned"
  /\ Db!Fail
  /\ status' = "error"
  /\ UNCHANGED <<ok, convertVars, entityVars, levelDat, twice>>

\* Run has returned.
Terminated == phase = "returned" /\ UNCHANGED vars

ConvertRegion(r) ==
  \/ TakeRegion(r)
  \/ TestAbort(r)
  \/ ConvertChunk(r)
  \/ SkipChunk(r)
  \/ LoseChunk(r)
  \/ ChunkThrows(r)
  \/ ReportChunk(r)
  \/ ReturnRegion(r)

Next ==
  \/ PrepareFails
  \/ Prepare
  \/ \E r \in Regions : ConvertRegion(r)
  \/ ReduceReturns
  \/ \E d \in Dims : DrainDim(d)
  \/ \E c \in Chunks, a \in Actors : PutActor(c, a)
  \/ \E c \in Chunks : PutDigp(c) \/ PutEntitiesFails(c)
  \/ EntitiesReturn
  \/ DimsDone
  \/ WriteLevel
  \/ Close
  \/ AbandonDb
  \/ Terminated

SafeSpec == Init /\ [][Next]_vars

\* The threads run, and the conversion of a chunk and every file operation ends.
Spec == SafeSpec /\ WF_vars(Next)

-----------------------------------------------------------------------------
\* Every value that can be read: the ones the committed database has.
Has(k) == visible[k] # Missing

\* What a reader of the database relies on to find entities: each digp lists
\* exactly the actors that have a value and stand in that chunk, wherever the
\* chunk was that held them, and whatever failed or was aborted.
DigpMatchesActors ==
  \A c \in Chunks :
    LET here == {a \in Actors : StandsIn[a] = c /\ Has(<<"actor", a>>)}
    IN  IF Has(<<"digp", c>>) THEN visible[<<"digp", c>>] = here ELSE here = {}

\* If Run returns Ok, then every region that was neither aborted nor lost a chunk
\* is in the database with all its actors and is merged into the level data.
OkMeansRegionsComplete ==
  status = "ok" =>
    \A r \in Regions :
      LET mine == {ChunksOf[r][i] : i \in DOMAIN ChunksOf[r]} \ Absent
      IN  pc[r] = "merged" /\ mine \cap lost = {} =>
            /\ \A c \in mine : Has(<<"chunk", c>>)
            /\ mine \subseteq visible[<<"level", 0>>]
            /\ \A a \in Actors : HeldBy[a] \in mine => Has(<<"actor", a>>)

\* Ok is returned exactly when the database was committed, and then level.dat is
\* written as well: an error never leaves a database that can be opened.
OkMeansCommitted ==
  phase = "returned" =>
    /\ status = "ok" <=> state = "committed"
    /\ status = "ok" => levelDat
    /\ status = "error" => visible = Db!Nothing

\* No key is put twice as long as the UniqueIDs are distinct, although chunks
\* of several regions leave entities in one chunk: ConcurrentDb needs this.
NoKeyPutTwice == twice = {}

\* Once abortSignal is set no region starts another chunk, except those that
\* had looked at the flag before.
AbortStopsChunks ==
  [][\A r \in Regions :
       abort /\ pc[r] # "convert" => pc'[r] # "convert"]_vars

\* Run returns, whatever fails or is cancelled.
Termination == <>(phase = "returned")

\* "CHECK(st.ok());" and then "Compare initial Java input and final Java output."
\* (test/j2b2j.hpp:1038, 1046): Ok means that every chunk was converted.
OkMeansAllConverted ==
  status = "ok" => \A c \in Chunks \ Absent : Has(<<"chunk", c>>)
=============================================================================
