# TLA+ for je2be

je2be converts Minecraft worlds: Java to Bedrock (`tobe`), Bedrock to Java
(`toje`) and Xbox 360 to Java (`box360`).  Three things are hard to get right in
it and hard to test:

* the machinery that runs a conversion - a hand-written work pool, two passes that
  rewrite files other threads read, a LevelDB writer filled by all threads and
  committed at the end, pipelines of stages each of which may fail or be cancelled
  while others run;
* what one chunk cannot settle alone - the passes that set a block from its
  neighbours in other chunks, light, chests and leads and vehicles that lie across
  chunks and regions;
* the tables - thousands of lines that translate blocks, items, block entities and entities one
  way, and thousands that translate them back, which agree only as far as
  somebody wrote both alike.

This directory models all three, checks them with TLC, and proves with TLAPS the safety of
the machinery everything else stands on, and that a conversion to Java loses no entity on the
way across chunks, regions and threads.

All paths below are relative to `src/src/` unless they start with `src/`.

## Inventory

| component | state it keeps | operations | interacts with |
|---|---|---|---|
| `Parallel` (`_parallel.hpp`) | per call: flags of claimed works, a latch, private sums and a total, the threads | `Map`, `Reduce` | called by every pipeline and by `ConcurrentDb::close` |
| `Queue2d` (`_queue2d.hpp`) | done, lock and weight per grid position | `next`, `unlock`, `unlockAround`, `setDone`, `setWeight` | both terraform passes, under their mutexes |
| box360 `Terraform` (`box360-terraform.cpp`) | the chunk files, the merged points of interest, `ok`, the queue | `Do`, `MultiThread`, `DoChunk` | `Queue2d`, the transforms, progress callback |
| `ConcurrentDb` (`db/_concurrent-db.hpp`) | a writer (key and value file) per thread, counters, table files, manifest | `put`, `close`, `abandon` | put by all threads of tobe; `close` uses `Reduce` twice |
| tobe pipeline (`tobe-converter.cpp`, `tobe-region.cpp`, `tobe-chunk.cpp`, `tobe-world.cpp`, `tobe/_world-data.hpp`) | `WorldData` per chunk, region and dimension, entity files, `abortSignal`, `LevelData` | `Run`, `Region::Convert`, `Chunk::Convert`, `PutWorldEntities` | `Reduce`, `ConcurrentDb`, progress callback |
| toje `Terraform` (`toje-converter.cpp`) | a queue per dimension, the region files, `ok`, a chunk count | `Terraform`, `TerraformChunk` | `Queue2d`, leaves, lighting, progress callback |
| toje pipeline (`toje-world.cpp`, `toje-region.cpp`, `toje-chunk.cpp`, `toje-context.cpp`) | a `Context` per region, merged; leashes, vehicles, maps | `Context::Init`, `World::Convert`, `postProcess` | `Reduce`, `AsyncIterator` |
| terraform transforms (`terraform/`, `toje/_chunk`'s passes, `_block-property-accessor*`) | the blocks and block entities of a chunk, a cache of its neighbours | one pass per kind of block | called chunk by chunk by toje and box360 |
| toje lighting (`toje/lighting/`) | two light arrays and the block models of a window, the borders of lit chunks per region | `Lighting::Do`, `dispose` | toje `Terraform` |
| box360 pipeline (`box360-world.cpp`, `box360-converter.cpp`) | chunk files, progress counters, `ok` | `World::Convert`, `ProcessChunk` | `Reduce`, box360 `Terraform` |
| block, item, block entity and entity tables (`*-block-data.cpp`, `*-item.cpp`, `tobe-tile-entity.cpp`, `toje-block-entity.cpp`, `*-entity.cpp`) | none | one converter per kind, a table of converters | the chunk conversions, and each other: items hold blocks, blocks hold items |
| `Volume`, portals, moving pistons | none beyond a call | pure algorithms | the chunk conversions, lighting |
| `UuidRegistrar`, maps | a table under a mutex | `ToId`, `mapInfo` | all conversion threads |
| commands, level data, zip, STFS/LZX, sub-chunks | none | data and formats | the chunk conversions |

Hard behaviours: threads claim, lock and merge in any order; a caller must
outlive its helpers; a file is rewritten in place while neighbours are read; a
failure of one thread must stop the others, release no lock that matters, and
reach the status; cancellation arrives at any moment; a commit must be all or
nothing; counters saturate and tables are split at boundaries; a cache holds less
of a chunk than its reader believes; a value read back was written under another name.
The hazards are listed line by line in `PROJECT.json`, with the properties that cover
them.

What makes each part correct:

* **Parallel** - each work runs exactly once, each result is in the returned
  value exactly once, nobody uses the call's locals after it returned, it returns.
* **Queue2d and the terraform passes** - nobody reads what another writes,
  nothing is rewritten twice or left out, locks belong to somebody, `Ok` is true.
* **ConcurrentDb** - all values become readable at once or none; tables of
  level 1 are disjoint; no table file is written twice; a failure is not lost.
* **tobe pipeline** - the actor lists (`digp`) and the actors agree, the
  database is committed if and only if the status is `Ok`, abort stops the work.
* **toje pipeline** - an entity ends in one place, in its seat, tied to its knot, with the
  player whose it is.
* **transforms and lighting** - what a pass writes into a block fits its neighbours, of
  whatever chunk and in whatever order; light and the distance of leaves are
  those of shortest paths, although both are found chunk by chunk.
* **tables** - a world that goes to Bedrock and back is the world it was, but for losses
  that are known; a second trip changes nothing more.

## Modules

| module | models | instance |
|---|---|---|
| `WorkPool` | what `Parallel` promises (abstract) | - |
| `Parallel` | `_parallel.hpp` | - (its configuration is enough) |
| `Parallel_proofs` | theorems about `Parallel` | - |
| `Queue2d` | `_queue2d.hpp`, `_data2d.hpp`: operators on a queue value | - |
| `Box360Terraform` | `box360-terraform.cpp` | - (its configuration is enough) |
| `Box360Terraform_proofs` | theorems about `Box360Terraform` | - |
| `TojeTerraform` | `Terraform` of `toje-converter.cpp` | `MCTojeTerraform` |
| `TojeTerraform_proofs` | theorems about `TojeTerraform` | - |
| `KvStore` | what `DbInterface` promises (abstract) | - |
| `ConcurrentDb` | `db/_concurrent-db.hpp` | `MCConcurrentDb` |
| `ConcurrentDb_proofs` | theorems about `ConcurrentDb` | - |
| `TobeConverter` | the tobe pipeline | `MCTobeConverter` |
| `TobeConverter_proofs` | theorems about `TobeConverter` | - |
| `TojeWorld` | `Run`, `World::Convert`, `Region::Convert` and the entities of a chunk of toje, with the merge of the contexts | `MCTojeWorld` |
| `TojeWorld_proofs` | theorems about `TojeWorld` | - |
| `TerraformTables`, `TerraformPasses` | which blocks join, hold or carry which; the passes both editions share | - |
| `Box360Passes`, `TojePasses` | the passes of one edition: an Xbox 360 chunk, a Bedrock chunk | - |
| `Lighting` | `toje/lighting/`, with the volumes it works on | - |
| `ChunkTerraform` | composes the five: a small world, chunk by chunk | `MCChunkTerraform` |
| `Enums` | the numbers both editions give to colours, facings, woods ... | - |
| `BlockToBedrock`, `BlockToJava`, `BlockTrip` | `tobe-block-data.cpp`; `toje-block-data.cpp`; what a trip keeps | `MCBlocks` |
| `ItemTables`, `ItemToBedrock`, `ItemToJava`, `ItemTrip` | `tobe-item.cpp`, `toje-item.cpp` and the enumerations they use; what a trip keeps | `MCItems` |
| `TileToBedrock`, `TileToJava` | `tobe-tile-entity.cpp`, `toje-block-entity.cpp` | `MCItems` |
| `EntityTables`, `EntityToBedrock`, `EntityToJava`, `EntityTrip` | `entity/`; `tobe-entity.cpp`; `toje-entity.cpp`; what a trip keeps | `MCEntities` |
| `Conversions` | composes them: a thing on its way to Bedrock and back, twice | `MCConversions` |

A comment `Mutant:` marks an operator that is no part of a specification: it is
a broken variant of the definition below it, and the property it is listed with
in `PROJECT.json` must fail when it takes that definition's place.

### Parallel

One action per statement another thread can come between: starting a thread,
one `compare_exchange_strong` of the scan (`Reduce`), the claim under `mut`
(`Map`), the return of `func`, the join under `joinMut`, the countdown, the
latch, the joins.  `at` is the loop variable `j`; `sum` and `total` count how
often each work's result went in, which determines every join the callers pass
up to order (`MergeBool`, `MergeVector`, `Status::Merge`, the two `mergeInto`).
`CountDown` and `ThreadExits` are apart because the caller may wake while a helper
is still inside `count_down`.  `ImplementsPool` maps a claim to `Start`, the
return of `func` to `Finish`, the return of the call to `Return`.

### Queue2d, Box360Terraform, TojeTerraform

`Queue2d` is a record; `NextPosition` is the scan of `next()` with its
tie-break, `Take` what it does to the queue.  `Box360Terraform` has one action per
step of the loop in `action`: reading the neighbourhood and opening the output
(which truncates the file: `"torn"`), writing, merging, unlocking, reporting.  Any file may turn
out absent, damaged or impossible to open, which `DoChunk` does not tell apart: the
chunk is passed over and counts as done (`unread`).
`TojeTerraform` does the same for regions: the queues of all dimensions are
polled in order under one mutex, a failed open leaves the region locked, and the
status ignores `ok`.  A row of chunks ends where the model likes (`ChunksEnd`),
since the code looks at `ok` after every row.

### ConcurrentDb and KvStore

A value is the number of its `put` and has size 1; `TableSize` stands for
`kMaxFileSize` and `PrefixCap` for the largest `u16`.  `Get` makes a thread's
writer, `PutWritten`, `PutFails` and `PutDropped` are `Writer::put`, `CloseWriters` the
first `Reduce` of `close()`, `ReadKeys`, `SkipPrefix`, `ReadKeysFails`, `OpenTable`,
`WriteTable` and `WriteTableFails` a run of `BuildTable` for one prefix, interleaved with
those of other prefixes, then the manifest and `CURRENT`.  No key is put twice: the
table is sorted by user keys alone, so that two values of one key have no defined order in
it, and `NoKeyPutTwice` of `TobeConverter` is what the caller owes.  `Content` reads the
committed database the way LevelDB does, and `ImplementsStore` says that this is
`KvStore`: `contents` grows by puts, `visible` changes once, from nothing to
everything, or never.  There is one exception, which the code makes: the result of writing
a table file is not looked at (`"table"`, `torn`).  `KvStore` therefore has a variable `lost`,
which grows without a word (`Lose`), and a commit shows all but that; `CommitIsComplete`,
that nothing is lost, is a theorem without this fault, and false with it.

### TobeConverter

Takes `Parallel` and `ConcurrentDb` at the promises the other runs establish
(`WorkPool`: each region once, at most `Concurrency` at a time; `KvStore` that loses nothing,
which is to say that every write to a table file succeeds).
`PrepareFails` and `Prepare` are `Run` up to the works; `TakeRegion` ... `ReturnRegion` are
`Region::Convert` and `Chunk::Convert` of one region; `DrainDim` ... `EntitiesReturn`
the loop over the dimensions with `PutWorldEntities`; `WriteLevel`, `Close` and
`AbandonDb` the end of `Run`.  A `WorldData` is the set of chunks drained into it and
its entity files `<<source chunk, chunk the entities stand in>>`.

### TojeWorld

The first pass of toje, seen from the entities, because they are what chunks hand to
one another.  `Take` claims a region; `ReadChunk` is `Chunk::Convert` up to its entities and
what it notes of them in the `Context` of the region; `SeatPassengers` is one turn of the loop of
`AttachPassengers`, which goes through a hash table, so that the vehicles of the chunk
come in any order; `FinishChunk` ties the leads whose knot the `Context` knows and inserts what
is left into the editor.  `WriteRegion`, `FailRegion`, `JoinTotal`, `NextDimension` and `Finish`
write the editor and join the `Context` to the sum of its thread, to the total and to
the conversion's own.  What `Context::mergeInto` does not carry is not carried here either.
The passengers in the tag of a vehicle are the places of its links that are filled
(`riders`): the code goes through them in the order of the places.  A world is a
member of `Worlds`: where each entity stands, who rides whom, where the knot is.

A vehicle that the player drives and that itself rides another one goes with the player or
stays in its seat, depending on the order of the hash table: `EntitiesKept` asks only
that it is in one place, and asks for the player's vehicle when it rides nothing.

### The passes over neighbours: TerraformPasses, Box360Passes, TojePasses, Lighting, ChunkTerraform

A world maps positions to blocks.  A pass is an operator that maps a world and the
positions of one chunk to a world; `DoChunk` (Xbox 360) and `Terraform` (Bedrock) are the
passes in the order of the code, each reading what those before it wrote, and the
chunks of a Bedrock world see the block entities of the two chunks only the cache has
loaded with them.  `ChunkTerraform` takes the chunks of a world in any order where the
code has threads, in the order of the rows where it has not, and measures leaves and
light the way `toje::Converter::Terraform` does.  `Lighting` has the window around a
chunk, the boxes light is spread in, the borders kept of earlier chunks and when they are
disposed of; `Diffuse` spreads until nothing changes, which is what the queue-less loop of
the code does level by level.

### The tables: Enums ... Conversions

A Java or Bedrock block is a record of a name and its properties; a name is a tuple of
the parts the tables take apart (`<<"oak", "slab">>`), so that a converter written for all
slabs is one definition here, too.  `From` is the table of a file, its converters have the
names they have there.  Items and block entities are records of the fields the converters read,
a missing field being a missing tag; texts, UUIDs and counts are small values of which the
tables tell apart what the model does (plain text, JSON, empty).  Items contain blocks
(`BlockEntityTag`), block entities contain items: the modules instantiate each other's
operators through constants.  An entity is a record of its fields,
its riders and the place of its leash among them; whom it obeys, trusts or hates is a name.
Where Bedrock keeps a value in a thousandth of a unit or a colour in an index, the numbers of
the source are used.

`BlockTrip`, `ItemTrip`, `EntityTrip`, `Conversions` (for block entities) state what a trip must keep: the comparisons
`CheckBlock`, `CheckItem`, `CheckTileEntity`, `CheckEntity` of `src/test/j2b2j.hpp`, less what the
neighbours decide, and name every loss there is (`Loses`, `LosesItem`, `LosesTiled`, `LosesEntity`).
The properties are equivalences: what is not named survives, and what is named is lost.

## Runs

| run | checks | bounds, and why they suffice |
|---|---|---|
| `parallel` | all properties of `Parallel`, refinement included | 3 works, 3 threads: two threads can chase one another in the scan while a third finds nothing; more works only lengthen the scan |
| `box360_terraform` | `NoTornRead`, `LocksAreHeld`, `NoStrandedChunk`, `OkMeansTerraformed`, `RewrittenOnce`, `StepsUsedUp`, `Termination` | 4 x 2 chunks, 2 workers, up to 2 files that cannot be read: the smallest grid where two squares fit side by side and most pairs exclude each other |
| `concurrentdb` | `LevelOneDisjoint`, `NoTableOverwritten`, `FailureSticks`, `ImplementsStore`, `Termination` | 2 threads, 4 puts of 4 distinct keys in 2 prefixes, tables of 2 values, a cap of 2: one prefix can pass the cap in one writer, fill one table and start another while the other prefix is built |
| `tobe` | `DigpMatchesActors`, `OkMeansRegionsComplete`, `OkMeansCommitted`, `NoKeyPutTwice`, `AbortStopsChunks`, `Termination` | 3 regions in 2 dimensions, 5 chunks, 3 actors of which one stands in a chunk of another region, every fault on: two files meet at one target chunk and a second dimension is drained after the first |
| `tobe_throw` | finds `OkMeansAllConverted` violated | only exceptions |
| `toje_terraform` | `OneWorkerPerRegion`, `AllTerraformed`, `WrittenOnce`, `StepsUsedUp`, `Termination` | 2 workers, 3 regions in a box of 4 and one region in another dimension, weights 1 and 2 |
| `toje_terraform_failure` | finds `OkMeansTerraformed` violated | failing open or chunk |
| `toje_world` | `EntitiesKept`: when `Run` answers ok each entity is in one place, in its seat, with the player, or tied to its knot | 2 workers, 4 chunks in 3 regions of 2 dimensions, 5 entities; every way a boat, its two passengers and a rider of a rider, who may be the player, can lie across those chunks, with cancellation and failures |
| `toje_passengers` | finds `PlayerStillRides` violated | no faults |
| `chunk_terraform` | `OrderIrrelevant`, `NeighboursAgree`, `LeavesAtShortestDistance`, `LightIsBrightest` | see below |
| `toje_chests` | finds `ChestsKeepItems` violated | double chests across two chunks |
| `conversions` | `BlockKept`, `ItemKept`, `TileKept`, `EntityKept`, `Settles` | every kind the tables have a converter for, in every combination of the properties its converters read together; values of which the code makes a number of cases occur once per case |

Two bounds on behaviours are no sizes of the instance: `MaxPuts` caps the put calls
of `ConcurrentDb` in the guard `Called` (and in `Get`, which precedes a put), and `MaxUnread` the
files that `Box360Terraform` cannot read, in the guard of that branch of `ReadChunk`; with all eight
unreadable no chunk would be written.

The worlds of `chunk_terraform` are rows, columns and squares of two to four blocks (ten for
what follows a line of leaves), cut at every place into one to three chunks of width 2, in every combination of the kinds
a pass tells apart; each pass reads at most the next block, or follows a column or a line
of one kind, so that a border in every position of such a row is every case there is.
For light the chunks are three blocks wide, a region is three chunks, a chunk is
three blocks high, and full light is 3 instead of 15: `LightStaysNear` states what matters,
that light comes no further than to the next chunk (14 of 16 in the code).  What a block
gives off is cut down by 12 with it.

Deadlock is checked in every run except `conversions`, `chunk_terraform` and `toje_chests`: a
trip ends after four legs and a world when all its chunks are done, and those
specifications have no step for it.

**Fairness.** `Parallel` assumes weak fairness of each thread's next step and of the
caller's: the operating system runs every runnable thread, and `func` returns.
`Box360Terraform`, `TojeTerraform`, `ConcurrentDb` and `TobeConverter` only assume
`WF_vars(Next)`, some thread that can run is run, because none of their loops can turn
for ever without using up chunks, regions, keys or puts (proved for the first two, `StepsRunOut`).  No strong fairness is needed: no
thread waits for a lock across a step of another.  `TojeWorld`, `ChunkTerraform` and
`Conversions` assume none: that the regions of toje are all converted is `Termination` of `Parallel`.

## What the runs show

The pool, the locking and the commit hold up under every interleaving and fault
of the instances.  So do the passes over neighbours and the light: no chunk
border, region border or order shows in the result, although half of a neighbourhood is
rewritten when it is read, and the windows, boxes and kept borders of the light lose
none of it.  Of the blocks, items, block entities and entities the large majority survive.

Four statements of the repository do not hold of the code (`findings` in `PROJECT.json`):

1. `toje-converter.cpp:351` - `Terraform` returns `Ok` although a worker cleared `ok`;
   region files are missing, and the caller deletes the temporary directories.
2. `tobe-region.cpp:57` - the error of a chunk that threw is recorded in an object
   that is dropped, `fError` is never set, and `Run` commits and returns `Ok` without
   the aborted regions.
3. `terraform/bedrock/_block-accessor-bedrock.hpp:57` - a double chest across two chunks,
   whose halves have to swap their items, loses items: the cache has loaded the other chunk
   without its block entities.  A moving piston whose body lies in such a chunk
   is not made to move, for the same reason.
4. `toje-context.cpp:243` - `mergeInto` carries no vehicles, so that one the player
   shares with an entity of another chunk is written nowhere.

Two failures are passed over in silence, which the models include and the properties state:

* `db/_concurrent-db.hpp:748-751` - whether a table file was written is not looked at; after
  a failure it has no footer and cannot be read, and `close()` lists it and returns true.
  `ImplementsStore` allows the values of such a table to be lost (`lost`), and nothing else.
* `box360-terraform.cpp:133` - a chunk file that cannot be read counts as done, so that `Ok`
  does not mean that every chunk was rewritten.  `OkMeansTerraformed` says what it means.

### Losses of a trip

The operators `Loses...` are the list; the ones that surprise:

* blocks: a misspelt property, `restone_signal` (`toje-block-data.cpp:1496`);
  `birch_wall_hanging_sign` plays snare and `tube_coral_block` plays harp under a note block,
  unstripped hyphae hold no leaves, three Xbox 360 chests in a row become left, left, right;
* items: a custom name or a book page that reads as JSON; all but the first
  projectile of a crossbow and the first effect of a stew; the wood of a sign with a tag
  (`toje-item.cpp:61`); a block item with any tag gains a `BlockEntityTag` (`:79`); unknown
  enchantments become protection; colours of fireworks that are no dye; the adult in an axolotl bucket;
* block entities: bees, on the second trip (`toje-block-entity.cpp:114`); the slots of a campfire;
  loot tables of anything but chests; the target of a conduit, the owner of a skull, most of a
  structure block, what a command block did last, sign lines that are no plain text;
* entities: all but the name of a block that falls or that an enderman carries, so that an anvil
  turns to the south and mycelium loses its snow (`tobe-entity.cpp:865`, `:895`); leads of iron and snow golems and zoglins, health above the maximum of a table (a llama of
  more than 27), love (`InLove` is written as a bool and read as a number), a baby
  husk or zombie villager grows up, what is worn without a chest by beasts that may carry one,
  passengers of passengers and leads of passengers.

## What is proved

`Parallel_proofs` proves, for every number of works and helpers and from the
assumptions of `Parallel` only (`NWorks \in Nat`, a finite set of helpers that does
not contain the caller, `NoResult` not a number):

* `TypeCorrect`, `AtMostOnceHolds`, `ResultsConservedHolds`, `CompleteOnReturnHolds`,
  `NoUseAfterReturnHolds`: the five invariants of the run;
* `RefinesPool`: `SafeSpec => Pool!SafeSpec`.

All rest on `Invariance: SafeSpec => []IInv`.  None of the properties is inductive.
`CompleteOnReturn` needs to know that a thread only stops scanning when every flag
it passed is set (`ScanInv`), that a set flag is a running or a finished work of
exactly one thread (`ClaimInv`), that each finished work is in exactly one sum that
is still pending or in the total (`SumInv`), that `Map` wrote its slot (`OutInv`), that the
latch counts exactly the threads before their countdown (`LatchInv`), and which
places are possible before and after the latch opens (`PlaceInv`).  `IInv` is their
conjunction with the types; each conjunct has its lemma `Next...`, one step per
action.  `StepShape` says once that a step either leaves the flags alone or claims
one work, and the lemmas about flags use only that.

`Box360Terraform_proofs` proves, for every grid of positive size, every non-empty finite set
of workers, any number of files that cannot be read, and from the assumptions of
`Box360Terraform` only:

* `LocksAreHeldHolds`, `NoTornReadHolds`, `NoStrandedChunkHolds`, `OkMeansTerraformedHolds`: the
  invariants of the run, and `TypeCorrect`;
* `RewrittenOnceHolds`, `StepsUsedUpHolds`: the action properties of the run;
* `StepsRunOut`: a natural number, `StepsRemaining`, goes down with every step.

The heart of the argument is `LockInv`: the squares around the chunks being worked on
are disjoint, they are locked, and while no worker has failed every lock lies in one of
them.  `Take` keeps it because `next()` hands out only a chunk whose whole square is
unlocked (`NextIsAvailable`, `TakeEffect`); unlocking keeps it because it removes one
square and no other square meets it (`UnlockEffect`).  The other parts say what the squares
protect: a holder's chunk was handed out and could be read when it is written
(`PlaceInv`, `UnreadInv`); only what was handed out is rewritten, and a reader's chunk
is not rewritten yet (`FileInv`); while `ok` is set, what was handed out is in
somebody's hands or complete (`WorkInv`); and chunks are left over only while some worker
is left (`StayInv`: a worker that leaves with chunks left over saw a lock, and by
`LockInv` somebody else holds it).  `ResultInv` carries this over the join.  The weights
of the queue play no part: the theorems hold for any choice among the available chunks.

`StepsUsedUp` is the half of `Termination` that does not need fairness.  What may still happen is
a set: for each chunk its hand-out and the turns of whoever works on it, for each worker without
a chunk its last look at the queue and its end, and the return of `Do`.  Each step takes something
out of this set and none puts anything back; the set is finite, its size is a natural number that
goes down with every step (`StepsRunOut`), so the pass cannot go on for ever, however the
workers are scheduled.  `TurnInv` adds what this needs: no
two workers were last handed the same chunk, so nobody else gives back the turns one has used up.

`TojeTerraform_proofs` proves, for finitely many dimensions with finitely many regions in each and any
non-empty finite set of workers:

* `OneWorkerPerRegionHolds`, `AllTerraformedHolds`: the invariants of the run;
* `WrittenOnceHolds`, `StepsUsedUpHolds`: the action properties of the run;
* `StepsRunOut`, for finitely many dimensions.

The argument is that of `Box360Terraform` with one position instead of a square, over a
queue per dimension.  `LockInv` is `OneWorkerPerRegion` itself; it is inductive only beside
`PlaceInv` (what a worker holds was handed out by the queue it names) and the types, which
say that the cells of a grid outside the dimension's regions count as done from the start,
so that `next()` never hands one out.  `FileInv` and `WorkInv` relate the files to the queues;
`StayInv` says that while nothing failed and regions are left over some worker is there,
because whoever leaves has found no free region in any queue.  `StepsUsedUp` counts the chunks of a
region besides: a worker has as many turns left on it as it has chunks to rewrite.

`TobeConverter_proofs` proves, for every world (dimensions, regions, chunks, actors and where
each of them is held and stands) and every set of faults:

* `DigpMatchesActorsHolds`, `OkMeansRegionsCompleteHolds`, `OkMeansCommittedHolds`,
  `NoKeyPutTwiceHolds`: the invariants of the run, and `TypeCorrect`;
* `AbortStopsChunksHolds`: the action property of the run.

It needs two facts about a world, which `TobeConverter` states as assumptions:
`ChunksAssumption`, a chunk is in one region at one index (a region's chunks are the cells of
its own 32 x 32 square), and `PlacesAssumption`, an entity stands in the dimension of the chunk
that holds it (chunk conversion never moves an entity to another dimension).
`MissingAssumption` only keeps the mark of an absent key apart from the values.  What has to
be carried is who owns a key: a chunk is put only by its region, which is behind it
(`ChunkInv`); what is behind a region is in its `WorldData`, then in that of its dimension
(`SumInv`), and names only chunks of that dimension (`FileInv`); an actor or a digp is put
only when the dimension of its chunk is drained (`ActorInv`) and waits in at most
one place until then (`LeftInv`).  `OnceInv` follows from these alone, and `DigpInv`, `DrainInv` and
`CommitInv` turn them into what the committed database holds.

`ConcurrentDb_proofs` proves, for every finite set of threads and keys, every `TableSize`,
`PrefixCap`, `Concurrency` and bound on calls, and every set of faults:

* `LevelOneDisjointHolds`, `NoTableOverwrittenHolds`, `FailureSticksHolds`;
* `StoreRefined: SafeSpec => ImplementsStore`, that is the whole of `KvStore`'s
  specification, which is a safety property;
* `CommitIsCompleteHolds`: when `"table"` is not among the faults, what is committed is complete,
  whatever else fails.  The assumption is needed: with this fault TLC finds a commit without the
  values of a table.

The hard part of the refinement is a value that is lost where nobody looks: a flush that
fails unnoticed takes the end of a file with it, and the database must then not be committed.
`CountInv` says that an open writer counts, up to the cap, the keys of each prefix in its
files; `LossInv` that after `close` a key that was put and is not in the files belongs to a prefix
whose builder will find fewer keys than were counted.  (Above the cap it asks for as
many entries as the writer was given, and meets the end of the file before.)
From there, `CoverInv` says that while `ok` is set each key put is in a table or in what is left to
be written; `SourceInv` that tables and what is left come from the files, with the value put;
`FileInv` that a key is in one place; `OrderInv` that the tables of a prefix and what is left of it
ascend.  Tables of different prefixes are apart because a key names its prefix.  `StageInv`
is what `NoTableOverwritten` needs: a number is drawn once and not used before.
`FailureSticks` needs no invariant.  At the commit `CoverInv` and `OrderInv` give that the content of the
listed tables is `contents` less what is torn, and before and after it the content does not change.
`TornInv` says that only tables that were written are torn, so that a number drawn later is whole.

`TojeWorld_proofs` proves, for every world, every layout of dimensions, regions and chunks, every
non-empty set of workers and every set of faults:

* `EntitiesKeptHolds`: the invariant of the run, that is `OnePlace`, `SeatsKept`,
  `PlayerComplete` and `LeadsTied` together.

Its assumptions are those of `TojeWorld`.  `DimsAssumption`: there is a dimension, a region has a
chunk, and a chunk is in one region once, which is how `Context::Init` fills its tables.
`WorldsAssumption`: an entity stands in one chunk, and who rides rides one vehicle, in one seat, and
not itself, which is how the game writes `LinksTag`.  `NamesAssumption` only keeps the
player, `None` and the entities apart.

`EntitiesKept` speaks of the end; the induction needs to know where everything is on the way.
A chunk is *past* when its region is claimed and its worker, if it is still at it, is behind
the chunk; it is *current* between `ReadChunk` and `FinishChunk`.  `TypeInv`, `OwnInv` (workers
are in different regions, and inside them) and `PhaseInv` (who has left saw every region
claimed) hold always.  The rest holds as long as no region has failed, `Good`, and the proof of a
step may assume it of the state before, because no step repairs a failure (`GoodBefore`):

* `CurrentInv` is the invariant of the loop over the vehicles: one that was visited has exactly its
  passengers from the chunk, one that was not has none, and an entity is in the chunk exactly
  if nobody has taken it and the player does not hold it;
* `PastInv` and `FileInv` say what that loop leaves of a past chunk, and that precisely
  what is neither seated nor driven is in a file or in an editor that will be written;
* `RootInv`, `ShoulderInv`, `KnotInv` and `LeadInv` say that what one chunk could not settle is in one
  of the `Context`s still to be merged (`Pending`: those of the regions, the sums of the
  threads, the total), and that no two of them disagree, so that the order of the merges does
  not matter; the conversion's own has what earlier dimensions left;
* `EndInv` carries the last merge into `level.dat`.

Every action that touches a `Context` has a lemma that says what becomes of each part (`ReadKeeps`,
`SeatKeeps`, `FinishChunkKeeps`, `WriteKeeps`, `JoinKeeps`, `DimensionKeeps`, `FinishKeeps`); a merge
takes a pending `Context` out and puts its contents into another.  At the end `AllPast` makes every chunk
past and leaves nothing pending but the total.

`Termination` and the fairness part of `ImplementsPool` apart, every property that the passing
runs of these six modules check is a theorem.
The inductive invariants were model-checked on the instances of the runs before they were proved.

Only model-checked:

* liveness: `Termination` in every module, and the fairness part of `ImplementsPool`; the prover
  does not reason about ENABLED, on which fairness rests.  For the two passes that rewrite files
  `StepsRunOut` leaves to TLC only that they never get stuck before
  they return, which is the absence of deadlock;
* `BlockKept`, `ItemKept`, `TileKept`, `EntityKept`, `Settles` of `Conversions`: they are about
  finite tables, and a proof would be an evaluation of them; the text of items and the
  depth of riders are recursive;
* `OrderIrrelevant`, `NeighboursAgree`, `LeavesAtShortestDistance`, `LightIsBrightest` of
  `ChunkTerraform`: they hold of the worlds an edition can produce and not of every
  assignment of blocks, and the distances are least fixed points, which need an induction over
  paths.

## Abstractions

* Builds with assertions off: an `assert` is not a step.
* What a file operation does when it fails is a choice; `fclose` may lose the last
  entry of a file (`"flush"`), a table file may miss its end (`"table"`).  A failing `Close` of
  the manifest or `CURRENT` is not among the faults; the code drops those results as well.
* A double `fclose` leads to the phase `crashed`, from which nothing is readable.
* `concurrency` is at least 1.
* In `TobeConverter` every actor has a `UniqueID` and can be serialized; the code skips one without
  (`tobe-world.cpp:57`), and lists one it cannot serialize without a value (`:66`).
* `TojeWorld` loads every chunk the database lists; the code skips one that does not load, without a
  word (`toje-region.cpp:70-73`).
* In `ChunkTerraform` a chunk sees the block entities of itself and of the chunk west of it (`Loaded`);
  the code makes a fresh cache for each row of a region (`toje-region.cpp:51`), so that the first chunk
  of such a row does not see those of the chunk west of it, which is in another region.
* Weights of `Queue2d` are integers; the code adds floats that hold integers.
* The limit on the threads of `PutWorldEntities` is not modelled: works of any number
  of chunks interleave, which includes every schedule of the code.
* Keys other than chunks, actors and actor lists are one key `level` and one `player`.
* Whether what is inserted into a `McaEditor` that is never written back reaches the file
  (`World::Convert` ties leads across chunks that way) depends on a library: both are tried
  (`reaches`).
* Commands are an edition and one of a few pairs of equivalents; a text is plain, JSON, quoted,
  coloured or empty.
* The tables are those of the newest data version; what is read only from older versions of
  a save is left out.

## Not modelled

* box360 `World` and `Converter`: a pipeline like that of tobe without its stages; what
  its threads share is in `Box360Terraform` and `Parallel`.  The tables from Xbox 360
  ids go one way only, so that there is nothing to compare them with.
* `AsyncIterator`, `Context::Init`: they list the keys of a LevelDB by prefix, through
  iterators that belong to a library.
* `Volume::Connect`, portals, moving pistons on the way to Bedrock: one thread, values of its own.
* `postProcess`, maps, points of interest, structures, biomes, ticks; `UuidRegistrar`.
* Of entities the inventory of the player (`LocalPlayer`), effects, motion, and the definitions
  of Bedrock that toje does not read, which no comparison of the repository looks at.
* Sub-chunks (bit packing of palettes), STFS, LZX, zip, NBT: formats, where a state is
  a position in a file.
* Level data, datapacks, the text of commands: field by field copies and rewriting of strings.

## Plan

Done: the pool, the terraform passes, the database, the tobe pipeline; the tables with their
trips; the transforms, lighting, the toje pipeline; the safety of the first four and of the toje
pipeline, proved.  Left, in this order:

1. Proofs: what `Queue2d` promises to both passes, as theorems of its operators.
2. `Box360World`: the three dimensions, `ProcessChunk`, terraform, concat; composed with
   `Box360Terraform`.
3. Portals and `Volume::Connect`, against reference definitions over bounded inputs.
