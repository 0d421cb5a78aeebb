----------------------------- MODULE TojeWorld -----------------------------
(***************************************************************************)
(* The first pass of the Bedrock to Java conversion, seen from its         *)
(* entities: toje-converter.cpp (Run), toje-world.cpp, toje-region.cpp,    *)
(* toje-chunk.cpp (entities) and toje-context.cpp.  The dimensions follow  *)
(* each other; in each, Parallel::Reduce hands its regions to the workers. *)
(* A region is converted chunk by chunk in a Context of its own, which is  *)
(* joined to the sum of its worker, the sums to the total, and the total   *)
(* to the Context of the whole conversion.  A Context carries what one     *)
(* chunk cannot settle: leashes, knots, vehicles, the player's vehicle.    *)
(***************************************************************************)
EXTENDS Integers, FiniteSets, Sequences, Functions

CONSTANTS
  Workers,              \* the threads of Parallel::Reduce, the caller included
  Dims,                 \* the dimensions, in order: each a sequence of regions,
                        \* each a sequence of its chunks in order of conversion
  Entities,             \* the entities of the world
  Player,               \* the local player, who is no entity of a chunk
  Worlds,               \* the worlds to convert, see WorldsAssumption
  Faults,               \* "cancel", "region", "attach", "terraform"
  None

Chunks == UNION {UNION {Range(Dims[d][r]) : r \in DOMAIN Dims[d]} : d \in DOMAIN Dims}

ASSUME WorkersAssumption == Workers # {}

\* Context::Init lists a region when it meets its first chunk, and a chunk once.
ASSUME DimsAssumption ==
  /\ Dims \in Seq(Seq(Seq(Chunks) \ {<<>>})) /\ Dims # <<>>
  /\ \A d, e \in DOMAIN Dims : \A q \in DOMAIN Dims[d], r \in DOMAIN Dims[e] :
       \A i \in DOMAIN Dims[d][q], j \in DOMAIN Dims[e][r] :
         Dims[d][q][i] = Dims[e][r][j] => d = e /\ q = r /\ i = j

ASSUME NamesAssumption ==
  /\ Player \notin Entities
  /\ None \notin Entities \cup {"ok", "error"}

ASSUME FaultsAssumption == Faults \subseteq {"cancel", "region", "attach", "terraform"}

\* A world: the chunk of each entity, its passengers (LinksTag), the entities a
\* lead ties to the knot, the chunk of the knot, the entity on the player's
\* shoulder, and whether what is inserted into a McaEditor reaches the file of
\* one that is never written (it belongs to a library).  Who rides, rides
\* once, and not itself.
ASSUME WorldsAssumption ==
  \A v \in Worlds : /\ v.at \in [Entities -> Chunks]
                    /\ v.links \in [Entities -> Seq(Entities \cup {Player})]
                    /\ \A a, b \in Entities : \A i \in DOMAIN v.links[a], j \in DOMAIN v.links[b] :
                         v.links[a][i] = v.links[b][j] => a = b /\ i = j
                    /\ \A a \in Entities : \A i \in DOMAIN v.links[a] : v.links[a][i] # a
                    /\ v.leashed \subseteq Entities
                    /\ v.knot \in Chunks
                    /\ v.shoulder \in Entities \cup {None}
                    /\ v.reaches \in BOOLEAN

VARIABLES
  world,                \* the world that is converted
  dim,                  \* the dimension World::Convert is in
  claimed,              \* the regions of it a worker has claimed
  pc,                   \* where each worker is
  region,               \* the region it converts
  at,                   \* the chunk of the region it is at
  here,                 \* the entities of that chunk, by UUID
  visits,               \* the vehicles AttachPassengers has not visited
  editor,               \* the entities inserted into the editor of its region
  ctx,                  \* the Context of its region
  sum,                  \* what it has joined so far
  total,                \* what Reduce returns
  bin,                  \* the Context of the conversion
  ok,                   \* the shared flag of World::Convert
  cancelled,            \* cancelRequested
  riders,               \* the Passengers of the tag of each entity, as the set of
                        \* their places in its links: the list is in that order
  tie,                  \* what the Leash of the tag of each entity holds
  file,                 \* the entities in the region files: <<chunk, entity>>
  player,               \* what level.dat's player holds: vehicle, shoulder
  result                \* what Run returns

chunkVars == <<here, visits>>
dimVars == <<world, dim, claimed, total, bin>>
endVars == <<file, player, result>>

vars == <<dimVars, pc, region, at, chunkVars, editor, ctx, sum, ok, cancelled,
          riders, tie, endVars>>

-----------------------------------------------------------------------------
(* Context *)

Blank == [leashed |-> {}, knots |-> {}, vehicles |-> <<>>, root |-> None,
          held |-> FALSE, shoulder |-> None]

\* A new Context knows the root vehicle of its parent and nothing else.
Make(parent) == [Blank EXCEPT !.root = parent.root, !.held = parent.held]

\* Mutant: the knots of the region are left behind.
MergeButKnots(from, to) ==
  [to EXCEPT !.leashed = @ \cup from.leashed,
             !.root = IF @ = None THEN from.root ELSE @,
             !.held = IF to.root = None THEN from.held ELSE @,
             !.shoulder = IF @ = None THEN from.shoulder ELSE @]

\* The vehicles are not merged.
MergeInto(from, to) ==
  [to EXCEPT !.leashed = @ \cup from.leashed,
             !.knots = @ \cup from.knots,
             !.root = IF @ = None THEN from.root ELSE @,
             !.held = IF to.root = None THEN from.held ELSE @,
             !.shoulder = IF @ = None THEN from.shoulder ELSE @]

DrainRootVehicle(c) == IF c.held THEN c.root ELSE None

-----------------------------------------------------------------------------
(* Chunk::Convert, the entities *)

Came(c) == {e \in Entities : world.at[e] = c} \ {world.shoulder}
Links(e) == world.links[e]
Carries(e) == Range(Links(e))

\* The shoulder entity stays out of the chunk and goes with the player.
Shouldered(c) == world.shoulder \in Entities /\ world.at[world.shoulder] = c

\* Entity::From for every entity of the chunk: the one on the shoulder is kept
\* for the player, a vehicle and a leashed entity are noted, the vehicle of the
\* player becomes the root vehicle; then the leash knots.
Read(x, c) ==
  LET cars == {e \in Came(c) : Links(e) # <<>>}
      mine == {e \in Came(c) : Player \in Carries(e)}
  IN  [x EXCEPT
        !.shoulder = IF Shouldered(c) THEN world.shoulder ELSE @,
        !.leashed = @ \cup (Came(c) \cap world.leashed),
        !.knots = IF world.knot = c THEN @ \cup {c} ELSE @,
        !.vehicles = [e \in cars \cup DOMAIN x.vehicles |->
                        IF e \in cars THEN DOMAIN Links(e) ELSE x.vehicles[e]],
        !.root = IF mine = {} THEN @ ELSE CHOOSE e \in mine : TRUE,
        !.held = mine = {} /\ @]

-----------------------------------------------------------------------------
Init ==
  /\ world \in Worlds
  /\ dim = 1
  /\ claimed = {}
  /\ pc = [w \in Workers |-> "take"]
  /\ region = [w \in Workers |-> 1]
  /\ at = [w \in Workers |-> 1]
  /\ here = [w \in Workers |-> {}]
  /\ visits = [w \in Workers |-> {}]
  /\ editor = [w \in Workers |-> {}]
  /\ ctx = [w \in Workers |-> Blank]
  /\ sum = [w \in Workers |-> Blank]
  /\ total = Blank
  /\ bin = Blank
  /\ ok = TRUE
  /\ cancelled = FALSE
  /\ riders = [e \in Entities |-> {}]
  /\ tie = [e \in Entities |-> IF e \in world.leashed THEN "uuid" ELSE "none"]
  /\ file = {}
  /\ player = [vehicle |-> None, shoulder |-> None]
  /\ result = None

Goto(w, label) == pc' = [pc EXCEPT ![w] = label]
Join(w, c) == sum' = [sum EXCEPT ![w] = MergeInto(c, @)]
Unclaimed == DOMAIN Dims[dim] \ claimed

-----------------------------------------------------------------------------
(* The work of a region *)

\* compare_exchange on the flag of the first region nobody has claimed; once a
\* region has failed the others are passed over.
Take(w) ==
  /\ result = None
  /\ pc[w] = "take"
  /\ \E r \in Unclaimed :
       /\ \A q \in Unclaimed : r <= q
       /\ claimed' = claimed \cup {r}
       /\ region' = [region EXCEPT ![w] = r]
  /\ IF ok THEN Goto(w, "convert") /\ UNCHANGED sum
     ELSE Join(w, Make(bin)) /\ UNCHANGED pc
  /\ at' = [at EXCEPT ![w] = 1]
  /\ ctx' = [ctx EXCEPT ![w] = Make(bin)]
  /\ editor' = [editor EXCEPT ![w] = {}]
  /\ UNCHANGED <<world, dim, total, bin, chunkVars, ok, cancelled, riders, tie, endVars>>

RegionChunks(w) == Dims[dim][region[w]]
Chunk(w) == RegionChunks(w)[at[w]]

\* Chunk::Convert up to the entities: each is converted and noted.
ReadChunk(w) ==
  /\ pc[w] = "convert"
  /\ here' = [here EXCEPT ![w] = Came(Chunk(w))]
  /\ LET x == Read(ctx[w], Chunk(w))
     IN  /\ ctx' = [ctx EXCEPT ![w] = x]
         /\ visits' = [visits EXCEPT ![w] = DOMAIN x.vehicles]
  /\ Goto(w, "attach")
  /\ UNCHANGED <<dimVars, region, at, editor, sum, ok, cancelled, riders, tie, endVars>>

\* The places of v whose passenger stands in the chunk, and those without one.
Boards(w, v) == {i \in ctx[w].vehicles[v] : Links(v)[i] \in here[w]}
Waits(w, v) ==
  {i \in ctx[w].vehicles[v] : Links(v)[i] # Player /\ Links(v)[i] \notin here[w]}

\* One turn of the loop of AttachPassengers over the vehicles, a hash table: the
\* passengers of the same chunk move from the chunk to the vehicle; a root
\* vehicle that has them all is kept for the player.  A vehicle that is no
\* longer in the chunk is passed over.
SeatPassengers(w, v) ==
  /\ pc[w] = "attach"
  /\ v \in visits[w] \cap here[w]
  /\ visits' = [visits EXCEPT ![w] = @ \ {v}]
  /\ riders' = [riders EXCEPT ![v] = @ \cup Boards(w, v)]
  /\ LET mine == Waits(w, v) = {} /\ ctx[w].root = v
     IN  /\ here' = [here EXCEPT ![w] =
                       @ \ (Carries(v) \cup (IF mine THEN {v} ELSE {}))]
         /\ ctx' = [ctx EXCEPT ![w].vehicles =
                       IF Waits(w, v) = {} THEN Restrict(@, DOMAIN @ \ {v})
                       ELSE [@ EXCEPT ![v] = Waits(w, v)],
                     ![w].held = @ \/ mine]
  /\ UNCHANGED <<dimVars, pc, region, at, editor, sum, ok, cancelled, tie, endVars>>

\* AttachLeash: the leashed entities of the chunk whose knot is known.
Tied(w) == {e \in ctx[w].leashed \cap here[w] : world.knot \in ctx[w].knots}

\* The leads of the chunk, then its entities are inserted into the editor of the
\* region, all but the root vehicle; then progress may ask to stop.
FinishChunk(w) ==
  /\ pc[w] = "attach"
  /\ visits[w] \cap here[w] = {}
  /\ tie' = [e \in Entities |-> IF e \in Tied(w) THEN "knot" ELSE tie[e]]
  /\ ctx' = [ctx EXCEPT ![w].leashed = @ \ Tied(w)]
  /\ editor' = [editor EXCEPT ![w] = @ \cup ({Chunk(w)} \X (here[w] \ {ctx[w].root}))]
  /\ at' = [at EXCEPT ![w] = @ + 1]
  /\ here' = [here EXCEPT ![w] = {}]
  /\ visits' = [visits EXCEPT ![w] = {}]
  /\ \/ /\ Goto(w, IF at[w] = Len(RegionChunks(w)) THEN "write" ELSE "convert")
        /\ UNCHANGED cancelled
     \/ /\ "cancel" \in Faults
        /\ Goto(w, "fail")
        /\ cancelled' = TRUE
  /\ UNCHANGED <<dimVars, region, sum, ok, riders, endVars>>

\* The editor is written and the Context joined to the sum of the worker.
WriteRegion(w) ==
  /\ pc[w] = "write"
  /\ \/ /\ file' = file \cup editor[w]
        /\ Join(w, ctx[w])
        /\ Goto(w, "take")
     \/ /\ "region" \in Faults
        /\ Goto(w, "fail")
        /\ UNCHANGED <<file, sum>>
  /\ UNCHANGED <<dimVars, region, at, chunkVars, editor, ctx, ok, cancelled,
                 riders, tie, player, result>>

\* Region::Convert has returned nothing.
FailRegion(w) ==
  /\ pc[w] = "fail"
  /\ ok' = FALSE
  /\ Join(w, Make(bin))
  /\ Goto(w, "take")
  /\ UNCHANGED <<dimVars, region, at, chunkVars, editor, ctx, cancelled,
                 riders, tie, endVars>>

\* No region is left: the sum is joined to the total under joinMut.
JoinTotal(w) ==
  /\ pc[w] = "take"
  /\ Unclaimed = {}
  /\ total' = MergeInto(sum[w], total)
  /\ Goto(w, "left")
  /\ UNCHANGED <<world, dim, claimed, bin, region, at, chunkVars, editor, ctx, sum,
                 ok, cancelled, riders, tie, endVars>>

-----------------------------------------------------------------------------
(* After Parallel::Reduce *)

AllLeft == \A w \in Workers : pc[w] = "left"

\* The leashed entities that stand in a chunk of the dimension, with a knot in
\* any chunk of it.  The total has no vehicles, so no passenger is attached.
TiedAcross ==
  {e \in total.leashed : world.knot \in total.knots /\ <<world.at[e], e>> \in file
                           /\ world.reaches}

\* World::Convert returns an error, or could not edit a region file.
StopWorld ==
  /\ result = None
  /\ AllLeft
  /\ cancelled \/ ~ok \/ ("attach" \in Faults /\ total.leashed # {})
  /\ result' = "error"
  /\ UNCHANGED <<dimVars, pc, region, at, chunkVars, editor, ctx, sum, ok, cancelled,
                 riders, tie, file, player>>

\* World::Convert returns and its Context is merged; the next dimension begins.
NextDimension ==
  /\ result = None
  /\ AllLeft
  /\ ~cancelled /\ ok
  /\ dim < Len(Dims)
  /\ tie' = [e \in Entities |-> IF e \in TiedAcross THEN "knot" ELSE tie[e]]
  /\ bin' = MergeInto(total, bin)
  /\ dim' = dim + 1
  /\ claimed' = {}
  /\ pc' = [w \in Workers |-> "take"]
  /\ sum' = [w \in Workers |-> Make(bin')]
  /\ total' = Make(bin')
  /\ UNCHANGED <<world, region, at, chunkVars, editor, ctx, ok, cancelled, riders, endVars>>

\* After the last dimension: Terraform, which may fail, then what the Context
\* has for the player goes into level.dat.
Finish ==
  /\ result = None
  /\ AllLeft
  /\ ~cancelled /\ ok
  /\ dim = Len(Dims)
  /\ tie' = [e \in Entities |-> IF e \in TiedAcross THEN "knot" ELSE tie[e]]
  /\ bin' = MergeInto(total, bin)
  /\ \/ /\ result' = "ok"
        /\ player' = [vehicle |-> DrainRootVehicle(bin'), shoulder |-> bin'.shoulder]
     \/ /\ "terraform" \in Faults
        /\ result' = "error"
        /\ UNCHANGED player
  /\ UNCHANGED <<world, dim, claimed, total, pc, region, at, chunkVars, editor, ctx, sum,
                 ok, cancelled, riders, file>>

Done == result # None /\ UNCHANGED vars

Next ==
  \/ \E w \in Workers :
       \/ Take(w)
       \/ ReadChunk(w)
       \/ \E v \in Entities : SeatPassengers(w, v)
       \/ FinishChunk(w)
       \/ WriteRegion(w)
       \/ FailRegion(w)
       \/ JoinTotal(w)
  \/ StopWorld
  \/ NextDimension
  \/ Finish
  \/ Done

Spec == Init /\ [][Next]_vars

-----------------------------------------------------------------------------
(* Properties *)

Places(e) ==
  {<<"chunk", p[1]>> : p \in {q \in file : q[2] = e}}
    \cup {<<"rides", v>> : v \in {u \in Entities : \E i \in riders[u] : Links(u)[i] = e}}
    \cup (IF player.vehicle = e THEN {<<"carries", Player>>} ELSE {})
    \cup (IF player.shoulder = e THEN {<<"sits on", Player>>} ELSE {})

Together(v, p) == p # world.shoulder /\ v # world.shoulder /\ world.at[p] = world.at[v]
DrivenByPlayer(v) == v # world.shoulder /\ Player \in Carries(v)
InOneChunk(v) == \A p \in Carries(v) \ {Player} : Together(v, p)
Passenger(e) == \E v \in Entities : e \in Carries(v) /\ Together(v, e)

\* No entity is lost or doubled, and none moves to another chunk: it is left in
\* its own, or rides the vehicle that listed it, or went to the player.  Only a
\* vehicle the player shares with an entity of another chunk is missing.
OnePlace ==
  \A e \in Entities :
    \/ /\ Cardinality(Places(e)) = 1
       /\ Places(e) \subseteq {<<"chunk", world.at[e]>>, <<"carries", Player>>, <<"sits on", Player>>}
                                 \cup {<<"rides", v>> : v \in {u \in Entities : e \in Carries(u)}}
    \/ DrivenByPlayer(e) /\ ~InOneChunk(e) /\ Places(e) = {}

\* The passengers of its chunk ride a vehicle in the places the vehicle lists,
\* whatever the order of the hash table, when the vehicle itself rides nothing.
\* Only one that is the player's vehicle may have gone with the player instead.
SeatsKept ==
  \A v \in Entities \ {world.shoulder} :
    ~Passenger(v) =>
      riders[v] = {i \in DOMAIN Links(v) :
                     LET p == Links(v)[i]
                     IN  p # Player /\ Together(v, p) /\ p # player.vehicle}

\* The player's vehicle goes with the player from whatever dimension, region and
\* worker, and the entity on the shoulder too.
PlayerComplete ==
  /\ \A v \in Entities : DrivenByPlayer(v) /\ InOneChunk(v) /\ ~Passenger(v) => player.vehicle = v
  /\ player.shoulder = world.shoulder

\* The dimension and the region of a chunk, and its turn in the region.
RegionOf(c) == CHOOSE p \in UNION {{d} \X DOMAIN Dims[d] : d \in DOMAIN Dims} :
                 c \in Range(Dims[p[1]][p[2]])
Turn(c) == CHOOSE i \in DOMAIN Dims[RegionOf(c)[1]][RegionOf(c)[2]] :
             Dims[RegionOf(c)[1]][RegionOf(c)[2]][i] = c

\* A lead ends at its knot when both are in one dimension: within a region if the
\* knot's chunk is not converted later, else if the edited file is kept.
LeadsTied ==
  \A e \in world.leashed \ {world.shoulder} :
    LET k == RegionOf(world.knot)
        r == RegionOf(world.at[e])
    IN  ~Passenger(e) /\ ~DrivenByPlayer(e) /\ k[1] = r[1] =>
          (tie[e] = "knot" <=> \/ world.reaches
                               \/ k = r /\ Turn(world.knot) <= Turn(world.at[e]))

\* Run has answered ok: every entity of the world is where it belongs, in the
\* right seat, once, and tied, whichever worker converted which region when.
EntitiesKept ==
  result = "ok" => OnePlace /\ SeatsKept /\ PlayerComplete /\ LeadsTied

\* A player who rides in the world rides in its conversion: level.dat's player
\* has a RootVehicle.
PlayerStillRides ==
  result = "ok" => \A v \in Entities : DrivenByPlayer(v) => player.vehicle = v
=============================================================================
