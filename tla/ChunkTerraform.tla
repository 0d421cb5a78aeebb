--------------------------- MODULE ChunkTerraform ---------------------------
(***************************************************************************)
(* A small world, chunk by chunk, through all the passes that look at the  *)
(* neighbours of a block.  A world of an Xbox 360 (edition "xbox") is a    *)
(* Java world whose chunks box360::Terraform rewrites in place, in any     *)
(* order.  A Bedrock world is converted by toje::Chunk::Convert, row after *)
(* row from west to east, and toje::Converter then measures the leaves of  *)
(* its chunks in any order.  A converted world (edition "java") is lit by  *)
(* toje::Converter, the chunks of a region row after row, the regions in   *)
(* any order.                                                              *)
(***************************************************************************)
EXTENDS Integers, Functions, TLC

CONSTANTS
  XboxWorlds, BedrockWorlds, ChunkWidth,
  JavaWorlds,                      \* the worlds to light
  LitWidth, RegionWidth, Height,   \* blocks of their chunks, chunks of their regions
  Brightest                        \* the full light, 15 in the code

(* Light of a chunk comes no farther than to its neighbours.               *)
ASSUME LightStaysNear == Brightest - 1 \in 0 .. LitWidth

X == INSTANCE Box360Passes
T == INSTANCE TojePasses
L == INSTANCE Lighting WITH Width <- LitWidth

VARIABLES
  edition, source, world,
  todo, bare,           \* the chunks to do, and those whose leaves are to measure
  light,                \* of the sky and of blocks, in the chunks that are lit
  cache                 \* the borders of lit chunks, LightCache of each region

vars == <<edition, source, world, todo, bare, light, cache>>

ChunkOf(p) == <<p[1] \div ChunkWidth, p[3] \div ChunkWidth>>

Positions == DOMAIN source.blocks

Mine(c) == {p \in Positions : ChunkOf(p) = c}

Chunks(w) == {ChunkOf(p) : p \in DOMAIN w.blocks}

LitChunks(w) == {<<p[1] \div LitWidth, p[3] \div LitWidth>> : p \in DOMAIN w.blocks}

Init ==
  /\ \/ /\ edition = "xbox" /\ source \in XboxWorlds
        /\ world = source /\ todo = Chunks(source) /\ bare = {}
     \/ /\ edition = "bedrock" /\ source \in BedrockWorlds
        /\ world = [blocks |-> <<>>, tiles |-> <<>>]
        /\ todo = Chunks(source) /\ bare = Chunks(source)
     \/ /\ edition = "java" /\ source \in JavaWorlds
        /\ world = source /\ todo = LitChunks(source) /\ bare = {}
  /\ light = [sky |-> <<>>, block |-> <<>>]
  /\ cache = <<>>

TerraformXboxChunk(c) ==
  /\ edition = "xbox" /\ c \in todo
  /\ world' = X!DoChunk(world, Mine(c))
  /\ todo' = todo \ {c}
  /\ UNCHANGED <<edition, source, bare, light, cache>>

(* The rows of a region, each from west to east. *)
IsNext(c) == \A d \in todo : \/ c[2] < d[2]
                             \/ c[2] = d[2] /\ c[1] <= d[1]

West(c) == <<c[1] - 1, c[2]>>

(* The cache has the block entities of the chunk and of the one before it  *)
(* in its row; it loads the other neighbours without them.                 *)
Loaded(c) == Mine(c) \cup Mine(West(c))

ConvertChunk(c) ==
  /\ edition = "bedrock" /\ c \in todo /\ IsNext(c)
  /\ \E converted \in {T!Convert(source, Loaded(c), Mine(c))} :
       \E done \in {T!Terraform(converted, source, Loaded(c), Mine(c))} :
         world' = [blocks |-> done.blocks @@ world.blocks,
                   tiles |-> done.tiles @@ world.tiles]
  /\ todo' = todo \ {c}
  /\ UNCHANGED <<edition, source, bare, light, cache>>

MeasureLeaves(c) ==
  /\ edition = "bedrock" /\ todo = {} /\ c \in bare
  /\ world' = T!DoLeaves(world, world.blocks, T!Having("LEAVES", world.blocks, Mine(c)))
  /\ bare' = bare \ {c}
  /\ UNCHANGED <<edition, source, todo, light, cache>>

Region(c) == <<c[1] \div RegionWidth, c[2] \div RegionWidth>>

IsNextOfRegion(c) ==
  \A d \in todo : Region(d) = Region(c) => c[2] < d[2] \/ (c[2] = d[2] /\ c[1] <= d[1])

(* dispose, called after each chunk of a region with the one north-west of *)
(* it: what is gone when it is the turn of c.                              *)
Disposed(c) ==
  LET last == IF c[1] % RegionWidth > 0 THEN <<c[1] - 2, c[2] - 1>>
              ELSE <<c[1] + RegionWidth - 2, c[2] - 2>>
  IN {d \in DOMAIN cache : Region(d) = Region(c)
                            /\ (d[2] < last[2] \/ (d[2] = last[2] /\ d[1] <= last[1]))}

Borders(c, kind) ==
  [d \in {e \in L!Square(c) \cap DOMAIN cache : Region(e) = Region(c)} \ Disposed(c) |->
     cache[d][kind]]

(* EnsureLightingModels: where there is no chunk it is clear.              *)
Models(positions) ==
  [p \in positions |->
     IF p \in DOMAIN world.blocks THEN L!Dimmed(L!GetLightingModel(world.blocks[p]))
     ELSE L!Clear]

(* Lighting::Do, for a chunk of the Overworld: the others have no sky.     *)
LightChunk(c) ==
  /\ edition = "java" /\ c \in todo /\ IsNextOfRegion(c)
  /\ \E m \in {Models(L!Positions(L!Window(c)))} :
       \E skyFlow \in {L!SkyFlow(c, m, Borders(c, "sky"))},
          blockFlow \in {L!BlockFlow(c, m, Borders(c, "block"))} :
         \E sky \in {L!Diffuse(skyFlow, L!InitializeSkyLight(c, m, Borders(c, "sky")))},
            block \in {L!Diffuse(blockFlow, L!InitializeBlockLight(c, m, Borders(c, "block")))} :
           LET mine == L!Positions(L!ChunkVolume(c))
           IN /\ light' = [sky |-> [p \in mine |-> sky[p]] @@ light.sky,
                           block |-> [p \in mine |-> block[p]] @@ light.block]
              /\ cache' = (c :> [sky |-> L!ChunkLightCache(c, sky),
                                 block |-> L!ChunkLightCache(c, block)])
                            @@ [d \in DOMAIN cache \ Disposed(c) |-> cache[d]]
  /\ todo' = todo \ {c}
  /\ UNCHANGED <<edition, source, world, bare>>

Next ==
  \/ \E c \in todo : TerraformXboxChunk(c) \/ ConvertChunk(c) \/ LightChunk(c)
  \/ \E c \in bare : MeasureLeaves(c)

Spec == Init /\ [][Next]_vars

Done == todo = {} /\ bare = {}

-----------------------------------------------------------------------------
(* Properties *)

B == world.blocks

Kind(p) == X!Kind(X!BlockAt(B, p))

Side(p, d) == X!At(p, X!Nesw[d])

Joined(p, d) == IF Kind(p) \in {"wall", "redstone_wire"} THEN B[p][d] # "none" ELSE B[p][d]

(* Blocks of one of these sets join each other. *)
Joining == {{"fence"}, {"redstone_wire"}, {"chorus_plant"}, {"tripwire"},
            {"wall"} \cup X!Panes}

(* Two blocks that can join do so on both sides or on neither.             *)
JoinsMeet ==
  \A kinds \in Joining : \A p \in DOMAIN B, d \in X!Sides :
    Kind(p) \in kinds /\ Kind(Side(p, d)) \in kinds
      => Joined(p, d) = Joined(Side(p, d), X!Opposite[d])

(* Dust that climbs a block meets the dust up there, which comes down.     *)
WiresClimb ==
  \A p \in DOMAIN B, d \in X!Sides :
    Kind(p) = "redstone_wire" /\ B[p][d] = "up"
      => LET top == X!Above(Side(p, d))
         IN Kind(top) = "redstone_wire" /\ Joined(top, X!Opposite[d])

IsChest(p) == Kind(p) \in {"chest", "trapped_chest"}

(* The other half of a chest, where its type says that it is.              *)
Partner(p) ==
  LET vec == X!FacingVec(B[p])
  IN X!At(p, IF B[p].type = "left" THEN X!Right90(vec) ELSE X!Left90(vec))

ChestsPair ==
  \A p \in DOMAIN B : IsChest(p) /\ B[p].type # "single"
    => /\ Partner(p) \in DOMAIN B /\ B[Partner(p)].name = B[p].name
       /\ B[Partner(p)].facing = B[p].facing
       /\ {B[p].type, B[Partner(p)].type} = {"left", "right"}

(* The half that leads in Bedrock has its items in the upper rows, those   *)
(* of the right half in Java, if the halves are of one chunk.              *)
ChestsKeepRows ==
  \A p \in DOMAIN B :
    edition = "bedrock" /\ IsChest(p) /\ B[p].type = "right"
      /\ ChunkOf(p) = ChunkOf(Partner(p))
    => LET lead == IF source.tiles[p].pairlead THEN p ELSE Partner(p)
       IN world.tiles[p].items = source.tiles[lead].items

DoorsAreWhole ==
  \A p \in DOMAIN B :
    /\ Kind(p) = "door" /\ Kind(X!Above(p)) = "door"
    /\ B[p].half = "lower" /\ B[X!Above(p)].half = "upper"
    => LET q == X!Above(p)
       IN B[q] = [B[p] EXCEPT !.half = "upper", !.powered = B[q].powered]

(* In a column of kelp or vines only the growing end is not a plant.       *)
HaveOneTip ==
  LET In(p, tips) == X!BlockAt(B, p).name \in tips
      Column(tip, plant, Towards(_)) ==
        \A p \in DOMAIN B : In(p, {tip, plant})
          => (In(p, {plant}) <=> In(Towards(p), {tip, plant}))
  IN /\ Column(<<"kelp">>, <<"kelp_plant">>, X!Above)
     /\ Column(<<"twisting", "vines">>, <<"twisting", "vines_plant">>, X!Above)
     /\ Column(<<"weeping", "vines">>, <<"weeping", "vines_plant">>, X!Below)
     /\ Column(<<"cave_vines">>, <<"cave_vines_plant">>, X!Below)

StemsHoldTheirCrop ==
  \A p \in DOMAIN B : Kind(p) \in {"attached_pumpkin_stem", "attached_melon_stem"}
    => Kind(Side(p, B[p].facing)) = IF Kind(p) = "attached_pumpkin_stem" THEN "pumpkin"
                                    ELSE "melon"

(* What a piston pushes moves the way the piston does.                     *)
PistonsMoveTogether ==
  \A p \in DOMAIN B :
    Kind(p) = "moving_piston" /\ source.tiles[p].id = "MovingBlock"
      => LET q == source.tiles[p].pistonPos
         IN /\ B[p].facing = B[q].facing
            /\ \/ world.tiles[p].extending /\ Kind(q) \in {"piston", "sticky_piston"} /\ B[q].extended
               \/ ~world.tiles[p].extending /\ Kind(q) = "moving_piston"

(* The block entity of a block that is not a piston survives the passes.   *)
TilesStay ==
  \A p \in DOMAIN B : source.tiles[p].id \in {"chest", "campfire", "beacon"}
    => world.tiles[p].id = source.tiles[p].id

(* When all chunks are done, what a pass wrote into a block fits what it   *)
(* and other passes, of this or another chunk, wrote into its neighbours.  *)
NeighboursAgree ==
  Done /\ edition # "java"
       => /\ JoinsMeet /\ WiresClimb /\ ChestsPair /\ ChestsKeepRows /\ DoorsAreWhole
          /\ HaveOneTip /\ StemsHoldTheirCrop /\ PistonsMoveTogether /\ TilesStay

(* The chunks of an Xbox world may be rewritten in any order, by any       *)
(* worker: the result is that of one chunk which holds the whole world,    *)
(* although every chunk reads neighbours that are rewritten or are not.    *)
OrderIrrelevant ==
  Done /\ edition = "xbox" => world = X!DoChunk(source, Positions)

(* The distance of leaves is that of the nearest log through leaves, also  *)
(* where the way leads through other chunks, and at most 7.                *)
LeavesAtShortestDistance ==
  LET Distance(q) ==
        CASE X!IsLog(X!BlockAt(B, q)) -> 0
          [] X!IsLeaves(X!BlockAt(B, q)) -> B[q].distance
          [] OTHER -> 7
      Nearest(p) == X!Min({Distance(q) : q \in X!Adjacent(p)})
  IN Done /\ edition # "java"
       => \A p \in DOMAIN B :
               X!IsLeaves(B[p]) => B[p].distance = X!Min({7, 1 + Nearest(p)})

(* However the world is cut into chunks and regions, windows and boxes, a  *)
(* block has the brightest light that comes to it by any way through the   *)
(* whole world, of the sky and of the blocks.                              *)
LightIsBrightest ==
  LET around == L!Union({L!Window(c) : c \in LitChunks(source)})
      everywhere == L!Positions(around)
  IN Done /\ edition = "java"
       => \A m \in {Models(everywhere)} : \A flow \in {L!Sources(m, {around})} :
            /\ light.sky = Restrict(L!Diffuse(flow, [p \in everywhere |-> L!SkyLight(m, p)]),
                                   DOMAIN source.blocks)
            /\ light.block = Restrict(L!Diffuse(flow, [p \in everywhere |-> L!BlockLight(m, p)]),
                                     DOMAIN source.blocks)

(* "It is needed to swap Items between two chests" (toje-block-entity.cpp, *)
(* the comment in Chest): the halves of a chest keep all their items.      *)
ChestsKeepItems ==
  LET Items(tiles) == UNION {tiles[p].items : p \in {q \in DOMAIN tiles :
                                                       tiles[q].id = "chest"}}
  IN Done /\ edition = "bedrock" => Items(world.tiles) = Items(source.tiles)
=============================================================================
