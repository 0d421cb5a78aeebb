-------------------------- MODULE MCChunkTerraform --------------------------
(***************************************************************************)
(* Small worlds, each of the blocks that one or two passes are about, over *)
(* chunks two blocks wide.  Bedrock worlds are Java worlds converted block *)
(* by block, or built from the blocks of two of them.                      *)
(***************************************************************************)
EXTENDS ChunkTerraform, Sequences, FiniteSets, TLC

BB == INSTANCE BlockToBedrock

Air == [name |-> <<"air">>]

N(kind) == [name |-> <<kind>>]

(* The box of the given size, of air but for the blocks of f.              *)
Box(nx, ny, nz, f) ==
  [p \in (0..nx - 1) \X (0..ny - 1) \X (0..nz - 1) |-> IF p \in DOMAIN f THEN f[p] ELSE Air]

NoTiles(blocks) == [p \in DOMAIN blocks |-> X!NoTile]

World(blocks) == [blocks |-> blocks, tiles |-> NoTiles(blocks)]

TiledWorld(blocks, kinds) ==
  [blocks |-> blocks,
   tiles |-> [p \in DOMAIN blocks |->
                IF X!Kind(blocks[p]) \in kinds THEN [id |-> X!Kind(blocks[p])] ELSE X!NoTile]]

Bedrock(w) ==
  [w EXCEPT !.blocks = [p \in DOMAIN @ |-> BB!From(@[p], [last_interacted_slot |-> 0])]]

Row(s) == [p \in {<<i - 1, 0, 0>> : i \in DOMAIN s} |-> s[p[1] + 1]]

Column(s) == [p \in {<<0, i - 1, 0>> : i \in DOMAIN s} |-> s[p[2] + 1]]

Rows(n, blocks) == {Row(s) : s \in [1..n -> blocks]}

Columns(n, blocks) == {Column(s) : s \in [1..n -> blocks]}

Worlds(nx, ny, nz, fs) == {World(Box(nx, ny, nz, f)) : f \in fs}

Stairs(facing, half) ==
  [name |-> <<"oak", "stairs">>, facing |-> facing, half |-> half, shape |-> "straight"]

-----------------------------------------------------------------------------
Joiners ==
  {[name |-> <<"oak", "fence">>], [name |-> <<"nether_brick", "fence">>],
   N("glass_pane"), N("stone"), Stairs("east", "bottom"), Stairs("south", "bottom"),
   [name |-> <<"oak", "fence_gate">>, facing |-> "east", open |-> FALSE,
    in_wall |-> FALSE, powered |-> FALSE]}

XboxJoiners == Joiners \cup {[name |-> <<"cobblestone", "wall">>]}

Joins(blocks) == Worlds(3, 1, 1, Rows(3, blocks))

(* What is above a wall makes it tall.                                     *)
WallJoins ==
  Worlds(3, 2, 1,
    {row @@ (<<1, 1, 0>> :> N("stone")) :
       row \in {r \in Rows(3, XboxJoiners) : "wall" = X!Kind(r[<<1, 0, 0>>])}})

StairCrosses ==
  LET Beside == {Air, Stairs("north", "bottom"), Stairs("east", "bottom"),
                 Stairs("south", "bottom"), Stairs("west", "bottom"), Stairs("west", "top")}
  IN {World(Box(3, 1, 3, (<<1, 0, 1>> :> Stairs(f, "bottom")) @@ (<<1, 0, 0>> :> n)
                           @@ (<<2, 0, 1>> :> e) @@ (<<1, 0, 2>> :> s))) :
        f \in {"north", "east"}, n \in Beside, s \in Beside,
        e \in {Air, Stairs("north", "bottom"), Stairs("south", "bottom")}}

Dust == [name |-> <<"redstone_wire">>, power |-> 0]

Steps ==
  {<<Dust, Air, Air>>, <<N("stone"), Dust, Air>>, <<N("glass"), Dust, Air>>,
   <<N("stone"), N("stone"), Dust>>, <<Dust, N("stone"), Air>>}

Wires(sides) ==
  {World([p \in (0..2) \X (0..2) \X (0..1) |->
            IF p[3] = 0 THEN steps[p[1]][p[2] + 1]
            ELSE IF p[1] = 1 THEN beside[p[2] + 1] ELSE Air]) :
     steps \in [0..2 -> Steps], beside \in sides}

ChestOf(kind, facing) == [name |-> <<kind>>, facing |-> facing, type |-> "single"]

(* No console has three chests of a kind in a row. *)
Chests ==
  LET All == {ChestOf("chest", "north"), ChestOf("chest", "west"),
              ChestOf("trapped_chest", "north"), Air}
      Turned(row) == [p \in {<<0, 0, q[1]>> : q \in DOMAIN row} |->
                        LET b == row[<<p[3], 0, 0>>]
                        IN IF b = Air THEN b
                           ELSE [b EXCEPT !.facing = IF @ = "north" THEN "east" ELSE @]]
      Threes(row) == \E x \in 0..1 : /\ row[<<x, 0, 0>>] # Air
                                     /\ row[<<x + 1, 0, 0>>] = row[<<x, 0, 0>>]
                                     /\ row[<<x + 2, 0, 0>>] = row[<<x, 0, 0>>]
      rows == {row \in Rows(4, All) : ~Threes(row)}
  IN {TiledWorld(blocks, {"chest"}) : blocks \in rows \cup {Turned(row) : row \in rows}}

XboxKelp == Worlds(1, 4, 1, Columns(4, {Air, N("kelp_plant")}))

Vines ==
  UNION {Worlds(1, 4, 1, Columns(4, {Air, vine})) :
           vine \in {[name |-> <<"kelp">>, age |-> 3], [name |-> <<"twisting", "vines">>, age |-> 3],
                     [name |-> <<"weeping", "vines">>, age |-> 3],
                     [name |-> <<"cave_vines">>, age |-> 3, berries |-> TRUE]}}

Cross(center, beside) ==
  {(<<1, 0, 1>> :> center) @@ (<<1, 0, 0>> :> n) @@ (<<2, 0, 1>> :> e) @@ (<<1, 0, 2>> :> s) :
     n \in beside, e \in beside, s \in beside}

XboxStems ==
  UNION {Worlds(3, 1, 3, Cross([name |-> <<stem>>, age |-> 7],
                               {Air, N("pumpkin"), N("melon")})) :
           stem \in {"pumpkin_stem", "melon_stem"}}

Stems ==
  UNION {Worlds(3, 1, 3, Cross(stem, {Air, N("pumpkin"), N("melon")})) :
           stem \in {[name |-> <<"attached_melon_stem">>, facing |-> "east"],
                     [name |-> <<"attached_pumpkin_stem">>, facing |-> "south"],
                     [name |-> <<"melon_stem">>, age |-> 3]}}

Leaves ==
  LET Leaf == [name |-> <<"oak", "leaves">>, persistent |-> FALSE, distance |-> 7]
      Log == [name |-> <<"oak", "log">>, axis |-> "y"]
  IN Worlds(10, 1, 1,
       {Row([i \in 1..10 |-> IF i = log THEN Log ELSE IF i = gap THEN Air ELSE Leaf]) :
          log \in {1, 4, 10}, gap \in {0, 2, 6}})

Note == [name |-> <<"note_block">>, note |-> 0, instrument |-> "harp", powered |-> FALSE]

Notes ==
  Worlds(1, 3, 1,
    {Column(<<below, Note, above>>) :
       below \in {Air, N("stone"), N("gold_block"), [name |-> <<"oak", "planks">>],
                  N("glass"), N("sand"), N("packed_ice"), Note},
       above \in {Air, Note}})

Snow == [name |-> <<"snow">>, layers |-> 1]

Soils ==
  Worlds(1, 2, 1, {Column(<<b @@ [snowy |-> FALSE], above>>) :
                     b \in {N("grass_block"), N("podzol")}, above \in {Air, Snow}})

Chorus ==
  Worlds(3, 2, 1,
    {row @@ (<<1, 1, 0>> :> up) :
       row \in Rows(3, {Air, N("chorus_plant"), N("end_stone")}),
       up \in {Air, N("chorus_plant"), [name |-> <<"chorus_flower">>, age |-> 0]}})

Door(half, facing, open, hinge) ==
  [name |-> <<"oak", "door">>, half |-> half, facing |-> facing, open |-> open,
   hinge |-> hinge, powered |-> FALSE]

Doors ==
  Worlds(1, 2, 1,
    {Column(<<Door("lower", f, o, h), Door("upper", "north", o2, h2)>>) :
       f \in {"north", "east"}, o \in BOOLEAN, o2 \in BOOLEAN,
       h \in {"left", "right"}, h2 \in {"left", "right"}})

Tripwires ==
  LET Wire == [name |-> <<"tripwire">>, attached |-> FALSE, disarmed |-> FALSE,
               powered |-> FALSE]
      Hook(f) == [name |-> <<"tripwire_hook">>, facing |-> f, attached |-> FALSE,
                  powered |-> FALSE]
  IN Worlds(4, 1, 1, {row \in Rows(4, {Air, Wire, Hook("east"), Hook("west")}) :
                          Hook("east") \in {row[<<0, 0, 0>>], row[<<1, 0, 0>>]}})

Fires ==
  {TiledWorld(Box(1, 2, 1,
     Column(<<below, [name |-> <<"campfire">>, facing |-> "north", lit |-> TRUE,
                      signal_fire |-> FALSE]>>)), {"campfire"}) :
     below \in {Air, [name |-> <<"hay_block">>, axis |-> "y"]}}

Beacons ==
  {TiledWorld([p \in (0..4) \X (0..2) \X (0..4) |->
                 IF p = <<2, 2, 2>> THEN N("beacon")
                 ELSE IF p[2] < 2 /\ p # hole THEN N("iron_block") ELSE Air], {"beacon"}) :
     hole \in {<<2, 2, 2>>, <<0, 0, 0>>, <<1, 1, 1>>}}

-----------------------------------------------------------------------------
(* A piston with its arm and the block it pushes, to the east or the west. *)
Pistons ==
  LET At(i) == <<i, 0, 0>>
      Machine(body, step, state, sticky) ==
        LET fd == IF step = 1 THEN 4 ELSE 5
            names == IF sticky THEN <<<<"sticky_piston">>, <<"sticky", "piston_arm_collision">>>>
                     ELSE <<<<"piston">>, <<"piston_arm_collision">>>>
            blocks == (At(body) :> [name |-> names[1], facing_direction |-> fd])
                        @@ (At(body + step) :> [name |-> names[2], facing_direction |-> fd])
                        @@ (At(body + 2 * step) :> [name |-> <<"moving_block">>])
            tiles == (At(body) :> [id |-> "PistonArm", State |-> state])
                       @@ (At(body + 2 * step) :>
                             [id |-> "MovingBlock", pistonPos |-> At(body),
                              movingBlock |-> [name |-> <<"glass">>]])
            box == Box(5, 1, 1, blocks)
        IN [blocks |-> box, tiles |-> tiles @@ NoTiles(box)]
  IN {Machine(body, 1, state, sticky) : body \in 0..2, state \in {1, 3}, sticky \in BOOLEAN}
       \cup {Machine(body, -1, state, sticky) :
               body \in 2..4, state \in {1, 3}, sticky \in BOOLEAN}

(* Two chests of Bedrock, each the other's pair; one of them leads.        *)
PairAt(p, q, facing, leads) ==
  LET Half(at, other, lead, item) ==
        [id |-> "chest", pair |-> <<other[1], other[3]>>, pairlead |-> lead,
         items |-> {item}]
      box == Box(3, 1, 3, (p :> [name |-> <<"chest">>, facing_direction |-> facing])
                            @@ (q :> [name |-> <<"chest">>, facing_direction |-> facing]))
  IN [blocks |-> box,
      tiles |-> (p :> Half(p, q, leads, "apple")) @@ (q :> Half(q, p, ~leads, "bread"))
                  @@ NoTiles(box)]

(* Pairs within a chunk, and pairs that cross its border where nothing is  *)
(* to be swapped.                                                          *)
InOneChunk ==
  {PairAt(<<0, 0, 0>>, <<1, 0, 0>>, facing, leads) : facing \in {2, 3}, leads \in BOOLEAN}
    \cup {PairAt(<<0, 0, 0>>, <<0, 0, 1>>, facing, leads) :
            facing \in {4, 5}, leads \in BOOLEAN}

AcrossChunks ==
  {PairAt(<<1, 0, 0>>, <<2, 0, 0>>, facing, leads) : facing \in {2, 3}, leads \in BOOLEAN}
    \cup {PairAt(<<0, 0, 1>>, <<0, 0, 2>>, facing, leads) :
            facing \in {4, 5}, leads \in BOOLEAN}

MCXboxWorlds ==
  Joins(XboxJoiners) \cup WallJoins \cup StairCrosses
    \cup Wires({<<Air, Air, Air>>, <<N("stone"), Dust, Air>>}) \cup Chests \cup XboxKelp \cup XboxStems
    \cup Leaves \cup Notes \cup Soils \cup Chorus

MCBedrockWorlds ==
  {Bedrock(w) : w \in Joins(Joiners) \cup StairCrosses \cup Wires({<<Air, Air, Air>>})
                        \cup Vines \cup Stems \cup Leaves \cup Notes \cup Soils \cup Chorus \cup Doors
                        \cup Tripwires \cup Fires \cup Beacons}
    \cup Pistons \cup InOneChunk

-----------------------------------------------------------------------------
(* Worlds to light, three blocks to a chunk, three chunks to a region.     *)

Slab(type) == [name |-> <<"oak", "slab">>, type |-> type]

Glowstone == N("glowstone")

(* A ceiling with one hole, over a block that stands in the way.           *)
Lid(nx, nz, hole) ==
  [p \in ((0..nx - 1) \X {2} \X (0..nz - 1)) \ {hole} |-> N("stone")]

Ceilings ==
  {[blocks |-> Box(6, 3, 6, (at :> block) @@ Lid(6, 6, hole))] :
     at \in {<<2, 1, 2>>, <<3, 1, 2>>},
     block \in {Air, N("stone"), Slab("bottom"), Stairs("east", "bottom"), N("water")},
     hole \in {<<2, 2, 2>>, <<3, 2, 3>>, <<1, 2, 4>>}}

(* A light under a closed ceiling, beside a block.                         *)
Lights ==
  {[blocks |-> Box(6, 3, 6, (at :> Glowstone) @@ ([at EXCEPT ![1] = @ + 1] :> block)
                              @@ Lid(6, 6, <<6, 2, 6>>))] :
     at \in {<<2, 0, 2>>, <<2, 1, 3>>, <<4, 1, 1>>},
     block \in {Air, N("stone"), Slab("top"), Stairs("north", "top"),
                [name |-> <<"torch">>], [name |-> <<"piston">>, extended |-> TRUE, facing |-> "west"]}}

(* Chunks in a row, which leave the region, and chunks that are not there. *)
Apart ==
  {[blocks |-> [p \in {q \in DOMAIN box : <<q[1] \div 3, q[3] \div 3>> \notin absent} |-> box[p]]] :
     box \in {Box(12, 3, 3, (at :> Glowstone) @@ Lid(12, 3, <<7, 2, 1>>)) :
                at \in {<<2, 0, 1>>, <<8, 1, 1>>, <<9, 1, 2>>}},
     absent \in {{}, {<<1, 0>>}, {<<2, 0>>}}}

MCJavaWorlds == Ceilings \cup Lights \cup Apart

NoWorlds == {}

MCBedrockChests == InOneChunk \cup AcrossChunks
=============================================================================
