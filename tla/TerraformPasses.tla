-------------------------- MODULE TerraformPasses --------------------------
(***************************************************************************)
(* The passes of src/src/terraform/ and src/src/toje/terraform/, which     *)
(* give a block the states that its neighbours decide.  A chunk is a       *)
(* record of its blocks and its block entities, both functions of the      *)
(* position <<x, y, z>>.  A pass visits the blocks of its property in the  *)
(* order y, z, x and rewrites them one by one: in `out`, reading `cache`,  *)
(* which is the same chunk in box360 and the untouched input in toje.      *)
(* Absent stands for a null block, of a chunk that is not there.           *)
(***************************************************************************)
EXTENDS Enums, Sequences, SequencesExt, FiniteSets, TLC, TerraformTables

Absent == [name |-> <<"">>]

NoTile == [id |-> None]

BlockAt(blocks, p) == IF p \in DOMAIN blocks THEN blocks[p] ELSE Absent

Get(b, p, default) == IF p \in DOMAIN b THEN b[p] ELSE default

At(p, vec) == <<p[1] + vec[1], p[2], p[3] + vec[2]>>

Above(p) == <<p[1], p[2] + 1, p[3]>>

Below(p) == <<p[1], p[2] - 1, p[3]>>

Nesw == [north |-> <<0, -1>>, east |-> <<1, 0>>, south |-> <<0, 1>>, west |-> <<-1, 0>>]

Sides == DOMAIN Nesw

Opposite == [north |-> "south", east |-> "west", south |-> "north", west |-> "east"]

Minus(v) == <<-v[1], -v[2]>>

Right90(v) == <<-v[2], v[1]>>

Left90(v) == <<v[2], -v[1]>>

IsOrthogonal(a, b) == a[1] * b[1] + a[2] * b[2] = 0

FacingVec(b) == Pos2iFromFacing4[Facing4FromJavaName(Get(b, "facing", ""))]

-----------------------------------------------------------------------------
(* Chunks *)

(* blockJ->applying(props), blockJ->renamed(name) *)
Applying(b, props) == props @@ b

Without(b, p) == [q \in DOMAIN b \ {p} |-> b[q]]

Replace(out, p, b) == [out EXCEPT !.blocks[p] = b]

(* setBlockAt takes the block entity away unless it is told not to.        *)
SetBlockAt(out, p, b) == [Replace(out, p, b) EXCEPT !.tiles[p] = NoTile]

SetTile(out, p, tile) == [out EXCEPT !.tiles[p] = tile]

(* The order in which every pass visits the blocks of a chunk.             *)
Before(p, q) ==
  \/ p[2] < q[2]
  \/ p[2] = q[2] /\ p[3] < q[3]
  \/ p[2] = q[2] /\ p[3] = q[3] /\ p[1] < q[1]

Scanned(positions) ==
  [i \in 1..Cardinality(positions) |->
     CHOOSE p \in positions : Cardinality({q \in positions : Before(q, p)}) = i - 1]

Scan(Do(_, _), out, positions) == FoldLeft(Do, out, Scanned(positions))

-----------------------------------------------------------------------------
(* BlockPropertyAccessor: the pass a block is for. *)

IsVines(b, type) == b.name \in {<<type, "vines">>, <<type, "vines_plant">>}

GetBlockProperties(b) ==
  LET k == Kind(b) IN
  CASE k = "stairs" -> "STAIRS"
    [] k \in {"kelp", "kelp_plant"} -> "KELP"
    [] IsVines(b, "twisting") -> "TWISTING_VINES"
    [] IsVines(b, "weeping") -> "WEEPING_VINES"
    [] k = "pumpkin_stem" -> "PUMPKIN_STEM"
    [] b.name[1] \in {"cave_vines", "cave_vines_plant"} -> "CAVE_VINES"
    [] k \in {"grass_block", "grass", "podzol", "mycelium"} -> "SNOWY"
    [] k \in {"chorus_plant", "chorus_flower"} -> "CHORUS_PLANT"
    [] k = "fence" -> "FENCE"
    [] k \in Panes -> "GLASS_PANE_OR_IRON_BARS"
    [] k \in {"campfire", "soul_campfire"} -> "CAMPFIRE"
    [] k \in {"note_block", "noteblock"} -> "NOTE_BLOCK"
    [] k = "redstone_wire" -> "REDSTONE_WIRE"
    [] k \in {"tripwire", "trip_wire"} -> "TRIPWIRE"
    [] k \in {"piston", "sticky_piston", "piston_head", "piston_arm_collision",
              "moving_block"} -> "PISTON"
    [] k = "beacon" -> "BEACON"
    [] k = "melon_stem" -> "MELON_STEM"
    [] k = "door" -> "DOOR"
    [] k = "wall" -> "WALL"
    [] k \in {"leaves", "leaves2", "flowered"} -> "LEAVES"
    [] k \in {"chest", "trapped_chest"} -> "CHEST"
    [] OTHER -> None

HasProperty(blocks, p, property) == GetBlockProperties(BlockAt(blocks, p)) = property

Having(property, blocks, positions) ==
  {p \in positions : HasProperty(blocks, p, property)}

IsLeaves(b) == Kind(b) = "leaves"

IsTripwire(b) == Kind(b) = "trip_wire"

IsChorusPlant(b) == Kind(b) \in {"chorus_plant", "chorus_flower"}

(* The bark of a nether stem is a log only when stripped. *)
IsLog(b) ==
  \/ Kind(b) \in {"log", "wood", "stem"}
  \/ Kind(b) = "hyphae" /\ b.name[1] = "stripped"

-----------------------------------------------------------------------------
(* ShapeOfStairs *)

(* A stair faces east when its facing is not one of the four.              *)
VecFromWeirdoDirection(facing) == Get(Nesw, facing, Nesw.east)

Shape(direction, outer, inner, left, right) ==
  LET vec == VecFromWeirdoDirection(direction)
      Turns(f, v) == f # None /\ VecFromWeirdoDirection(f) = v
  IN IF Turns(outer, Left90(vec)) /\ direction # right THEN "outer_left"
     ELSE IF Turns(outer, Right90(vec)) /\ direction # left THEN "outer_right"
     ELSE IF Turns(inner, Left90(vec)) /\ direction # left THEN "inner_left"
     ELSE IF Turns(inner, Right90(vec)) /\ direction # right THEN "inner_right"
     ELSE "straight"

DoShapeOfStairs(out, cache, p) ==
  LET b == cache[p]
      vec == VecFromWeirdoDirection(b.facing)
      Facing(v) ==
        LET n == BlockAt(cache, At(p, v))
        IN IF Kind(n) = "stairs" /\ n.half = b.half THEN n.facing ELSE None
      shape == Shape(b.facing, Facing(vec), Facing(Minus(vec)),
                     Facing(Left90(vec)), Facing(Right90(vec)))
  IN SetBlockAt(out, p, Applying(out.blocks[p], [shape |-> shape]))

-----------------------------------------------------------------------------
(* FenceConnectable, WallConnectable *)

(* No Java name of a slab has "double" in it: the slab is never joined.    *)
IsConnectableByBlockNameAndStates(target, direction) ==
  \/ Kind(target) = "stairs" /\ VecFromWeirdoDirection(target.facing) = Minus(direction)
  \/ Kind(target) = "fence_gate" /\ IsOrthogonal(FacingVec(target), direction)

IsFenceConnectable(center, target, direction) ==
  IF center.name = <<"nether_brick", "fence">> /\ Kind(target) = "fence"
  THEN target.name = center.name
  ELSE \/ IsFenceAlwaysConnectable(target)
       \/ IsConnectableByBlockNameAndStates(target, direction)

DoFence(out, cache, p) ==
  LET center == out.blocks[p]
      joined == [d \in Sides |->
                   IsFenceConnectable(center, BlockAt(cache, At(p, Nesw[d])), Nesw[d])]
  IN SetBlockAt(out, p, Applying(center, joined))

IsGlassPaneOrIronBarsConnectable(target, direction) ==
  \/ IsGlassPaneOrIronBarsAlwaysConnectable(target)
  \/ IsConnectableByBlockNameAndStates(target, direction)

DoGlassPaneOrIronBars(out, cache, p) ==
  LET joined == [d \in Sides |->
                   IsGlassPaneOrIronBarsConnectable(BlockAt(cache, At(p, Nesw[d])),
                                                    Nesw[d])]
  IN SetBlockAt(out, p, Applying(out.blocks[p], joined))

IsWallConnectable(target, direction) ==
  \/ IsWallAlwaysConnectable(target)
  \/ Kind(target) = "trapdoor" /\ target.open /\ FacingVec(target) = direction
  \/ Kind(target) = "stairs" /\ IsOrthogonal(FacingVec(target), direction)
  \/ Kind(target) = "slab" /\ target.type = "double"

IsBlockMakeWallTallShape(b) ==
  \/ IsBlockAlwaysMakeWallTallShape(b)
  \/ Kind(b) = "slab" /\ b.type # "top"
  \/ Kind(b) = "trapdoor" /\ b.half = "bottom" /\ ~b.open
  \/ Kind(b) = "stairs" /\ b.half = "bottom"

(* A block above makes every side tall that has a block, joined or not.    *)
DoWall(out, cache, p) ==
  LET upper == BlockAt(cache, Above(p))
      Side(d) ==
        LET target == BlockAt(cache, At(p, Nesw[d]))
        IN IF target = Absent THEN "none"
           ELSE IF IsBlockMakeWallTallShape(upper) THEN "tall"
           ELSE IF IsWallConnectable(target, Nesw[d]) THEN "low" ELSE "none"
  IN SetBlockAt(out, p, Applying(out.blocks[p], [d \in Sides |-> Side(d)]))

-----------------------------------------------------------------------------
(* RedstoneWire *)

IsRedstoneConnectable(b, direction) ==
  \/ Kind(b) \in {"lightning_rod", "lectern", "daylight_detector", "detector_rail",
                  "tripwire_hook", "pressure_plate", "button", "lever",
                  "redstone_block", "target", "trapped_chest", "redstone_wire",
                  "sculk_sensor", "comparator"}
  \/ b.name \in {<<"redstone", "torch">>, <<"redstone", "wall_torch">>}
  \/ Kind(b) = "repeater" /\ FacingVec(b) \in {direction, Minus(direction)}
  \/ Kind(b) = "observer" /\ Get(Nesw, b.facing, <<0, 0>>) = direction

(* An absent block lets dust through. *)
IsTransparentAgainstRedstoneWire(b) ==
  CASE b = Absent -> TRUE
    [] Kind(b) = "slab" -> b.type # "double"
    [] OTHER -> IsAlwaysTransparentAgainstRedstoneWire(b)

\* Mutant: dust climbs through any block above it.
WireThroughAnything(cache, p, d) ==
  LET side == At(p, Nesw[d])
      beside == BlockAt(cache, side)
      IsWire(q) == Kind(BlockAt(cache, q)) = "redstone_wire"
  IN IF IsRedstoneConnectable(beside, Nesw[d]) THEN "side"
     ELSE IF IsWire(Above(side))
     THEN IF beside = Absent \/ Kind(beside) = "slab" THEN "side" ELSE "up"
     ELSE IF IsTransparentAgainstRedstoneWire(beside) /\ IsWire(Below(side))
     THEN "side" ELSE "none"

(* What dust at p meets on one side: at its height, above, or below.       *)
Wire(cache, p, d) ==
  LET side == At(p, Nesw[d])
      beside == BlockAt(cache, side)
      IsWire(q) == Kind(BlockAt(cache, q)) = "redstone_wire"
  IN IF IsRedstoneConnectable(beside, Nesw[d]) THEN "side"
     ELSE IF IsTransparentAgainstRedstoneWire(BlockAt(cache, Above(p)))
               /\ IsWire(Above(side))
     THEN IF beside = Absent \/ Kind(beside) = "slab" THEN "side" ELSE "up"
     ELSE IF IsTransparentAgainstRedstoneWire(beside) /\ IsWire(Below(side))
     THEN "side" ELSE "none"

(* Dust that meets something on one side runs through; dust that meets     *)
(* nothing runs everywhere.                                                *)
DoRedstoneWire(out, cache, p) ==
  LET met == [d \in Sides |-> Wire(cache, p, d)]
      meets == {d \in Sides : met[d] # "none"}
      Runs(d) == IF met[d] = "none" /\ (meets = {} \/ meets = {Opposite[d]})
                 THEN "side" ELSE met[d]
  IN SetBlockAt(out, p, Applying(out.blocks[p], [d \in Sides |-> Runs(d)]))

-----------------------------------------------------------------------------
(* ChorusPlant, Snowy, NoteBlock, Leaves *)

IsChorusPlantConnectable(b) == IsChorusPlant(b) \/ Kind(b) = "end_stone"

DoChorusPlant(out, cache, p) ==
  LET joined == [d \in Sides |-> IsChorusPlantConnectable(BlockAt(cache, At(p, Nesw[d])))]
      ends == [up |-> IsChorusPlant(BlockAt(cache, Above(p))),
               down |-> IsChorusPlantConnectable(BlockAt(cache, Below(p)))]
  IN IF Kind(cache[p]) = "chorus_flower" THEN out
     ELSE SetBlockAt(out, p, Applying(out.blocks[p], joined @@ ends))

DoSnowy(out, cache, p) ==
  IF Kind(BlockAt(cache, Above(p))) = "snow"
  THEN SetBlockAt(out, p, Applying(out.blocks[p], [snowy |-> TRUE])) ELSE out

HeadInstrument ==
  <<"skeleton", "skull">> :> "skeleton"
    @@ <<"wither_skeleton", "skull">> :> "wither_skeleton"
    @@ <<"player", "head">> :> "custom_head" @@ <<"zombie", "head">> :> "zombie"
    @@ <<"creeper", "head">> :> "creeper" @@ <<"piglin", "head">> :> "piglin"
    @@ <<"dragon", "head">> :> "dragon"

(* Reads the rewritten chunk on both sides. *)
DoNoteBlock(out, p) ==
  LET lower == BlockAt(out.blocks, Below(p))
      upper == BlockAt(out.blocks, Above(p))
      below == IF lower = Absent THEN "harp" ELSE NoteBlockInstrument(lower)
  IN SetBlockAt(out, p,
       Applying(out.blocks[p], [instrument |-> Get(HeadInstrument, upper.name, below)]))

Adjacent(p) ==
  {<<p[1] + 1, p[2], p[3]>>, <<p[1] - 1, p[2], p[3]>>, <<p[1], p[2] + 1, p[3]>>,
   <<p[1], p[2] - 1, p[3]>>, <<p[1], p[2], p[3] + 1>>, <<p[1], p[2], p[3] - 1>>}

(* The positions in the box around the leaves, seven blocks wider.         *)
Reach(positions, leaves) ==
  {p \in positions : \A i \in 1..3 :
     LET along == {q[i] : q \in leaves} IN p[i] \in (Min(along) - 7)..(Max(along) + 7)}

\* Mutant: leaves of the other chunks do not carry the distance.
DoLeavesOfChunk(out, cache, mine) ==
  LET near == Reach(DOMAIN cache, mine)
      Start(p) == CASE p \in mine -> -1
                    [] IsLog(cache[p]) -> 0
                    [] OTHER -> -2
      Step(data, distance) ==
        [p \in near |->
           IF data[p] = -1 /\ \E q \in Adjacent(p) \cap near : data[q] = distance - 1
           THEN distance ELSE data[p]]
      data == FoldLeft(Step, [p \in near |-> Start(p)], <<1, 2, 3, 4, 5, 6, 7>>)
      Distance(p) == IF data[p] = -1 THEN 7 ELSE data[p]
  IN Scan(LAMBDA o, p :
            SetBlockAt(o, p, Applying(o.blocks[p], [distance |-> Distance(p)])),
          out, mine)

(* Wave after wave from the logs, through the leaves of the chunk (mine)   *)
(* and of the others in its reach.                                         *)
DoLeaves(out, cache, mine) ==
  LET near == Reach(DOMAIN cache, mine)
      Start(p) == CASE p \in mine -> -1
                    [] IsLog(cache[p]) -> 0
                    [] IsLeaves(cache[p]) -> -1
                    [] OTHER -> -2
      Step(data, distance) ==
        [p \in near |->
           IF data[p] = -1 /\ \E q \in Adjacent(p) \cap near : data[q] = distance - 1
           THEN distance ELSE data[p]]
      data == FoldLeft(Step, [p \in near |-> Start(p)], <<1, 2, 3, 4, 5, 6, 7>>)
      Distance(p) == IF data[p] = -1 THEN 7 ELSE data[p]
  IN Scan(LAMBDA o, p :
            SetBlockAt(o, p, Applying(o.blocks[p], [distance |-> Distance(p)])),
          out, mine)
=============================================================================
