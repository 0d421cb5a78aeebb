----------------------------- MODULE TojePasses -----------------------------
(***************************************************************************)
(* toje::Chunk (src/src/toje-chunk.cpp): Convert, at the end of the        *)
(* module, and then Terraform, with the passes of                          *)
(* src/src/toje/terraform/ and src/src/terraform/bedrock/: a chunk of a    *)
(* Bedrock world, converted block by block, gets the states Bedrock leaves *)
(* to the renderer.  Its passes read the Bedrock world, which no pass      *)
(* changes, and only the block entities of the chunks loaded with them.    *)
(***************************************************************************)
EXTENDS TerraformPasses

BJ == INSTANCE BlockToJava

(* BlockAccessorWrapper: the Bedrock world in Java blocks. *)
Wrapped(bedrock) == [p \in DOMAIN bedrock |-> BJ!From(bedrock[p])]

-----------------------------------------------------------------------------
(* Piston *)

MovingPiston(facing, sticky) ==
  [name |-> <<"moving_piston">>, facing |-> JavaNameFromFacing6[facing],
   type |-> IF sticky THEN "sticky" ELSE "normal"]

(* The block entity of a Java piston on its way; progress in percent.      *)
PistonTile(facing, extending, progress, source, blockState) ==
  [id |-> "piston", facing |-> facing, extending |-> extending,
   progress |-> progress, source |-> source, blockState |-> blockState]

IsSticky(b) == b.name[1] \in {"sticky", "sticky_piston"}

FacingOfPiston(b) == Facing6FromBedrockFacingDirectionB(Get(b, "facing_direction", 0))

(* State 1 is on its way out, 2 is out, 3 is on its way back in.           *)
DoPistonBody(out, b, tile, p) ==
  LET f6 == FacingOfPiston(b)
      state == Get(tile, "State", 0)
      body == [name |-> b.name, extended |-> FALSE, facing |-> JavaNameFromFacing6[f6]]
  IN IF state = 3
     THEN SetTile(Replace(out, p, MovingPiston(f6, IsSticky(b))), p,
                  PistonTile(Get(b, "facing_direction", 0), FALSE, 0, TRUE, body))
     ELSE Replace(out, p, Applying(out.blocks[p], [extended |-> state \in {1, 2}]))

(* A block that is pushed moves only with a piston body that is loaded.    *)
DoMovingBlock(out, bedrock, loaded, tile, p) ==
  LET at == tile.pistonPos
      piston == BlockAt(bedrock.blocks, at)
      state == Get(bedrock.tiles[at], "State", 0)
  IN IF at \notin loaded \/ bedrock.tiles[at] = NoTile THEN out
     ELSE SetTile(Replace(out, p, MovingPiston(FacingOfPiston(piston), FALSE)), p,
                  PistonTile(Get(piston, "facing_direction", 0), state = 1,
                             IF state = 3 THEN 0 ELSE 50, FALSE,
                             BJ!From(tile.movingBlock)))

DoPistonArm(out, bedrock, loaded, b, p) ==
  LET f6 == FacingOfPiston(b)
      v == Pos3iFromFacing6[f6]
      at == <<p[1] - v[1], p[2] - v[2], p[3] - v[3]>>
      head == [name |-> <<"piston_head">>, facing |-> JavaNameFromFacing6[f6],
               short |-> FALSE, type |-> IF IsSticky(b) THEN "sticky" ELSE "normal"]
      IsExtending == at \in loaded /\ Get(bedrock.tiles[at], "State", 0) = 1
  IN IF ~IsExtending THEN out
     ELSE SetTile(Replace(out, p, MovingPiston(f6, IsSticky(b))), p,
                  PistonTile(Get(b, "facing_direction", 0), TRUE, 50, TRUE, head))

DoPiston(out, bedrock, loaded, p) ==
  LET b == bedrock.blocks[p]
      tile == bedrock.tiles[p]
  IN CASE Kind(b) \in {"piston", "sticky_piston"} /\ tile # NoTile ->
            DoPistonBody(out, b, tile, p)
       [] Kind(b) = "moving_block" /\ tile # NoTile ->
            DoMovingBlock(out, bedrock, loaded, tile, p)
       [] Kind(b) = "piston_arm_collision" -> DoPistonArm(out, bedrock, loaded, b, p)
       [] OTHER -> out

-----------------------------------------------------------------------------
(* Kelp, TwistingVines, WeepingVines, CaveVines, AttachedStem *)

(* What grows up is a plant below more of it, what hangs down above.       *)
DoKelp(out, b, p) ==
  IF HasProperty(b, Above(p), "KELP")
  THEN SetBlockAt(out, p, [name |-> <<"kelp_plant">>]) ELSE out

DoTwistingVines(out, b, p) ==
  IF HasProperty(b, Above(p), "TWISTING_VINES")
  THEN SetBlockAt(out, p, [name |-> <<"twisting", "vines_plant">>]) ELSE out

DoWeepingVines(out, b, p) ==
  IF HasProperty(b, Below(p), "WEEPING_VINES")
  THEN SetBlockAt(out, p, [name |-> <<"weeping", "vines_plant">>]) ELSE out

DoCaveVines(out, b, p) ==
  LET plant == Without([out.blocks[p] EXCEPT !.name = <<"cave_vines_plant">>], "age")
  IN IF HasProperty(b, Below(p), "CAVE_VINES") THEN SetBlockAt(out, p, plant) ELSE out

VecFromFacingDirection(d) ==
  Get(5 :> Nesw.east @@ 4 :> Nesw.west @@ 2 :> Nesw.north @@ 3 :> Nesw.south, d, <<0, 0>>)

FacingFromFacingDirection(d) ==
  Get(5 :> "east" @@ 4 :> "west" @@ 2 :> "north", d, "south")

(* A grown stem holds the crop Bedrock turns it to, if that is still there. *)
DoAttachedStem(crop, attached, out, b, p) ==
  LET d == Get(b[p], "facing_direction", 0)
      stem == Without(out.blocks[p], "facing")
      cropPos == At(p, VecFromFacingDirection(d))
      IsHeld == Get(b[p], "growth", 0) >= 7 /\ BlockAt(b, cropPos).name = <<crop>>
  IN SetBlockAt(out, p,
       IF IsHeld
       THEN Applying(Without(stem, "age"),
                     [name |-> <<attached>>, facing |-> FacingFromFacingDirection(d)])
       ELSE stem)

-----------------------------------------------------------------------------
(* Campfire, Tripwire, Beacon, Door *)

DoCampfire(out, b, p) ==
  Replace(out, p, Applying(out.blocks[p],
                           [signal_fire |-> BlockAt(b, Below(p)).name = <<"hay_block">>]))

DoTripwire(out, b, p) ==
  LET Connects(d) ==
        LET n == BlockAt(b, At(p, Nesw[d]))
        IN \/ IsTripwire(n)
           \/ /\ n.name = <<"tripwire_hook">>
              /\ Pos2iFromFacing4[Facing4FromBedrockDirection(Get(n, "direction", 0))]
                   = Minus(Nesw[d])
  IN SetBlockAt(out, p, Applying(out.blocks[p], [d \in Sides |-> Connects(d)]))

IsBeaconBaseBlock(b) ==
  b.name \in {<<"iron_block">>, <<"gold_block">>, <<"diamond_block">>,
              <<"emerald_block">>, <<"netherite_block">>}

(* The layers of the pyramid below that are whole, one after the other.    *)
BeaconLevel(b, p) ==
  LET Layer(i) == {<<x, p[2] - i, z>> : x \in (p[1] - i)..(p[1] + i),
                                       z \in (p[3] - i)..(p[3] + i)}
      Whole(i) == \A q \in Layer(i) : IsBeaconBaseBlock(BlockAt(b, q))
  IN Max({n \in 0..4 : \A i \in 1..n : Whole(i)})

DoBeacon(out, b, p) ==
  IF out.tiles[p] = NoTile THEN out
  ELSE SetTile(out, p, Applying([Levels |-> BeaconLevel(b, p)], out.tiles[p]))

(* Either half of a Bedrock door knows only a part of its state.           *)
DoDoor(out, b, p) ==
  LET lower == out.blocks[p]
      upper == BlockAt(out.blocks, Above(p))
      IsDoor == /\ HasProperty(b, Above(p), "DOOR")
                /\ b[p].name = b[Above(p)].name
                /\ lower.half = "lower" /\ upper.half = "upper"
      whole == SetBlockAt(out, p, Applying(lower, [hinge |-> upper.hinge]))
  IN IF IsDoor
     THEN SetBlockAt(whole, Above(p),
                     Applying(upper, [facing |-> lower.facing, open |-> lower.open]))
     ELSE out

-----------------------------------------------------------------------------
(* The passes in their order. *)
Passes ==
  <<"PISTON", "STAIRS", "KELP", "TWISTING_VINES", "WEEPING_VINES", "PUMPKIN_STEM",
    "MELON_STEM", "CAVE_VINES", "SNOWY", "CHORUS_PLANT", "FENCE",
    "GLASS_PANE_OR_IRON_BARS", "CAMPFIRE", "NOTE_BLOCK", "REDSTONE_WIRE", "TRIPWIRE",
    "BEACON", "DOOR">>

(* What a pass does to one of its blocks: out is what it writes, b the     *)
(* Bedrock blocks, cache the Java blocks they convert to.                  *)
DoBlock(pass, b, cache, out, p) ==
  CASE pass = "STAIRS" -> DoShapeOfStairs(out, cache, p)
    [] pass = "KELP" -> DoKelp(out, b, p)
    [] pass = "TWISTING_VINES" -> DoTwistingVines(out, b, p)
    [] pass = "WEEPING_VINES" -> DoWeepingVines(out, b, p)
    [] pass = "PUMPKIN_STEM" -> DoAttachedStem("pumpkin", "attached_pumpkin_stem", out, b, p)
    [] pass = "MELON_STEM" -> DoAttachedStem("melon_block", "attached_melon_stem", out, b, p)
    [] pass = "CAVE_VINES" -> DoCaveVines(out, b, p)
    [] pass = "SNOWY" -> DoSnowy(out, cache, p)
    [] pass = "CHORUS_PLANT" -> DoChorusPlant(out, cache, p)
    [] pass = "FENCE" -> DoFence(out, cache, p)
    [] pass = "GLASS_PANE_OR_IRON_BARS" -> DoGlassPaneOrIronBars(out, cache, p)
    [] pass = "CAMPFIRE" -> DoCampfire(out, b, p)
    [] pass = "NOTE_BLOCK" -> DoNoteBlock(out, p)
    [] pass = "REDSTONE_WIRE" -> DoRedstoneWire(out, cache, p)
    [] pass = "TRIPWIRE" -> DoTripwire(out, b, p)
    [] pass = "BEACON" -> DoBeacon(out, b, p)
    [] pass = "DOOR" -> DoDoor(out, b, p)

(* Chunk::Terraform: the passes over one chunk, whose positions are mine,  *)
(* of the Java blocks j; loaded are the positions whose block entities the *)
(* cache has.                                                              *)
Terraform(j, bedrock, loaded, mine) ==
  LET cache == Wrapped(bedrock.blocks)
      Do(pass, out, p) == IF pass = "PISTON" THEN DoPiston(out, bedrock, loaded, p)
                          ELSE DoBlock(pass, bedrock.blocks, cache, out, p)
      DoPass(out, pass) == Scan(LAMBDA o, p : Do(pass, o, p), out,
                                Having(pass, bedrock.blocks, mine))
  IN FoldLeft(DoPass, j, Passes)

-----------------------------------------------------------------------------
(* toje::Chunk::Convert up to its passes: the blocks one by one, then the  *)
(* block entities, of which only the chests look at another one.           *)

Plus(a, v) == <<a[1] + v[1], a[2] + v[2]>>

(* Where the partner stands tells which half of a chest this is.           *)
TypeOfPair(b, tile, p) ==
  LET vec == Pos3iFromFacing6[
               Facing6FromBedrockFacingDirectionA(BJ!Get(b, "facing_direction", 0))]
      d2 == <<vec[1], vec[3]>>
      here == <<p[1], p[3]>>
  IN CASE ~("pair" \in DOMAIN tile) -> "single"
       [] Plus(tile.pair, Right90(d2)) = here -> "right"
       [] Plus(tile.pair, Left90(d2)) = here -> "left"
       [] OTHER -> "single"

(* The half that leads has the upper rows in Bedrock; in Java the right    *)
(* half has them, whichever was placed first.                              *)
TakesItemsFromPair(type, tile) ==
  \/ type = "right" /\ ~tile.pairlead
  \/ type = "left" /\ tile.pairlead

(* A chest that swaps has only what its partner had, if that is loaded.    *)
Chest(bedrock, loaded, p) ==
  LET b == bedrock.blocks[p]
      tile == bedrock.tiles[p]
      type == TypeOfPair(b, tile, p)
      from == <<tile.pair[1], p[2], tile.pair[2]>>
      items == IF ~TakesItemsFromPair(type, tile) THEN tile.items
               ELSE IF from \in loaded /\ "items" \in DOMAIN bedrock.tiles[from]
               THEN bedrock.tiles[from].items ELSE {}
  IN [block |-> [type |-> type] @@ BJ!From(b), tile |-> [id |-> "chest", items |-> items]]

(* The other block entities of the worlds; pistons get theirs by the pass. *)
Convert(bedrock, loaded, mine) ==
  LET IsChest(p) == bedrock.tiles[p].id = "chest"
      TileOf(p) == IF bedrock.tiles[p].id \in {"PistonArm", "MovingBlock"} THEN NoTile
                   ELSE bedrock.tiles[p]
  IN [blocks |-> [p \in mine |-> IF IsChest(p) THEN Chest(bedrock, loaded, p).block
                                 ELSE BJ!From(bedrock.blocks[p])],
      tiles |-> [p \in mine |-> IF IsChest(p) THEN Chest(bedrock, loaded, p).tile
                                ELSE TileOf(p)]]
=============================================================================
