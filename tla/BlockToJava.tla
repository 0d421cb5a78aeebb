---------------------------- MODULE BlockToJava ----------------------------
(***************************************************************************)
(* toje::BlockData (src/src/toje-block-data.cpp): the Java block that      *)
(* stands for a Bedrock block.  Blocks are the records of BlockToBedrock;  *)
(* the operators keep the names of the functions they translate.  What the *)
(* block alone cannot tell (the second layer of water, the neighbours of a *)
(* stair, what a pot holds) is left for later passes over the chunk, so a  *)
(* converter answers FALSE for waterlogged, and so on.                     *)
(***************************************************************************)
EXTENDS Enums, Sequences, SequencesExt, TLC

(* s.int32(name, default), s.string, s.boolean *)
Get(s, p, default) == IF p \in DOMAIN s THEN s[p] ELSE default

Is(s, p) == Get(s, p, FALSE)

(* Whether the bit of a weight is set. *)
HasBit(bits, weight) == (bits \div weight) % 2 = 1

-----------------------------------------------------------------------------
(* Properties *)

Submergible == [waterlogged |-> FALSE]

Age(s) == [age |-> Get(s, "age", 0)]

AgeFromGrowth(s) == [age |-> Get(s, "growth", 0)]

AgeFromGrowthNonLinear(s) ==
  LET growth == Get(s, "growth", 0)
  IN [age |-> CASE growth < 2 -> 0
                [] growth \in 2..3 -> 1
                [] growth \in 4..6 -> 2
                [] growth > 6 -> 3]

AxisFromPillarAxis(s) == [axis |-> Get(s, "pillar_axis", "y")]

CoralTypeFromCoralColor(color) ==
  Get([blue |-> "tube", pink |-> "brain", purple |-> "bubble", red |-> "fire",
       yellow |-> "horn"], color, "brain")

Facing4FromDirectionA(s) ==
  [facing |-> JavaNameFromFacing4[Facing4FromBedrockDirection(Get(s, "direction", 0))]]

Facing6FromFacingDirectionA(s) ==
  [facing |->
     JavaNameFromFacing6[
       Facing6FromBedrockFacingDirectionA(Get(s, "facing_direction", 0))]]

(* Up and down, which are no Facing4, become south. *)
Facing4FromFacingDirectionA(s) ==
  LET f6 == Facing6FromBedrockFacingDirectionA(Get(s, "facing_direction", 0))
  IN [facing |-> JavaNameFromFacing4[IF f6 \in {"Up", "Down"} THEN "South" ELSE f6]]

FacingBFromDirection(s) ==
  [facing |-> Get(1 :> "west" @@ 2 :> "south" @@ 3 :> "north",
                  Get(s, "direction", 0), "east")]

Facing6FromFacingDirectionB(s) ==
  [facing |->
     JavaNameFromFacing6[
       Facing6FromBedrockFacingDirectionB(Get(s, "facing_direction", 0))]]

FacingCFromDirection(s) ==
  [facing |-> Get(1 :> "south" @@ 2 :> "west" @@ 3 :> "north",
                  Get(s, "direction", 0), "east")]

CoralDirection(s) ==
  [facing |-> Get(1 :> "east" @@ 2 :> "north" @@ 3 :> "south",
                  Get(s, "coral_direction", 0), "west")]

\* Mutant: stairs to the north and to the south are swapped.
FacingFromWeirdoDirectionMirrored(s) ==
  [facing |-> Get(1 :> "west" @@ 2 :> "north" @@ 3 :> "south",
                  Get(s, "weirdo_direction", 0), "east")]

FacingFromWeirdoDirection(s) ==
  [facing |-> Get(1 :> "west" @@ 2 :> "south" @@ 3 :> "north",
                  Get(s, "weirdo_direction", 0), "east")]

HalfFromUpperBlockBit(s) ==
  [half |-> IF Is(s, "upper_block_bit") THEN "upper" ELSE "lower"]

HalfFromUpsideDownBit(s) ==
  [half |-> IF Is(s, "upside_down_bit") THEN "top" ELSE "bottom"]

Lit(s) == [lit |-> Is(s, "lit")]

OpenFromOpenBit(s) == [open |-> Is(s, "open_bit")]

PersistentFromPersistentBit(s) == [persistent |-> Is(s, "persistent_bit")]

PowerFromRedstoneSignal(s) == [power |-> Get(s, "redstone_signal", 0)]

RotationFromGroundSignDirection(s) ==
  [rotation |-> Get(s, "ground_sign_direction", 0)]

ShapeFromRailDirection(s) ==
  [shape |->
     Get(1 :> "east_west" @@ 2 :> "ascending_east" @@ 3 :> "ascending_west"
           @@ 4 :> "ascending_north" @@ 5 :> "ascending_south"
           @@ 6 :> "south_east" @@ 7 :> "south_west" @@ 8 :> "north_west"
           @@ 9 :> "north_east",
         Get(s, "rail_direction", 0), "north_south")]

StoneTypeFromStone2(type) ==
  Get([prismarine_dark |-> "dark_prismarine", prismarine_rough |-> "prismarine"],
      type, type)

Faces == {"up", "down", "north", "east", "south", "west"}

ShownCaps ==
  1 :> {"up", "west", "north"} @@ 2 :> {"up", "north"} @@ 3 :> {"up", "north", "east"}
    @@ 4 :> {"up", "west"} @@ 5 :> {"up"} @@ 6 :> {"up", "east"}
    @@ 7 :> {"up", "south", "west"} @@ 8 :> {"up", "south"}
    @@ 9 :> {"up", "east", "south"} @@ 10 :> {"north", "east", "south", "west"}
    @@ 14 :> Faces @@ 15 :> Faces

MushroomProperties(s) ==
  LET bits == Get(s, "huge_mushroom_bits", 0)
  IN [stem |-> bits \in {10, 15},
      props |-> [f \in Faces |-> f \in Get(ShownCaps, bits, {})]]

TypeFromTopSlotBit(s) == [type |-> IF Is(s, "top_slot_bit") THEN "top" ELSE "bottom"]

WallConnectionType(type) == IF type = "short" THEN "low" ELSE type

WallProperties(s) ==
  [east |-> WallConnectionType(Get(s, "wall_connection_type_east", "short")),
   north |-> WallConnectionType(Get(s, "wall_connection_type_north", "short")),
   south |-> WallConnectionType(Get(s, "wall_connection_type_south", "short")),
   west |-> WallConnectionType(Get(s, "wall_connection_type_west", "short")),
   up |-> Is(s, "wall_post_bit")]

-----------------------------------------------------------------------------
(* Converters.  Block is a name with its properties. *)

Block(name, props) == [name |-> name] @@ props

Same(s) == [name |-> s.name]

Rename(name) == [name |-> name]

Identity(s) == [name |-> s.name]

Anvil(s) ==
  Block(Get([slightly_damaged |-> <<"chipped", "anvil">>,
             very_damaged |-> <<"damaged", "anvil">>],
            Get(s, "damage", "undamaged"), <<"anvil">>),
        Facing4FromDirectionA(s))

AzaleaLeavesFlowered(s) ==
  Block(<<"flowering", "azalea", "leaves">>,
        PersistentFromPersistentBit(s) @@ Submergible)

Bamboo(s) ==
  Block(s.name,
        [leaves |-> Get([large_leaves |-> "large", small_leaves |-> "small"],
                        Get(s, "bamboo_leaf_size", "large_leaves"), "none"),
         age |-> IF Get(s, "bamboo_stalk_thickness", "thin") = "thick" THEN 1 ELSE 0,
         stage |-> IF Is(s, "age_bit") THEN 1 ELSE 0])

Barrel(s) == Block(s.name, OpenFromOpenBit(s) @@ Facing6FromFacingDirectionA(s))

Beehive(s) ==
  Block(s.name, [honey_level |-> Get(s, "honey_level", 0)] @@ Facing4FromDirectionA(s))

Beetroot(s) == Block(<<"beetroots">>, AgeFromGrowthNonLinear(s))

(* Every bed is white until its block entity is read. *)
Bed(s) ==
  Block(<<"white", "bed">>,
        [part |-> IF Is(s, "head_piece_bit") THEN "head" ELSE "foot",
         occupied |-> Is(s, "occupied_bit")] @@ Facing4FromDirectionA(s))

Bell(s) ==
  LET attachment == Get(s, "attachment", "floor")
  IN Block(s.name,
       [facing |-> Get(1 :> "east" @@ 2 :> "south" @@ 3 :> "west",
                       Get(s, "direction", 0), "north"),
        attachment |-> Get([standing |-> "floor", hanging |-> "ceiling",
                            multiple |-> "double_wall", side |-> "single_wall"],
                           attachment, attachment),
        powered |-> Is(s, "toggle_bit")])

BigDripleaf(s) ==
  LET tilt == Get(s, "big_dripleaf_tilt", "full_tilt")
      shown == [tilt |-> Get([partial_tilt |-> "partial", full_tilt |-> "full"],
                             tilt, tilt)]
      placed == Facing4FromDirectionA(s) @@ Submergible
  IN IF Is(s, "big_dripleaf_head")
     THEN Block(<<"big_dripleaf">>, shown @@ placed)
     ELSE Block(<<"big_dripleaf_stem">>, placed)

BlockWithMultiFaceDirectionBitsSubmergible(s) ==
  LET bits == Get(s, "multi_face_direction_bits", 0)
  IN Block(s.name,
       [down |-> HasBit(bits, 1), up |-> HasBit(bits, 2),
        north |-> HasBit(bits, 16), south |-> HasBit(bits, 4),
        west |-> HasBit(bits, 8), east |-> HasBit(bits, 32)] @@ Submergible)

BlockWithPersistentFromPersistentBitSubmergible(s) ==
  Block(s.name, PersistentFromPersistentBit(s) @@ Submergible)

BlockWithWallProperties(s) == Block(s.name, WallProperties(s) @@ Submergible)

BrewingStand(s) ==
  Block(s.name,
        [has_bottle_0 |-> Is(s, "brewing_stand_slot_a_bit"),
         has_bottle_1 |-> Is(s, "brewing_stand_slot_b_bit"),
         has_bottle_2 |-> Is(s, "brewing_stand_slot_c_bit")])

BrownMushroomBlock(s) ==
  Block(IF MushroomProperties(s).stem THEN <<"mushroom_stem">>
        ELSE <<"brown_mushroom_block">>, MushroomProperties(s).props)

RedMushroomBlock(s) ==
  Block(IF MushroomProperties(s).stem THEN <<"mushroom_stem">> ELSE s.name,
        MushroomProperties(s).props)

BubbleColumn(s) == Block(s.name, [drag |-> Is(s, "drag_down")])

(* A button on a floor or a ceiling faces south. *)
Button(s) ==
  LET d == Get(s, "facing_direction", 0)
      face == Get(0 :> "ceiling" @@ 1 :> "floor" @@ 2 :> "wall" @@ 3 :> "wall"
                    @@ 4 :> "wall" @@ 5 :> "wall", d, "ceiling")
      facing == Get(2 :> "north" @@ 3 :> "south" @@ 4 :> "west" @@ 5 :> "east",
                    d, "south")
  IN Block(IF s.name = <<"wooden", "button">> THEN <<"oak", "button">> ELSE s.name,
           [face |-> face, facing |-> facing, powered |-> Is(s, "button_pressed_bit")])

Cake(s) == Block(s.name, [bites |-> Get(s, "bite_counter", 0)])

Campfire(s) ==
  Block(s.name,
        [lit |-> ~Is(s, "extinguished")] @@ Facing4FromDirectionA(s) @@ Submergible)

Candle(s) ==
  Block(s.name, [candles |-> Get(s, "candles", 0) + 1] @@ Lit(s) @@ Submergible)

CandleCake(s) == Block(s.name, Lit(s))

(* carpet, concrete, concrete_powder, shulker_box, stained_glass, wool and *)
(* stained_hardened_clay: the color of the states leads the name.          *)
ColoredName(s, kind) ==
  <<JavaNameFromColorCodeJava[ColorCodeJavaFromBedrockName(Get(s, "color", "white"))],
    kind>>

StainedGlassPane(s) == Block(ColoredName(s, "stained_glass_pane"), Submergible)

(* Bedrock fills to 6, Java to 3: half, rounded up. *)
Cauldron(s) ==
  LET liquid == Get(s, "cauldron_liquid", "water")
      fill == Get(s, "fill_level", 0)
      half == (fill + 1) \div 2
      level == [level |-> IF half < 1 THEN 1 ELSE IF half > 3 THEN 3 ELSE half]
  IN CASE fill < 1 -> Rename(<<"cauldron">>)
       [] fill >= 1 /\ liquid = "water" -> Block(<<"water_cauldron">>, level)
       [] fill >= 1 /\ liquid = "lava" -> Rename(<<"lava_cauldron">>)
       [] fill >= 1 /\ liquid = "powder_snow" ->
            Block(<<"powder_snow_cauldron">>, level)
       [] OTHER -> Rename(<<"cauldron">>)

CaveVines(s) ==
  Block(<<"cave_vines">>,
        [age |-> Get(s, "growing_plant_age", 1),
         berries |-> Last(s.name) = "with_berries"])

CaveVinesBody(s) ==
  Block(<<"cave_vines_plant">>, [berries |-> Last(s.name) = "with_berries"])

Chain(s) == Block(s.name, AxisFromPillarAxis(s) @@ Submergible)

Cocoa(s) == Block(s.name, Facing4FromDirectionA(s) @@ Age(s))

CommandBlock(s) ==
  Block(s.name,
        [conditional |-> Is(s, "conditional_bit")] @@ Facing6FromFacingDirectionA(s))

(* powered comes from the lit output, not from the name. *)
Comparator(s) ==
  Block(<<"comparator">>,
        [powered |-> Is(s, "output_lit_bit"),
         mode |-> IF Is(s, "output_subtract_bit") THEN "subtract" ELSE "compare"]
          @@ Facing4FromDirectionA(s))

Composter(s) == Block(s.name, [level |-> Get(s, "composter_fill_level", 0)])

CoralName(dead, type, kind) == (IF dead THEN <<"dead">> ELSE <<>>) \o <<type, kind>>

Coral(s) ==
  Block(CoralName(Is(s, "dead_bit"),
                  CoralTypeFromCoralColor(Get(s, "coral_color", "pink")), "coral"),
        Submergible)

CoralBlock(s) ==
  Rename(CoralName(Is(s, "dead_bit"),
                   CoralTypeFromCoralColor(Get(s, "coral_color", "pink")),
                   "coral_block"))

CoralFan(s) ==
  Block(CoralName(Last(s.name) = "dead",
                  CoralTypeFromCoralColor(Get(s, "coral_color", "pink")),
                  "coral_fan"),
        Submergible)

CoralFanHang(s) ==
  LET hangType == Is(s, "coral_hang_type_bit")
      type == CASE Last(s.name) = "2" -> IF hangType THEN "fire" ELSE "bubble"
                [] Last(s.name) = "3" -> "horn"
                [] OTHER -> IF hangType THEN "brain" ELSE "tube"
  IN Block(CoralName(Is(s, "dead_bit"), type, "coral_wall_fan"),
           CoralDirection(s) @@ Submergible)

DaylightDetector(s) ==
  Block(<<"daylight_detector">>,
        [inverted |-> Last(s.name) = "inverted"] @@ PowerFromRedstoneSignal(s))

Dirt(s) ==
  LET type == Get(s, "dirt_type", "normal")
  IN Rename(IF type = "normal" THEN <<"dirt">> ELSE <<type, "dirt">>)

Door(s) ==
  Block(IF s.name = <<"wooden", "door">> THEN <<"oak", "door">> ELSE s.name,
        [hinge |-> IF Is(s, "door_hinge_bit") THEN "right" ELSE "left",
         powered |-> FALSE]
          @@ OpenFromOpenBit(s) @@ FacingCFromDirection(s) @@ HalfFromUpperBlockBit(s))

DoublePlant(s) ==
  Block(<<Get([fern |-> "large_fern", syringa |-> "lilac", paeonia |-> "peony",
               sunflower |-> "sunflower", rose |-> "rose_bush"],
              Get(s, "double_plant_type", "rose"), "tall_grass")>>,
        HalfFromUpperBlockBit(s))

DoubleSlab(name) == Block(name, [type |-> "double"] @@ Submergible)

DoubleStoneSlab(s) == DoubleSlab(<<Get(s, "stone_slab_type", "stone"), "slab">>)

DoubleStoneSlab2(s) ==
  DoubleSlab(<<StoneTypeFromStone2(Get(s, "stone_slab_type_2", "prismarine_dark")),
               "slab">>)

DoubleStoneSlab3(s) == DoubleSlab(<<Get(s, "stone_slab_type_3", "andesite"), "slab">>)

DoubleStoneSlab4(s) == DoubleSlab(<<Get(s, "stone_slab_type_4", "stone"), "slab">>)

DoubleWoodenSlab(s) == DoubleSlab(<<Get(s, "wood_type", "oak"), "slab">>)

Dispenser(s) ==
  Block(s.name,
        [triggered |-> Is(s, "triggered_bit")] @@ Facing6FromFacingDirectionA(s))

Dropper(s) ==
  Block(s.name,
        [triggered |-> Is(s, "triggered_bit")] @@ Facing6FromFacingDirectionA(s))

EndPortalFrame(s) ==
  Block(s.name, [eye |-> Is(s, "end_portal_eye_bit")] @@ Facing4FromDirectionA(s))

EndRod(s) ==
  Block(s.name,
        [facing |-> Get(1 :> "up" @@ 2 :> "south" @@ 3 :> "north" @@ 4 :> "east"
                          @@ 5 :> "west", Get(s, "facing_direction", 0), "down")])

Farmland(s) == Block(s.name, [moisture |-> Get(s, "moisturized_amount", 0)])

Fence(s) == Block(<<Get(s, "wood_type", "oak"), "fence">>, Submergible)

FenceGate(s) ==
  Block(IF s.name = <<"fence_gate">> THEN <<"oak", "fence_gate">> ELSE s.name,
        [in_wall |-> Is(s, "in_wall_bit"), powered |-> FALSE]
          @@ Facing4FromDirectionA(s) @@ OpenFromOpenBit(s))

(* The name of a lit block, without the "lit". *)
Unprefixed(name) == IF Head(name) = "lit" THEN Tail(name) ELSE name

FurnaceAndSimilar(s) ==
  Block(Unprefixed(s.name),
        [lit |-> Head(s.name) = "lit"] @@ Facing4FromFacingDirectionA(s))

RailCanBePowered(s) ==
  Block(s.name,
        [powered |-> Is(s, "rail_data_bit")] @@ ShapeFromRailDirection(s)
          @@ Submergible)

GoldenRail(s) == [RailCanBePowered(s) EXCEPT !.name = <<"powered_rail">>]

Rail(s) == Block(s.name, ShapeFromRailDirection(s) @@ Submergible)

BlockWithSnowy(s) == Block(s.name, [snowy |-> FALSE])

Grass(s) == Block(<<"grass_block">>, [snowy |-> FALSE])

Grindstone(s) ==
  Block(s.name,
        [face |-> Get([side |-> "wall", hanging |-> "ceiling"],
                      Get(s, "attachment", "floor"), "floor")]
          @@ Facing4FromDirectionA(s))

(* One that hangs by its top keeps its rotation, one on a wall its side. *)
HangingSign(s) ==
  IF Is(s, "hanging")
  THEN Block(s.name,
             [attached |-> Is(s, "attached_bit"),
              rotation |-> Get(s, "ground_sign_direction", 0)] @@ Submergible)
  ELSE Block(<<Head(s.name), "wall_hanging_sign">>,
             [facing |-> Get(0 :> "west" @@ 1 :> "east" @@ 2 :> "north" @@ 3 :> "south",
                             Get(s, "facing_direction", 2), "north")] @@ Submergible)

Hopper(s) ==
  Block(s.name, [enabled |-> ~Is(s, "toggle_bit")] @@ Facing6FromFacingDirectionA(s))

Kelp(s) == Block(s.name, [age |-> Get(s, "kelp_age", 0)])

Lantern(s) == Block(s.name, [hanging |-> Is(s, "hanging")] @@ Submergible)

Leaves(s) ==
  Block(<<Get(s, "old_leaf_type", "oak"), "leaves">>,
        PersistentFromPersistentBit(s) @@ Submergible)

Leaves2(s) ==
  Block(<<Get(s, "new_leaf_type", "acacia"), "leaves">>,
        PersistentFromPersistentBit(s) @@ Submergible)

Lectern(s) ==
  Block(s.name, [powered |-> Is(s, "powered_bit")] @@ Facing4FromDirectionA(s))

(* A lever on a floor or a ceiling keeps its axis and not its side. *)
Lever(s) ==
  LET d == Get(s, "lever_direction", <<"up", "north_south">>)
      side == IF Last(d) = "east_west" THEN "west" ELSE "north"
      placed == CASE Len(d) = 2 /\ Head(d) = "up" -> <<"floor", side>>
                  [] Len(d) = 2 /\ Head(d) = "down" -> <<"ceiling", side>>
                  [] OTHER -> <<"wall", d[1]>>
  IN Block(s.name,
       [face |-> placed[1], facing |-> placed[2], powered |-> Is(s, "open_bit")])

LightBlock(s) ==
  Block(<<"light">>, [level |-> Get(s, "block_light_level", 0)] @@ Submergible)

Liquid(s) == Block(s.name, [level |-> Get(s, "liquid_depth", 0)])

LiquidFlowing(s) ==
  Block(<<IF Last(s.name) = "lava" THEN "lava" ELSE "water">>,
        [level |-> Get(s, "liquid_depth", 0)])

LitPumpkin(s) == Block(<<"jack_o_lantern">>, Facing4FromDirectionA(s))

Log(s) == Block(<<Get(s, "old_log_type", "oak"), "log">>, AxisFromPillarAxis(s))

Log2(s) == Block(<<Get(s, "new_log_type", "acacia"), "log">>, AxisFromPillarAxis(s))

MangrovePropagule(s) ==
  Block(s.name,
        [hanging |-> Is(s, "hanging"), stage |-> 1,
         age |-> Get(s, "propagule_stage", 0)] @@ Submergible)

MelonStem(s) == Block(s.name, AgeFromGrowth(s) @@ Facing4FromFacingDirectionA(s))

PumpkinStem(s) == Block(s.name, AgeFromGrowth(s) @@ Facing4FromFacingDirectionA(s))

MonsterEgg(s) ==
  Rename(<<"infested">> \o
         Get([cobblestone |-> <<"cobblestone">>, stone_brick |-> <<"stone_bricks">>,
              mossy_stone_brick |-> <<"mossy", "stone_bricks">>,
              cracked_stone_brick |-> <<"cracked", "stone_bricks">>,
              chiseled_stone_brick |-> <<"chiseled", "stone_bricks">>],
             Get(s, "monster_egg_stone_type", "stone"), <<"stone">>))

NetherVines(s, key) == Block(s.name, [age |-> Get(s, key, 0)])

Observer(s) ==
  Block(s.name, [powered |-> Is(s, "powered")] @@ Facing6FromFacingDirectionA(s))

Planks(s) == Rename(<<Get(s, "wood_type", "acacia"), "planks">>)

PointedDripstone(s) ==
  LET thickness == Get(s, "dripstone_thickness", "base")
  IN Block(s.name,
       [thickness |-> IF thickness = "merge" THEN "tip_merge" ELSE thickness,
        vertical_direction |-> IF Is(s, "hanging") THEN "down" ELSE "up"]
         @@ Submergible)

Portal(s) == Block(<<"nether_portal">>, [axis |-> Get(s, "portal_axis", "y")])

PressurePlate(s) == Block(s.name, [powered |-> Get(s, "redstone_signal", 0) > 0])

(* The state it reads is spelled "restone_signal". *)
WoodenPressurePlate(s) ==
  Block(<<"oak", "pressure_plate">>, [powered |-> Get(s, "restone_signal", 0) > 0])

Prismarine(s) ==
  Rename(Get([bricks |-> <<"prismarine", "bricks">>, dark |-> <<"dark_prismarine">>],
             Get(s, "prismarine_block_type", "default"), <<"prismarine">>))

PurpurBlock(s) ==
  IF Get(s, "chisel_type", "default") = "lines"
  THEN Block(<<"purpur_pillar">>, AxisFromPillarAxis(s)) ELSE Rename(<<"purpur_block">>)

QuartzBlock(s) ==
  LET type == Get(s, "chisel_type", "chiseled")
  IN IF type = "lines" THEN Block(<<"quartz_pillar">>, AxisFromPillarAxis(s))
     ELSE Rename(Get([smooth |-> <<"smooth_quartz">>,
                      chiseled |-> <<"chiseled", "quartz_block">>],
                     type, <<"quartz_block">>))

RedFlower(s) ==
  LET rf == RedFlowerFromBedrockName(Get(s, "flower_type", "poppy"))
  IN Rename(IF rf = None THEN s.name ELSE <<JavaNameFromRedFlower[rf]>>)

SandstoneName(s, kind) ==
  Get([heiroglyphs |-> <<"chiseled", kind>>, cut |-> <<"cut", kind>>,
       smooth |-> <<"smooth", kind>>],
      Get(s, "sand_stone_type", "default"), <<kind>>)

RedSandstone(s) == Rename(SandstoneName(s, "red_sandstone"))

Sandstone(s) == Rename(SandstoneName(s, "sandstone"))

RedstoneLamp(s) == Block(<<"redstone_lamp">>, [lit |-> Head(s.name) = "lit"])

(* A torch as an item may face "unknown". *)
Torch(s, prefix) ==
  LET t == Get(s, "torch_facing_direction", "top")
  IN IF t \in {"top", "unknown"} THEN Rename(prefix \o <<"torch">>)
     ELSE Block(prefix \o <<"wall_torch">>,
                [facing |-> Get([west |-> "east", east |-> "west", south |-> "north"],
                                t, "south")])

RedstoneTorch(s) == Torch(s, <<"redstone">>) @@ [lit |-> Head(s.name) # "unlit"]

RedstoneOre(s) == Block(Unprefixed(s.name), [lit |-> Head(s.name) = "lit"])

Reeds(s) == Block(<<"sugar_cane">>, Age(s))

Repeater(s) ==
  Block(<<"repeater">>,
        [powered |-> Head(s.name) = "powered",
         delay |-> Get(s, "repeater_delay", 0) + 1] @@ Facing4FromDirectionA(s))

RespawnAnchor(s) == Block(s.name, [charges |-> Get(s, "respawn_anchor_charge", 0)])

Sand(s) ==
  Rename(IF Get(s, "sand_type", "normal") = "red" THEN <<"red_sand">> ELSE s.name)

Sapling(s) ==
  Block(<<Get(s, "sapling_type", "acacia"), "sapling">>,
        [stage |-> IF Is(s, "age_bit") THEN 1 ELSE 0])

SculkCatalyst(s) == Block(s.name, [bloom |-> Is(s, "bloom")])

SculkShrieker(s) ==
  Block(s.name,
        [can_summon |-> Is(s, "can_summon"), shrieking |-> Is(s, "active")]
          @@ Submergible)

Seagrass(s) ==
  LET type == Get(s, "sea_grass_type", "default")
  IN CASE type = "double_bot" -> Block(<<"tall_seagrass">>, [half |-> "lower"])
       [] type = "double_top" -> Block(<<"tall_seagrass">>, [half |-> "upper"])
       [] OTHER -> Rename(<<"seagrass">>)

SeaPickle(s) ==
  Block(s.name,
        [pickles |-> Get(s, "cluster_count", 0) + 1, waterlogged |-> ~Is(s, "dead_bit")])

Scaffolding(s) ==
  Block(s.name, [bottom |-> Get(s, "stability", 0) > 0] @@ Submergible)

SilverGlazedTerracotta(s) ==
  Block(<<"light_gray", "glazed_terracotta">>, Facing4FromFacingDirectionA(s))

Slab(s) == Block(s.name, Submergible @@ TypeFromTopSlotBit(s))

SmallDripleafBlock(s) ==
  Block(<<"small_dripleaf">>,
        Facing4FromDirectionA(s) @@ HalfFromUpperBlockBit(s) @@ Submergible)

\* Mutant: a height counts the layers above the first.
SnowLayerUncounted(s) ==
  Block(<<"snow">>, [layers |-> IF Get(s, "height", 0) = 0 THEN 1 ELSE s.height])

SnowLayer(s) == Block(<<"snow">>, [layers |-> Get(s, "height", 0) + 1])

Sponge(s) ==
  Rename(IF Get(s, "sponge_type", "dry") = "wet" THEN <<"wet_sponge">> ELSE <<"sponge">>)

RenameStairs(s, name) ==
  Block(name, FacingFromWeirdoDirection(s) @@ HalfFromUpsideDownBit(s) @@ Submergible)

Stairs(s) == RenameStairs(s, s.name)

StandingSign(s) ==
  Block(IF s.name = <<"standing_sign">> THEN <<"oak", "sign">>
        ELSE <<Head(s.name), "sign">>,
        RotationFromGroundSignDirection(s) @@ Submergible)

DarkoakStandingSign(s) ==
  Block(<<"dark_oak", "sign">>, RotationFromGroundSignDirection(s) @@ Submergible)

DarkoakWallSign(s) ==
  Block(<<"dark_oak", "wall_sign">>, Facing4FromFacingDirectionA(s) @@ Submergible)

OakWallSign(s) ==
  Block(<<"oak", "wall_sign">>, Facing4FromFacingDirectionA(s) @@ Submergible)

PistonArmCollision(s) ==
  Block(<<"piston_head">>,
        [type |-> IF Head(s.name) = "sticky" THEN "sticky" ELSE "normal",
         short |-> FALSE] @@ Facing6FromFacingDirectionB(s))

Stone(s) ==
  LET type == Get(s, "stone_type", "stone")
  IN Rename(Get([diorite_smooth |-> <<"polished", "diorite">>,
                 andesite_smooth |-> <<"polished", "andesite">>,
                 granite_smooth |-> <<"polished", "granite">>], type, <<type>>))

Stonebrick(s) ==
  LET type == Get(s, "stone_brick_type", "default")
  IN Rename(IF type = "default" THEN <<"stone_bricks">> ELSE <<type, "stone_bricks">>)

StonecutterBlock(s) == Block(<<"stonecutter">>, Facing4FromFacingDirectionA(s))

SlabOf(s, type) == Block(<<type, "slab">>, TypeFromTopSlotBit(s) @@ Submergible)

StoneSlab(s) == SlabOf(s, Get(s, "stone_slab_type", "stone"))

StoneSlab2(s) ==
  SlabOf(s, StoneTypeFromStone2(Get(s, "stone_slab_type_2", "prismarine_dark")))

StoneSlab3(s) == SlabOf(s, Get(s, "stone_slab_type_3", "andesite"))

StoneSlab4(s) == SlabOf(s, Get(s, "stone_slab_type_4", "stone"))

WoodenSlab(s) == SlabOf(s, Get(s, "wood_type", "acacia"))

StructureBlock(s) == Block(s.name, [mode |-> Get(s, "structure_block_type", "save")])

SweetBerryBush(s) == Block(s.name, AgeFromGrowthNonLinear(s))

Tallgrass(s) ==
  Rename(IF Get(s, "tall_grass_type", "tall") = "fern" THEN <<"fern">> ELSE <<"grass">>)

Target(s) == Block(s.name, [power |-> 0])

Tnt(s) == Block(s.name, [unstable |-> Is(s, "explode_bit")])

Trapdoor(s) ==
  Block(IF s.name = <<"trapdoor">> THEN <<"oak", "trapdoor">> ELSE s.name,
        [powered |-> FALSE] @@ FacingBFromDirection(s) @@ OpenFromOpenBit(s)
          @@ HalfFromUpsideDownBit(s) @@ Submergible)

Tripwire(s) ==
  Block(<<"tripwire">>,
        [attached |-> Is(s, "attached_bit"), disarmed |-> Is(s, "disarmed_bit"),
         powered |-> Is(s, "powered_bit")])

TripwireHook(s) ==
  Block(s.name,
        [attached |-> Is(s, "attached_bit"), powered |-> Is(s, "powered_bit")]
          @@ Facing4FromDirectionA(s))

TurtleEgg(s) ==
  Block(s.name,
        [eggs |-> Get([two_egg |-> 2, three_egg |-> 3, four_egg |-> 4],
                      Get(s, "turtle_egg_count", "one_egg"), 1),
         hatch |-> Get([cracked |-> 1, max_cracked |-> 2],
                       Get(s, "cracked_state", "no_cracks"), 0)])

WallWithBlockType(s) ==
  LET type == Get(s, "wall_block_type", "andesite")
  IN Block(<<IF type = "end_brick" THEN "end_stone_brick" ELSE type, "wall">>,
           WallProperties(s) @@ Submergible)

Wood(s) ==
  LET wood == <<Get(s, "wood_type", "oak"), "wood">>
  IN Block(IF Is(s, "stripped_bit") THEN <<"stripped">> \o wood ELSE wood,
           AxisFromPillarAxis(s))

Vine(s) ==
  LET d == Get(s, "vine_direction_bits", 0)
  IN Block(s.name,
       [east |-> HasBit(d, 8), north |-> HasBit(d, 4), west |-> HasBit(d, 2),
        south |-> HasBit(d, 1), up |-> FALSE])

-----------------------------------------------------------------------------
(* CreateTable: the converter of each identifier, by family.  A name no    *)
(* family lists keeps its identifier and loses its states (Identity).      *)

Kind(s) == Last(s.name)

FacingDirectionSubmergible(s) ==
  Block(s.name, Facing4FromFacingDirectionA(s) @@ Submergible)

Facing6Submergible(s) ==
  Block(s.name, Facing6FromFacingDirectionA(s) @@ Submergible)

(* The families that have a converter for each of their members. *)
FromFamily(s) ==
  LET n == s.name IN
  CASE Kind(s) = "button" -> Button(s)
    [] Kind(s) = "door" -> Door(s)
    [] Kind(s) = "trapdoor" -> Trapdoor(s)
    [] Kind(s) = "fence" ->
         IF n = <<"fence">> THEN Fence(s) ELSE Block(n, Submergible)
    [] Kind(s) = "fence_gate" -> FenceGate(s)
    [] Kind(s) = "pressure_plate" ->
         CASE Head(n) = "wooden" -> WoodenPressurePlate(s)
           [] Len(n) = 3 -> Block(n, PowerFromRedstoneSignal(s))
           [] OTHER -> PressurePlate(s)
    [] Kind(s) = "stairs" ->
         CASE Head(n) = "end_brick" -> RenameStairs(s, <<"end_stone_brick", "stairs">>)
           [] Head(n) = "prismarine_bricks" ->
                RenameStairs(s, <<"prismarine_brick", "stairs">>)
           [] Head(n) = "stone" -> RenameStairs(s, <<"cobblestone", "stairs">>)
           [] Head(n) = "normal_stone" -> RenameStairs(s, <<"stone", "stairs">>)
           [] OTHER -> Stairs(s)
    [] Kind(s) = "standing_sign" ->
         IF Head(n) = "darkoak" THEN DarkoakStandingSign(s) ELSE StandingSign(s)
    [] Kind(s) = "wall_sign" ->
         CASE n = <<"wall_sign">> -> OakWallSign(s)
           [] Head(n) = "darkoak" -> DarkoakWallSign(s)
           [] OTHER -> FacingDirectionSubmergible(s)
    [] Kind(s) = "hanging_sign" -> HangingSign(s)
    [] Kind(s) = "wall" ->
         IF Head(n) = "cobblestone" THEN WallWithBlockType(s)
         ELSE BlockWithWallProperties(s)
    [] Kind(s) = "candle" -> Candle(s)
    [] Kind(s) = "candle_cake" -> CandleCake(s)
    [] Kind(s) = "glazed_terracotta" ->
         IF Head(n) = "silver" THEN SilverGlazedTerracotta(s)
         ELSE Block(n, Facing4FromFacingDirectionA(s))
    [] Kind(s) = "torch" ->
         CASE n = <<"torch">> -> Torch(s, <<>>)
           [] Head(n) = "soul" -> Torch(s, <<"soul">>)
           [] OTHER -> RedstoneTorch(s)

SlabKinds == {"slab", "slab2", "slab3", "slab4"}

(* A doubled slab has "double" in its name; Java says so in the type. *)
FromSlabs(s) ==
  LET n == s.name
      doubled == "double" \in ToSet(n)
      undoubled == SelectSeq(n, LAMBDA word : word # "double")
  IN
  CASE undoubled = <<"wooden", "slab">> ->
         IF doubled THEN DoubleWoodenSlab(s) ELSE WoodenSlab(s)
    [] undoubled = <<"stone_block", "slab">> ->
         IF doubled THEN DoubleStoneSlab(s) ELSE StoneSlab(s)
    [] undoubled = <<"stone_block", "slab2">> ->
         IF doubled THEN DoubleStoneSlab2(s) ELSE StoneSlab2(s)
    [] undoubled = <<"stone_block", "slab3">> ->
         IF doubled THEN DoubleStoneSlab3(s) ELSE StoneSlab3(s)
    [] undoubled = <<"stone_block", "slab4">> ->
         IF doubled THEN DoubleStoneSlab4(s) ELSE StoneSlab4(s)
    [] OTHER -> IF doubled THEN DoubleSlab(undoubled) ELSE Slab(s)

FromLeavesAndLogs(s) ==
  LET n == s.name IN
  CASE n = <<"leaves">> -> Leaves(s)
    [] n = <<"leaves2">> -> Leaves2(s)
    [] n = <<"azalea", "leaves", "flowered">> -> AzaleaLeavesFlowered(s)
    [] Kind(s) = "leaves" /\ Len(n) > 1 ->
         BlockWithPersistentFromPersistentBitSubmergible(s)
    [] n = <<"log">> -> Log(s)
    [] n = <<"log2">> -> Log2(s)
    [] n = <<"wood">> -> Wood(s)
    [] Kind(s) = "chain" -> Chain(s)
    [] OTHER -> Block(n, AxisFromPillarAxis(s))

Pillars ==
  {"log", "wood", "stem", "hyphae", "basalt", "deepslate", "chain", "froglight",
   "muddy_mangrove_roots", "bamboo_block", "bone_block", "hay_block"}

Renamed ==
  [brick_block |-> "bricks", web |-> "cobweb", yellow_flower |-> "dandelion",
   deadbush |-> "dead_bush", grass_path |-> "dirt_path",
   end_bricks |-> "end_stone_bricks", waterlily |-> "lily_pad",
   magma |-> "magma_block", melon_block |-> "melon", nether_brick |-> "nether_bricks",
   quartz_ore |-> "nether_quartz_ore", noteblock |-> "note_block",
   red_nether_brick |-> "red_nether_bricks", dirt_with_roots |-> "rooted_dirt",
   slime |-> "slime_block", snow |-> "snow_block", hardened_clay |-> "terracotta",
   waxed_copper |-> "waxed_copper_block", mob_spawner |-> "spawner", frame |-> "air",
   glow_frame |-> "air", frog_spawn |-> "frogspawn"]

FromStones(s) ==
  LET kind == Kind(s) IN
  CASE kind = "stone" -> Stone(s)
    [] kind = "dirt" -> Dirt(s)
    [] kind = "sandstone" -> Sandstone(s)
    [] kind = "red_sandstone" -> RedSandstone(s)
    [] kind = "quartz_block" -> QuartzBlock(s)
    [] kind = "sand" -> Sand(s)
    [] kind = "sponge" -> Sponge(s)
    [] kind = "prismarine" -> Prismarine(s)
    [] kind = "purpur_block" -> PurpurBlock(s)
    [] kind = "stonebrick" -> Stonebrick(s)
    [] kind = "monster_egg" -> MonsterEgg(s)
    [] kind = "anvil" -> Anvil(s)
    [] s.name = <<"planks">> -> Planks(s)
    [] kind = "planks" /\ Len(s.name) > 1 -> Identity(s)
    [] kind = "grass" -> Grass(s)
    [] kind \in {"mycelium", "podzol"} -> BlockWithSnowy(s)

Colored ==
  {"carpet", "concrete", "concrete_powder", "shulker_box", "stained_glass",
   "stained_glass_pane", "stained_hardened_clay", "wool"}

FromColored(s) ==
  CASE Kind(s) = "stained_glass_pane" -> StainedGlassPane(s)
    [] Kind(s) = "stained_hardened_clay" -> Rename(ColoredName(s, "terracotta"))
    [] s.name = <<"undyed", "shulker_box">> -> Rename(<<"shulker_box">>)
    [] OTHER -> Rename(ColoredName(s, Kind(s)))

FromPlants(s) ==
  LET plant == Head(s.name) IN
  CASE plant = "red_flower" -> RedFlower(s)
    [] plant = "tallgrass" -> Tallgrass(s)
    [] plant = "double_plant" -> DoublePlant(s)
    [] plant = "seagrass" -> Seagrass(s)
    [] plant = "kelp" -> Kelp(s)
    [] plant = "weeping" -> NetherVines(s, "weeping_vines_age")
    [] plant = "twisting" -> NetherVines(s, "twisting_vines_age")
    [] plant = "vine" -> Vine(s)
    [] plant \in {"glow_lichen", "sculk_vein"} ->
         BlockWithMultiFaceDirectionBitsSubmergible(s)
    [] plant = "cocoa" -> Cocoa(s)
    [] plant \in {"nether_wart", "chorus_flower", "cactus", "fire", "frosted_ice"} ->
         Block(s.name, Age(s))
    [] plant = "reeds" -> Reeds(s)
    [] plant = "sweet_berry_bush" -> SweetBerryBush(s)
    [] plant = "beetroot" -> Beetroot(s)
    [] plant \in {"potatoes", "carrots", "wheat"} -> Block(s.name, AgeFromGrowth(s))
    [] plant = "pumpkin_stem" -> PumpkinStem(s)
    [] plant = "melon_stem" -> MelonStem(s)
    [] plant = "cave_vines" ->
         IF "body" \in ToSet(s.name) THEN CaveVinesBody(s) ELSE CaveVines(s)
    [] plant = "big_dripleaf" -> BigDripleaf(s)
    [] plant = "small_dripleaf_block" -> SmallDripleafBlock(s)
    [] plant = "bamboo" -> Bamboo(s)
    [] plant = "mangrove_propagule" -> MangrovePropagule(s)
    [] plant = "sea_pickle" -> SeaPickle(s)
    [] plant = "carved_pumpkin" -> Block(s.name, Facing4FromDirectionA(s))
    [] plant = "lit" -> LitPumpkin(s)
    [] plant = "red_mushroom_block" -> RedMushroomBlock(s)
    [] plant = "brown_mushroom_block" -> BrownMushroomBlock(s)
    [] plant = "farmland" -> Farmland(s)
    [] plant = "sapling" -> Sapling(s)

Plants ==
  {"red_flower", "tallgrass", "double_plant", "seagrass", "kelp", "vine",
   "glow_lichen", "sculk_vein", "cocoa", "nether_wart", "chorus_flower", "cactus",
   "fire", "frosted_ice", "reeds", "sweet_berry_bush", "beetroot", "potatoes",
   "carrots", "wheat", "pumpkin_stem", "melon_stem", "big_dripleaf",
   "small_dripleaf_block", "bamboo", "mangrove_propagule", "sea_pickle",
   "carved_pumpkin", "red_mushroom_block", "brown_mushroom_block", "farmland",
   "sapling"}

FromCorals(s) ==
  CASE Head(s.name) = "coral" -> Coral(s)
    [] Head(s.name) = "coral_block" -> CoralBlock(s)
    [] Head(s.name) = "coral_fan" -> CoralFan(s)
    [] Head(s.name) = "coral_fan_hang" -> CoralFanHang(s)

Devices ==
  {"stonecutter_block", "loom", "grindstone", "barrel", "lantern", "soul_lantern",
   "bell", "campfire", "soul_campfire", "piston", "sticky_piston",
   "piston_arm_collision", "dispenser", "dropper", "lever", "tripwire_hook",
   "daylight_detector", "inverted", "hopper", "observer", "repeater", "comparator",
   "golden_rail", "detector_rail", "activator_rail", "rail", "portal", "lectern",
   "ender_chest", "chest", "trapped_chest", "ladder", "lightning_rod", "end_rod",
   "end_portal_frame", "redstone_lamp", "redstone_ore", "redstone_wire", "trip_wire",
   "tnt", "respawn_anchor", "brewing_stand", "light_block", "command_block",
   "chain_command_block", "repeating_command_block", "structure_block",
   "scaffolding", "turtle_egg", "beehive", "bee_nest", "composter", "cauldron",
   "lava_cauldron", "cake", "bubble_column", "snow_layer", "chiseled_bookshelf",
   "sculk_catalyst", "sculk_shrieker", "amethyst_bud", "amethyst_cluster",
   "pointed_dripstone", "bed", "standing_banner", "wall_banner", "target",
   "furnace", "smoker", "blast_furnace", "water", "lava"}

FromDevices(s) ==
  LET device == Kind(s) n == s.name IN
  CASE device = "stonecutter_block" -> StonecutterBlock(s)
    [] device \in {"loom", "chiseled_bookshelf"} -> Block(n, Facing4FromDirectionA(s))
    [] device = "grindstone" -> Grindstone(s)
    [] device \in {"furnace", "smoker", "blast_furnace"} -> FurnaceAndSimilar(s)
    [] device = "barrel" -> Barrel(s)
    [] device \in {"lantern", "soul_lantern"} -> Lantern(s)
    [] device = "bell" -> Bell(s)
    [] device \in {"campfire", "soul_campfire"} -> Campfire(s)
    [] device \in {"piston", "sticky_piston"} ->
         Block(n, Facing6FromFacingDirectionB(s))
    [] device = "piston_arm_collision" -> PistonArmCollision(s)
    [] device = "dispenser" -> Dispenser(s)
    [] device = "dropper" -> Dropper(s)
    [] device = "lever" -> Lever(s)
    [] device = "tripwire_hook" -> TripwireHook(s)
    [] device \in {"daylight_detector", "inverted"} -> DaylightDetector(s)
    [] device = "hopper" -> Hopper(s)
    [] device = "observer" -> Observer(s)
    [] device = "repeater" -> Repeater(s)
    [] device = "comparator" -> Comparator(s)
    [] device = "golden_rail" -> GoldenRail(s)
    [] device \in {"detector_rail", "activator_rail"} -> RailCanBePowered(s)
    [] device = "rail" -> Rail(s)
    [] device = "portal" -> Portal(s)
    [] device = "lectern" -> Lectern(s)
    [] device \in {"ender_chest", "chest", "trapped_chest", "ladder"} ->
         FacingDirectionSubmergible(s)
    [] device \in {"lightning_rod", "amethyst_bud", "amethyst_cluster"} ->
         Facing6Submergible(s)
    [] device = "end_rod" -> EndRod(s)
    [] device = "end_portal_frame" -> EndPortalFrame(s)
    [] device = "redstone_lamp" -> RedstoneLamp(s)
    [] device = "redstone_ore" -> RedstoneOre(s)
    [] device = "redstone_wire" -> Block(n, PowerFromRedstoneSignal(s))
    [] device = "trip_wire" -> Tripwire(s)
    [] device = "tnt" -> Tnt(s)
    [] device = "respawn_anchor" -> RespawnAnchor(s)
    [] device = "brewing_stand" -> BrewingStand(s)
    [] device = "light_block" -> LightBlock(s)
    [] device \in {"command_block", "chain_command_block",
                   "repeating_command_block"} -> CommandBlock(s)
    [] device = "structure_block" -> StructureBlock(s)
    [] device = "scaffolding" -> Scaffolding(s)
    [] device = "turtle_egg" -> TurtleEgg(s)
    [] device \in {"beehive", "bee_nest"} -> Beehive(s)
    [] device = "composter" -> Composter(s)
    [] device \in {"cauldron", "lava_cauldron"} -> Cauldron(s)
    [] device = "cake" -> Cake(s)
    [] device = "bubble_column" -> BubbleColumn(s)
    [] device = "snow_layer" -> SnowLayer(s)
    [] device = "sculk_catalyst" -> SculkCatalyst(s)
    [] device = "sculk_shrieker" -> SculkShrieker(s)
    [] device = "pointed_dripstone" -> PointedDripstone(s)
    [] device = "bed" -> Bed(s)
    [] device = "standing_banner" -> Block(n, RotationFromGroundSignDirection(s))
    [] device = "wall_banner" -> Block(n, Facing4FromFacingDirectionA(s))
    [] device = "target" -> Target(s)
    [] device \in {"water", "lava"} ->
         IF Head(n) = "flowing" THEN LiquidFlowing(s) ELSE Liquid(s)

Watered == {"conduit", "glass_pane", "hanging_roots", "iron_bars", "mangrove_roots"}

(* The names that worlds of older versions still hold. *)
LegacyNames ==
  <<"concretePowder">> :> <<"concrete_powder">>
    @@ <<"seaLantern">> :> <<"sea_lantern">>
    @@ <<"tripWire">> :> <<"trip_wire">>
    @@ <<"pistonArmCollision">> :> <<"piston_arm_collision">>
    @@ <<"stickyPistonArmCollision">> :> <<"sticky", "piston_arm_collision">>
    @@ [n \in {<<"stone", k>> : k \in SlabKinds} |-> <<"stone_block", n[2]>>]
    @@ [n \in {<<"double", "stone", k>> : k \in SlabKinds} |->
          <<"double", "stone_block", n[3]>>]

From(stored) ==
  LET n == Get(LegacyNames, stored.name, stored.name)
      s == [stored EXCEPT !.name = n]
      k == Kind(s) IN
  CASE k \in {"button", "door", "trapdoor", "fence", "fence_gate", "pressure_plate",
              "stairs", "standing_sign", "wall_sign", "hanging_sign", "wall",
              "candle", "candle_cake", "glazed_terracotta", "torch"} -> FromFamily(s)
    [] k \in SlabKinds -> FromSlabs(s)
    [] k \in Pillars \cup {"leaves", "leaves2", "flowered", "log2"} ->
         FromLeavesAndLogs(s)
    [] k \in {"stone", "dirt", "sandstone", "red_sandstone", "quartz_block", "sand",
              "sponge", "prismarine", "purpur_block", "stonebrick", "monster_egg",
              "anvil", "planks", "grass", "mycelium", "podzol"} -> FromStones(s)
    [] k \in Colored -> FromColored(s)
    [] Head(n) \in {"coral", "coral_block", "coral_fan", "coral_fan_hang"} ->
         FromCorals(s)
    [] \/ Len(n) = 1 /\ k \in Plants
       \/ n = <<"lit", "pumpkin">>
       \/ k = "vines" \/ Head(n) = "cave_vines" -> FromPlants(s)
    [] k \in Devices -> FromDevices(s)
    [] Len(n) = 1 /\ k \in DOMAIN Renamed -> Rename(<<Renamed[k]>>)
    [] Len(n) = 1 /\ k \in Watered -> Block(n, Submergible)
    [] OTHER -> Identity(s)
=============================================================================
