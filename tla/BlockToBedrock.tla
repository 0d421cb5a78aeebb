--------------------------- MODULE BlockToBedrock ---------------------------
(***************************************************************************)
(* tobe::BlockData (src/src/tobe-block-data.cpp): the Bedrock block that   *)
(* stands for a Java block.                                                *)
(*                                                                         *)
(* A block is a record.  Its name is the sequence of the words of the      *)
(* identifier that the code tells apart (dark_oak_wall_sign is             *)
(* <<"dark_oak", "wall_sign">>); its other fields are the properties of a  *)
(* Java block or the states of a Bedrock block, with the numbers and flags *)
(* that their text stands for.  The operators keep the names of the        *)
(* functions they translate: a naming function gives a name, a property    *)
(* function gives the states it adds, a converter gives the block.         *)
(***************************************************************************)
EXTENDS Enums, FiniteSets, Sequences, SequencesExt, TLC

(* block.property(p, default); an absent property has the default. *)
Get(b, p, default) == IF p \in DOMAIN b THEN b[p] ELSE default

Is(b, p) == Get(b, p, FALSE)

Bit(flag, weight) == IF flag THEN weight ELSE 0

-----------------------------------------------------------------------------
(* Naming functions *)

SlabName(b, name) ==
  IF Get(b, "type", "bottom") = "double" THEN <<"double">> \o name ELSE name

ChangeWhenDoubleType(b, doubleName) ==
  IF Get(b, "type", "bottom") = "double" THEN doubleName ELSE b.name

ComparatorName(b) ==
  <<IF Is(b, "powered") THEN "powered" ELSE "unpowered", "comparator">>

RepeaterName(b) ==
  <<IF Is(b, "powered") THEN "powered" ELSE "unpowered", "repeater">>

PrefixLit(b) == IF Is(b, "lit") THEN <<"lit">> \o b.name ELSE b.name

PrefixUnlit(b, name) == IF Is(b, "lit") THEN name ELSE <<"unlit">> \o name

DaylightDetectorName(b) ==
  <<"daylight_detector">> \o (IF Is(b, "inverted") THEN <<"inverted">> ELSE <<>>)

-----------------------------------------------------------------------------
(* Property functions *)

AxisToPillarAxis(b) == [pillar_axis |-> Get(b, "axis", "y")]

(* Bedrock decays leaves nearer than Java does, so the bit is set only at 7. *)
PersistentAndDistanceToPersistentBitAndUpdateBit(b) ==
  [persistent_bit |-> Is(b, "persistent"),
   update_bit |-> Get(b, "distance", 7) > 6 /\ ~Is(b, "persistent")]

TypeToTopSlotBit(b) == [top_slot_bit |-> Get(b, "type", "bottom") = "top"]

UpperBlockBitToHalf(b) == [upper_block_bit |-> Get(b, "half", "lower") = "upper"]

WaterloggedToDeadBit(b) == [dead_bit |-> ~Is(b, "waterlogged")]

PicklesToClusterCount(b) == [cluster_count |-> Get(b, "pickles", 1) - 1]

HalfToSeagrassType(b) ==
  [sea_grass_type |->
     IF Get(b, "half", "lower") = "lower" THEN "double_bot" ELSE "double_top"]

VineDirectionBits(b) ==
  [vine_direction_bits |->
     Bit(Is(b, "east"), 8) + Bit(Is(b, "north"), 4)
       + Bit(Is(b, "west"), 2) + Bit(Is(b, "south"), 1)]

MultiFaceDirectionBits(b) ==
  [multi_face_direction_bits |->
     Bit(Is(b, "down"), 1) + Bit(Is(b, "up"), 2) + Bit(Is(b, "north"), 16)
       + Bit(Is(b, "south"), 4) + Bit(Is(b, "west"), 8) + Bit(Is(b, "east"), 32)]

StairsDirectionFromFacing(b) ==
  [weirdo_direction |->
     Get([east |-> 0, west |-> 1, south |-> 2, north |-> 3],
         Get(b, "facing", "north"), 0)]

HalfToUpsideDownBit(b) == [upside_down_bit |-> Get(b, "half", "bottom") = "top"]

FacingA(b) == BedrockDirectionFromFacing4[Facing4FromJavaName(Get(b, "facing", ""))]

FacingB(b) ==
  Get([east |-> 0, west |-> 1, south |-> 2, north |-> 3], Get(b, "facing", ""), 0)

FacingC(b) ==
  Get([east |-> 0, south |-> 1, west |-> 2, north |-> 3], Get(b, "facing", ""), 0)

FacingD(b) ==
  Get([west |-> 0, east |-> 1, north |-> 2, south |-> 3], Get(b, "facing", ""), 0)

DirectionFromFacingA(b) == [direction |-> FacingA(b)]

DirectionFromFacingB(b) == [direction |-> FacingB(b)]

DirectionFromFacingC(b) == [direction |-> FacingC(b)]

StageToAgeBit(b) == [age_bit |-> Get(b, "stage", 0) = 1]

LayersToHeight(b) == [height |-> Get(b, "layers", 1) - 1]

EndRodFacingDirectionFromFacing(b) ==
  [facing_direction |->
     Get([down |-> 0, up |-> 1, south |-> 2, north |-> 3, east |-> 4, west |-> 5],
         Get(b, "facing", "up"), 1)]

GetTorchFacingDirectionFromFacing(facing) ==
  Get([east |-> "west", west |-> "east", north |-> "south"], facing, "north")

TorchFacingDirectionFromFacing(b) ==
  [torch_facing_direction |->
     GetTorchFacingDirectionFromFacing(Get(b, "facing", "north"))]

(* An absent face counts as On and as Off. *)
On(b, face) == Get(b, face, TRUE)

Off(b, face) == ~Get(b, face, FALSE)

Faces == {"up", "down", "north", "east", "south", "west"}

(* The faces that show the cap, for each value the bits can take. *)
MushroomCaps ==
  0 :> {} @@ 1 :> {"up", "north", "west"} @@ 2 :> {"up", "north"}
    @@ 3 :> {"up", "north", "east"} @@ 4 :> {"up", "west"} @@ 5 :> {"up"}
    @@ 6 :> {"up", "east"} @@ 7 :> {"up", "south", "west"}
    @@ 8 :> {"up", "south"} @@ 9 :> {"up", "east", "south"}
    @@ 10 :> {"north", "east", "south", "west"} @@ 14 :> Faces

HugeMushroomBits(b, stem) ==
  LET Shows(bits) ==
        /\ bits = 10 => stem
        /\ \A f \in Faces : IF f \in MushroomCaps[bits] THEN On(b, f) ELSE Off(b, f)
      shown == {bits \in DOMAIN MushroomCaps : Shows(bits)}
      full == IF stem THEN 15 ELSE 14
      first == CHOOSE bits \in shown : \A o \in shown : bits <= o
      bare == stem /\ Faces \cap DOMAIN b = {}
  IN [huge_mushroom_bits |->
        IF bare \/ shown = {} \/ first = 14 THEN full ELSE first]

EyeToEndPortalEyeBit(b) == [end_portal_eye_bit |-> Is(b, "eye")]

GetFacingDirectionAFromFacing(b) ==
  BedrockFacingDirectionAFromFacing6[Facing6FromJavaName(Get(b, "facing", "north"))]

FacingDirectionAFromFacing(b) ==
  [facing_direction |-> GetFacingDirectionAFromFacing(b)]

PistonFacingDirectionFromFacing6(b) ==
  [facing_direction |->
     BedrockFacingDirectionBFromFacing6[Facing6FromJavaName(Get(b, "facing", ""))]]

GetWallConnectionType(type) ==
  Get([low |-> "short", tall |-> "tall", true |-> "short"], type, "none")

WallConnectionTypes(b) ==
  [wall_connection_type_east |-> GetWallConnectionType(Get(b, "east", "none")),
   wall_connection_type_north |-> GetWallConnectionType(Get(b, "north", "none")),
   wall_connection_type_south |-> GetWallConnectionType(Get(b, "south", "none")),
   wall_connection_type_west |-> GetWallConnectionType(Get(b, "west", "none"))]

WallPostBit(b) == [wall_post_bit |-> Is(b, "up")]

PartToHeadPieceBit(b) == [head_piece_bit |-> Get(b, "part", "foot") = "head"]

OccupiedToOccupiedBit(b) == [occupied_bit |-> Is(b, "occupied")]

GrindstoneFaceToAttachment(b) ==
  [attachment |->
     Get([wall |-> "side", floor |-> "standing"], Get(b, "face", "wall"), "hanging")]

GetAttachment(attachment) ==
  Get([floor |-> "standing", ceiling |-> "hanging", double_wall |-> "multiple",
       single_wall |-> "side"], attachment, attachment)

BellAttachmentFromAttachment(b) ==
  [attachment |-> GetAttachment(Get(b, "attachment", "floor"))]

BellDirectionFromFacing(b) ==
  [direction |->
     Get([north |-> 0, east |-> 1, south |-> 2], Get(b, "facing", "north"), 3)]

RedstoneSignalFromPowered(b) ==
  [redstone_signal |-> IF Is(b, "powered") THEN 1 ELSE 0]

LitToExtinguished(b) == [extinguished |-> ~Is(b, "lit")]

Conditional(b) == [conditional_bit |-> Is(b, "conditional")]

BambooStalkThicknessFromAge(b) ==
  [bamboo_stalk_thickness |-> IF Get(b, "age", 0) = 0 THEN "thin" ELSE "thick"]

BambooLeafSizeFromLeaves(b) ==
  [bamboo_leaf_size |->
     Get([none |-> "no_leaves", large |-> "large_leaves", small |-> "small_leaves"],
         Get(b, "leaves", "none"), "no_leaves")]

HoneyLevel(b) == [honey_level |-> Get(b, "honey_level", 0)]

TurtleEggCount(b) ==
  [turtle_egg_count |->
     LET eggs == Get(b, "eggs", 1)
     IN IF eggs \in 1..4
        THEN <<"one_egg", "two_egg", "three_egg", "four_egg">>[eggs] ELSE "one_egg"]

TurtleEggCrackedState(b) ==
  [cracked_state |->
     Get(1 :> "cracked" @@ 2 :> "max_cracked", Get(b, "hatch", 0), "no_cracks")]

WallSkullFacingDirection(b) ==
  [facing_direction |->
     Get([south |-> 3, east |-> 5, north |-> 2, west |-> 4], Get(b, "facing", ""), 1)]

CauldronFillLevelFromLevel(b) == [fill_level |-> Get(b, "level", 0) * 2]

BiteCounterFromBites(b) == [bite_counter |-> Get(b, "bites", 0)]

DragDownFromDrag(b) == [drag_down |-> Get(b, "drag", TRUE)]

GrowthFromAge(b) ==
  [growth |-> Get(0 :> 0 @@ 1 :> 2 @@ 2 :> 4 @@ 3 :> 7, Get(b, "age", 0), 0)]

RailDirectionFromShape(b) ==
  [rail_direction |->
     Get([north_south |-> 0, east_west |-> 1, ascending_east |-> 2,
          ascending_west |-> 3, ascending_north |-> 4, ascending_south |-> 5,
          south_east |-> 6, south_west |-> 7, north_west |-> 8, north_east |-> 9],
         Get(b, "shape", "north_south"), 0)]

OutputSubtractBitFromMode(b) ==
  [output_subtract_bit |-> Get(b, "mode", "compare") = "subtract"]

DoorHingeBitFromHinge(b) == [door_hinge_bit |-> Get(b, "hinge", "left") = "right"]

ToggleBitFromEnabled(b) == [toggle_bit |-> ~Get(b, "enabled", TRUE)]

(* A button on a floor or a ceiling has no direction. *)
ButtonFacingDirection(b) ==
  [facing_direction |->
     LET face == Get(b, "face", "wall")
     IN Get([floor |-> 1, ceiling |-> 0], face,
            Get([north |-> 2, south |-> 3, west |-> 4, east |-> 5],
                Get(b, "facing", "north"), 0))]

LeverDirection(b) ==
  LET face == Get(b, "face", "wall")
      facing == Get(b, "facing", "north")
      along == IF facing \in {"west", "east"} THEN "east_west" ELSE "north_south"
  IN [lever_direction |->
        Get([floor |-> <<"up", along>>, ceiling |-> <<"down", along>>],
            face, <<facing>>)]

-----------------------------------------------------------------------------
(* Converters *)

Converter(name, states) == [name |-> name] @@ states

Rename(name) == [name |-> name]

Identity(b) == [name |-> b.name]

(* Not present in Bedrock. *)
Null == [name |-> <<"air">>]

Stone(type) == Converter(<<"stone">>, [stone_type |-> type])

Dirt(type) == Converter(<<"dirt">>, [dirt_type |-> type])

Log(b, type) == Converter(<<"log">>, [old_log_type |-> type] @@ AxisToPillarAxis(b))

Log2(b, type) == Converter(<<"log2">>, [new_log_type |-> type] @@ AxisToPillarAxis(b))

Wood(b, type, stripped) ==
  Converter(<<"wood">>,
            [wood_type |-> type, stripped_bit |-> stripped] @@ AxisToPillarAxis(b))

Leaves(b, type) ==
  Converter(<<"leaves">>,
            [old_leaf_type |-> type]
              @@ PersistentAndDistanceToPersistentBitAndUpdateBit(b))

Leaves2(b, type) ==
  Converter(<<"leaves2">>,
            [new_leaf_type |-> type]
              @@ PersistentAndDistanceToPersistentBitAndUpdateBit(b))

WoodenSlab(b, type) ==
  Converter(SlabName(b, <<"wooden", "slab">>),
            [wood_type |-> type] @@ TypeToTopSlotBit(b))

StoneSlab(b, type) ==
  Converter(SlabName(b, <<"stone_block", "slab">>),
            [stone_slab_type |-> type] @@ TypeToTopSlotBit(b))

StoneSlab2(b, type) ==
  Converter(SlabName(b, <<"stone_block", "slab2">>),
            [stone_slab_type_2 |-> type] @@ TypeToTopSlotBit(b))

StoneSlab3(b, type) ==
  Converter(SlabName(b, <<"stone_block", "slab3">>),
            [stone_slab_type_3 |-> type] @@ TypeToTopSlotBit(b))

StoneSlab4(b, type) ==
  Converter(SlabName(b, <<"stone_block", "slab4">>),
            [stone_slab_type_4 |-> type] @@ TypeToTopSlotBit(b))

Slab(b, doubledName) ==
  Converter(ChangeWhenDoubleType(b, doubledName), TypeToTopSlotBit(b))

TallGrass(type) == Converter(<<"tallgrass">>, [tall_grass_type |-> type])

DoublePlant(b, type) ==
  Converter(<<"double_plant">>, [double_plant_type |-> type] @@ UpperBlockBitToHalf(b))

SeaPickle(b) ==
  Converter(<<"sea_pickle">>, WaterloggedToDeadBit(b) @@ PicklesToClusterCount(b))

RedFlower(type) == Converter(<<"red_flower">>, [flower_type |-> type])

(* kelp_plant is kelp of age 16. *)
Kelp(age) == Converter(<<"kelp">>, [kelp_age |-> age])

Liquid(b) == Converter(b.name, [liquid_depth |-> Get(b, "level", 0)])

(* weeping_vines_plant and twisting_vines_plant are vines of age 25. *)
NetherVines(type, age) ==
  Converter(<<type, "vines">>,
            (IF type = "weeping" THEN "weeping_vines_age" ELSE "twisting_vines_age")
              :> age)

Stairs(b, name) ==
  Converter(name, HalfToUpsideDownBit(b) @@ StairsDirectionFromFacing(b))

Subtype(name, title, subtype) == Converter(<<name>>, title :> subtype)

QuartzBlock(b, type) ==
  Converter(<<"quartz_block">>, [chisel_type |-> type] @@ AxisToPillarAxis(b))

CoralBlock(color, dead) ==
  Converter(<<"coral_block">>, [coral_color |-> color, dead_bit |-> dead])

Coral(color, dead) ==
  Converter(<<"coral">>, [coral_color |-> color, dead_bit |-> dead])

CoralFan(color, dead) ==
  Converter(IF dead THEN <<"coral_fan", "dead">> ELSE <<"coral_fan">>,
            [coral_color |-> color, coral_fan_direction |-> 0])

CoralWallFan(b, tail, dead, hangType) ==
  Converter(<<"coral_fan_hang">> \o tail,
            [coral_hang_type_bit |-> hangType, coral_direction |-> FacingD(b),
             dead_bit |-> dead])

Sapling(b, type) == Converter(<<"sapling">>, [sapling_type |-> type] @@ StageToAgeBit(b))

SnowLayer(b) ==
  Converter(<<"snow_layer">>, [covered_bit |-> FALSE] @@ LayersToHeight(b))

(* The Java stage has no counterpart. *)
MangrovePropagule(b) ==
  Converter(<<"mangrove_propagule">>,
            [hanging |-> Is(b, "hanging"), propagule_stage |-> Get(b, "age", 0)])

SculkCatalyst(b) == Converter(<<"sculk_catalyst">>, [bloom |-> Is(b, "bloom")])

SculkShrieker(b) ==
  Converter(<<"sculk_shrieker">>,
            [can_summon |-> Is(b, "can_summon"), active |-> Is(b, "shrieking")])

AnyTorch(prefix) ==
  Converter(prefix \o <<"torch">>, [torch_facing_direction |-> "top"])

AnyWallTorch(b, prefix) ==
  Converter(prefix \o <<"torch">>, TorchFacingDirectionFromFacing(b))

AnyMushroomBlock(b, name, stem) == Converter(name, HugeMushroomBits(b, stem))

Wall(b, type) ==
  Converter(<<"cobblestone", "wall">>,
            [wall_block_type |-> type] @@ WallPostBit(b) @@ WallConnectionTypes(b))

Anvil(b, damage) == Converter(<<"anvil">>, [damage |-> damage] @@ DirectionFromFacingA(b))

WallSign(b, prefix) ==
  Converter(prefix \o <<"wall_sign">>, FacingDirectionAFromFacing(b))

Sign(b, prefix) ==
  Converter(prefix \o <<"standing_sign">>,
            [ground_sign_direction |-> Get(b, "rotation", 0)])

Slots == {"slot_0_occupied", "slot_1_occupied", "slot_2_occupied",
          "slot_3_occupied", "slot_4_occupied", "slot_5_occupied"}

(* Which slots are filled is left to the block entity. *)
ChiseledBookshelf(b, tile) ==
     Converter(b.name,
       [books_stored |-> Cardinality({slot \in Slots : Is(b, slot)}),
        last_interacted_slot |-> Get(tile, "last_interacted_slot", 0)]
         @@ DirectionFromFacingA([facing |-> Get(b, "facing", "north")]))

(* The name loses its "wall". *)
WallHangingSign(b) ==
  LET f4 == Facing4FromJavaName(Get(b, "facing", "north"))
  IN Converter(<<Head(b.name), "hanging_sign">>,
       [ground_sign_direction |-> [South |-> 0, West |-> 4, North |-> 8, East |-> 12][f4],
        facing_direction |-> [South |-> 3, West |-> 0, North |-> 2, East |-> 1][f4],
        hanging |-> FALSE, attach_bit |-> FALSE])

HangingSign(b) ==
  Converter(b.name,
            [attached_bit |-> Is(b, "attached"),
             ground_sign_direction |-> Get(b, "rotation", 0),
             facing_direction |-> 0, hanging |-> TRUE])

Bamboo(b) ==
  Converter(b.name,
            [age_bit |-> Get(b, "stage", 0) > 0]
              @@ BambooLeafSizeFromLeaves(b) @@ BambooStalkThicknessFromAge(b))

FlowingLiquid(b) == Converter(b.name, [liquid_depth |-> 8])

(* The arms of moving pistons, which PreprocessChunk puts in the chunk. *)
PistonArmCollision(b) ==
  Converter(<<"piston_arm_collision">>,
            [facing_direction |-> Get(b, "facing_direction", 0)])

StickyPistonArmCollision(b) ==
  Converter(<<"sticky", "piston_arm_collision">>,
            [facing_direction |-> Get(b, "facing_direction", 0)])

PistonHead(b) ==
  Converter((IF Get(b, "type", "normal") = "normal" THEN <<>> ELSE <<"sticky">>)
              \o <<"piston_arm_collision">>,
            PistonFacingDirectionFromFacing6(b))

BigDripleaf(b) ==
  LET tilt == Get(b, "tilt", "none")
  IN Converter(<<"big_dripleaf">>,
       [big_dripleaf_head |-> TRUE,
        big_dripleaf_tilt |->
          Get([partial |-> "partial_tilt", full |-> "full_tilt"], tilt, tilt)]
         @@ DirectionFromFacingA(b))

BigDripleafStem(b) ==
  Converter(<<"big_dripleaf">>,
            [big_dripleaf_head |-> FALSE, big_dripleaf_tilt |-> "none"]
              @@ DirectionFromFacingA(b))

RespawnAnchor(b) ==
  Converter(b.name, [respawn_anchor_charge |-> Get(b, "charges", 0)])

Tripwire(b) ==
  Converter(<<"trip_wire">>,
            [attached_bit |-> Is(b, "attached"), disarmed_bit |-> Is(b, "disarmed"),
             powered_bit |-> Is(b, "powered"), suspended_bit |-> TRUE])

Tnt(b) ==
  Converter(b.name,
            [explode_bit |-> Is(b, "unstable"), allow_underwater_bit |-> FALSE])

StructureBlock(b) ==
  Converter(b.name, [structure_block_type |-> Get(b, "mode", "save")])

(* The Java distance is the Bedrock stability; the Java bottom is dropped. *)
Scaffolding(b) ==
  Converter(b.name,
            [stability |-> Get(b, "distance", 0), stability_check |-> TRUE])

BrewingStand(b) ==
  Converter(b.name,
            [brewing_stand_slot_a_bit |-> Is(b, "has_bottle_0"),
             brewing_stand_slot_b_bit |-> Is(b, "has_bottle_1"),
             brewing_stand_slot_c_bit |-> Is(b, "has_bottle_2")])

CaveVines(b) ==
  Converter(<<"cave_vines">>
              \o (IF Is(b, "berries") THEN <<"head", "with_berries">> ELSE <<>>),
            [growing_plant_age |-> Get(b, "age", 1)])

(* Without berries the body is the name of the head. *)
CaveVinesPlant(b) ==
  Converter(<<"cave_vines">>
              \o (IF Is(b, "berries") THEN <<"body", "with_berries">> ELSE <<>>),
            [growing_plant_age |-> 24])

Candles(b) ==
  LET n == Get(b, "candles", 1) IN (IF n < 1 THEN 1 ELSE IF n > 4 THEN 4 ELSE n) - 1

Light(b) == Converter(<<"light_block">>, [block_light_level |-> Get(b, "level", 15)])

PointedDripstone(b) ==
  LET thickness == Get(b, "thickness", "tip")
  IN Converter(b.name,
       [dripstone_thickness |-> IF thickness = "tip_merge" THEN "merge" ELSE thickness,
        hanging |-> Get(b, "vertical_direction", "down") = "down"])

-----------------------------------------------------------------------------
(* CreateConverterTable: the converter of each identifier, by family.  The *)
(* last word of a name is its kind, the first its variant; a name that no  *)
(* family lists keeps its identifier and loses its properties (Identity).  *)

Kind(b) == Last(b.name)

Variant(b) == Head(b.name)

OverworldWoods == {"oak", "spruce", "birch", "jungle", "acacia", "dark_oak"}

OldWoods == OverworldWoods \ {"acacia", "dark_oak"}

(* Bedrock calls the light gray of a block silver. *)
ColorName(color) == IF color = "light_gray" THEN "silver" ELSE color

WithAxis(b) == Converter(b.name, AxisToPillarAxis(b))

FromWood(b) ==
  LET v == Variant(b) IN
  CASE Kind(b) = "log" ->
         IF v \in OldWoods THEN Log(b, v)
         ELSE IF v \in OverworldWoods THEN Log2(b, v) ELSE WithAxis(b)
    [] Kind(b) = "wood" ->
         IF v \in OverworldWoods THEN Wood(b, v, FALSE)
         ELSE IF v = "stripped" /\ b.name[2] \in OverworldWoods
              THEN Wood(b, b.name[2], TRUE) ELSE WithAxis(b)
    [] Kind(b) = "leaves" ->
         CASE v \in OldWoods -> Leaves(b, v)
           [] v \in OverworldWoods \ OldWoods -> Leaves2(b, v)
           [] OTHER ->
                Converter(IF v = "flowering" THEN <<"azalea", "leaves", "flowered">>
                          ELSE b.name,
                          PersistentAndDistanceToPersistentBitAndUpdateBit(b))
    [] Kind(b) = "planks" ->
         IF v \in OverworldWoods THEN Subtype("planks", "wood_type", v)
         ELSE Identity(b)
    [] Kind(b) = "fence" ->
         IF v \in OverworldWoods THEN Subtype("fence", "wood_type", v)
         ELSE Identity(b)
    [] Kind(b) = "sapling" ->
         IF v = "bamboo"
         THEN Converter(b.name, [age_bit |-> FALSE, sapling_type |-> "oak"])
         ELSE Sapling(b, v)

(* The slabs of the four numbered families, with the names they have there. *)
StoneSlabFamilies ==
  [cobblestone |-> <<1, "cobblestone">>, stone_brick |-> <<1, "stone_brick">>,
   brick |-> <<1, "brick">>, sandstone |-> <<1, "sandstone">>,
   smooth_stone |-> <<1, "smooth_stone">>, nether_brick |-> <<1, "nether_brick">>,
   quartz |-> <<1, "quartz">>,
   smooth_sandstone |-> <<2, "smooth_sandstone">>,
   red_sandstone |-> <<2, "red_sandstone">>,
   mossy_cobblestone |-> <<2, "mossy_cobblestone">>,
   dark_prismarine |-> <<2, "prismarine_dark">>,
   prismarine_brick |-> <<2, "prismarine_brick">>,
   prismarine |-> <<2, "prismarine_rough">>, purpur |-> <<2, "purpur">>,
   red_nether_brick |-> <<2, "red_nether_brick">>,
   granite |-> <<3, "granite">>, andesite |-> <<3, "andesite">>,
   diorite |-> <<3, "diorite">>,
   smooth_red_sandstone |-> <<3, "smooth_red_sandstone">>,
   polished_diorite |-> <<3, "polished_diorite">>,
   polished_granite |-> <<3, "polished_granite">>,
   polished_andesite |-> <<3, "polished_andesite">>,
   end_stone_brick |-> <<3, "end_stone_brick">>,
   stone |-> <<4, "stone">>, smooth_quartz |-> <<4, "smooth_quartz">>,
   cut_red_sandstone |-> <<4, "cut_red_sandstone">>,
   mossy_stone_brick |-> <<4, "mossy_stone_brick">>,
   cut_sandstone |-> <<4, "cut_sandstone">>]

(* The doubled name puts "double" before the stone of a copper slab and    *)
(* before "slab" otherwise.                                                *)
DoubledName(b) ==
  LET n == b.name IN
  IF n[Len(n) - 1] = "cut_copper"
  THEN SubSeq(n, 1, Len(n) - 2) \o <<"double", "cut_copper", "slab">>
  ELSE SubSeq(n, 1, Len(n) - 1) \o <<"double", "slab">>

FromSlab(b) ==
  LET v == Variant(b) IN
  CASE v \in OverworldWoods -> WoodenSlab(b, v)
    [] v = "petrified_oak" -> WoodenSlab(b, "oak")
    [] v \in DOMAIN StoneSlabFamilies ->
         LET family == StoneSlabFamilies[v] type == family[2]
         IN <<StoneSlab(b, type), StoneSlab2(b, type),
              StoneSlab3(b, type), StoneSlab4(b, type)>>[family[1]]
    [] OTHER -> Slab(b, DoubledName(b))

FromStairs(b) ==
  Stairs(b,
         CASE Variant(b) = "cobblestone" -> <<"stone", "stairs">>
           [] Variant(b) = "stone" -> <<"normal_stone", "stairs">>
           [] Variant(b) = "end_stone_brick" -> <<"end_brick", "stairs">>
           [] Variant(b) = "prismarine_brick" -> <<"prismarine_bricks", "stairs">>
           [] OTHER -> b.name)

FromColored(b) ==
  LET color == ColorName(Variant(b)) IN
  CASE Kind(b) \in {"wool", "carpet", "concrete", "concrete_powder",
                    "stained_glass", "stained_glass_pane"} ->
         Subtype(Kind(b), "color", color)
    [] Kind(b) = "terracotta" ->
         IF Len(b.name) = 1 THEN Rename(<<"hardened_clay">>)
         ELSE Subtype("stained_hardened_clay", "color", color)
    [] Kind(b) = "shulker_box" ->
         IF Len(b.name) = 1 THEN Rename(<<"undyed", "shulker_box">>)
         ELSE Subtype("shulker_box", "color", color)
    [] Kind(b) = "glazed_terracotta" ->
         Converter(<<color, "glazed_terracotta">>, FacingDirectionAFromFacing(b))
    [] Kind(b) = "bed" ->
         Converter(<<"bed">>, DirectionFromFacingA(b) @@ PartToHeadPieceBit(b)
                                @@ OccupiedToOccupiedBit(b))
    [] Kind(b) = "banner" ->
         Converter(<<"standing_banner">>,
                   [ground_sign_direction |-> Get(b, "rotation", 0)])
    [] Kind(b) = "wall_banner" ->
         Converter(<<"wall_banner">>, FacingDirectionAFromFacing(b))
    [] Kind(b) = "candle" ->
         Converter(b.name, [lit |-> Is(b, "lit"), candles |-> Candles(b)])
    [] Kind(b) = "candle_cake" -> Converter(b.name, [lit |-> Is(b, "lit")])

CoralColor ==
  [tube |-> "blue", brain |-> "pink", bubble |-> "purple", fire |-> "red",
   horn |-> "yellow"]

(* Five wall fans share three names and a bit. *)
FromCoral(b) ==
  LET dead == Variant(b) = "dead"
      type == IF dead THEN b.name[2] ELSE Variant(b)
  IN CASE Kind(b) = "coral_block" -> CoralBlock(CoralColor[type], dead)
       [] Kind(b) = "coral" -> Coral(CoralColor[type], dead)
       [] Kind(b) = "coral_fan" -> CoralFan(CoralColor[type], dead)
       [] Kind(b) = "coral_wall_fan" ->
            CoralWallFan(b, IF type \in {"tube", "brain"} THEN <<>>
                            ELSE IF type = "horn" THEN <<"3">> ELSE <<"2">>,
                         dead, type \in {"brain", "fire"})

(* Dark oak is "darkoak" in a sign, oak is left out. *)
SignPrefix(v) ==
  CASE v = "oak" -> <<>> [] v = "dark_oak" -> <<"darkoak">> [] OTHER -> <<v>>

FromSign(b) ==
  CASE Kind(b) = "sign" -> Sign(b, SignPrefix(Variant(b)))
    [] Kind(b) = "wall_sign" -> WallSign(b, SignPrefix(Variant(b)))
    [] Kind(b) = "hanging_sign" -> HangingSign(b)
    [] Kind(b) = "wall_hanging_sign" -> WallHangingSign(b)

NumberedWalls ==
  {"cobblestone", "mossy_cobblestone", "brick", "prismarine", "red_sandstone",
   "mossy_stone_brick", "granite", "andesite", "diorite", "stone_brick",
   "nether_brick", "red_nether_brick", "sandstone", "end_stone_brick"}

FromWall(b) ==
  LET v == Variant(b) IN
  CASE v = "end_stone_brick" -> Wall(b, "end_brick")
    [] v \in NumberedWalls \ {"end_stone_brick"} -> Wall(b, v)
    [] OTHER -> Converter(b.name, WallPostBit(b) @@ WallConnectionTypes(b))

(* One stone, four sandstones, four quartzes: the variant is a state. *)
FromStone(b) ==
  LET n == b.name IN
  CASE n = <<"stone">> -> Stone("stone")
    [] n \in {<<"granite">>, <<"andesite">>, <<"diorite">>} -> Stone(Head(n))
    [] n = <<"polished", "granite">> -> Stone("granite_smooth")
    [] n = <<"polished", "andesite">> -> Stone("andesite_smooth")
    [] n = <<"polished", "diorite">> -> Stone("diorite_smooth")
    [] n = <<"dirt">> -> Dirt("normal")
    [] n = <<"coarse", "dirt">> -> Dirt("coarse")
    [] Kind(b) \in {"sandstone", "red_sandstone"} ->
         Subtype(Kind(b), "sand_stone_type",
                 CASE Variant(b) = "chiseled" -> "heiroglyphs"
                   [] Variant(b) \in {"cut", "smooth"} -> Variant(b)
                   [] OTHER -> "default")
    [] n = <<"quartz_block">> -> QuartzBlock(b, "default")
    [] n = <<"smooth_quartz">> -> QuartzBlock(b, "smooth")
    [] n = <<"quartz_pillar">> -> QuartzBlock(b, "lines")
    [] n = <<"chiseled", "quartz_block">> -> QuartzBlock(b, "chiseled")
    [] n = <<"sand">> -> Subtype("sand", "sand_type", "normal")
    [] n = <<"red_sand">> -> Subtype("sand", "sand_type", "red")
    [] n = <<"sponge">> -> Subtype("sponge", "sponge_type", "dry")
    [] n = <<"wet_sponge">> -> Subtype("sponge", "sponge_type", "wet")
    [] n = <<"prismarine">> ->
         Subtype("prismarine", "prismarine_block_type", "default")
    [] n = <<"prismarine", "bricks">> ->
         Subtype("prismarine", "prismarine_block_type", "bricks")
    [] n = <<"dark_prismarine">> ->
         Subtype("prismarine", "prismarine_block_type", "dark")
    [] n = <<"purpur_block">> ->
         Converter(n, [chisel_type |-> "default", pillar_axis |-> "y"])
    [] n = <<"purpur_pillar">> ->
         Converter(<<"purpur_block">>, [chisel_type |-> "lines"] @@ AxisToPillarAxis(b))
    [] Kind(b) = "stone_bricks" /\ Variant(b) # "infested" ->
         Subtype("stonebrick", "stone_brick_type",
                 IF Len(n) = 1 THEN "default" ELSE Variant(b))
    [] Variant(b) = "infested" ->
         IF n[2] = "deepslate" THEN WithAxis(b)
         ELSE Subtype("monster_egg", "monster_egg_stone_type",
                [stone |-> "stone", cobblestone |-> "cobblestone",
                 stone_bricks |-> "stone_brick",
                 mossy |-> "mossy_stone_brick",
                 cracked |-> "cracked_stone_brick",
                 chiseled |-> "chiseled_stone_brick"][n[2]])
    [] Kind(b) = "anvil" ->
         Anvil(b, CASE Variant(b) = "chipped" -> "slightly_damaged"
                    [] Variant(b) = "damaged" -> "very_damaged"
                    [] OTHER -> "undamaged")
    [] n \in {<<"bone_block">>, <<"hay_block">>} ->
         Converter(n, [deprecated |-> 0] @@ AxisToPillarAxis(b))

Flower == [f \in {"poppy", "blue_orchid", "allium", "azure_bluet", "red_tulip",
                  "orange_tulip", "white_tulip", "pink_tulip", "oxeye_daisy",
                  "cornflower", "lily_of_the_valley"} |->
             Get([blue_orchid |-> "orchid", azure_bluet |-> "houstonia",
                  red_tulip |-> "tulip_red", orange_tulip |-> "tulip_orange",
                  white_tulip |-> "tulip_white", pink_tulip |-> "tulip_pink",
                  oxeye_daisy |-> "oxeye"], f, f)]

Plants ==
  {"seagrass", "tall_seagrass", "kelp", "kelp_plant", "vine", "glow_lichen",
   "sculk_vein", "cocoa", "nether_wart", "sugar_cane", "sweet_berry_bush",
   "beetroots", "potatoes", "carrots", "wheat", "pumpkin_stem", "melon_stem",
   "attached_pumpkin_stem", "attached_melon_stem", "chorus_flower", "cactus",
   "cave_vines", "cave_vines_plant", "big_dripleaf", "big_dripleaf_stem",
   "small_dripleaf", "bamboo", "mangrove_propagule", "sea_pickle", "pumpkin",
   "carved_pumpkin", "jack_o_lantern", "red_mushroom_block",
   "brown_mushroom_block", "mushroom_stem", "farmland", "grass", "fern",
   "tall_grass", "large_fern", "lilac", "rose_bush", "peony", "sunflower"}

FromPlant(b) ==
  LET n == b.name
      plant == Head(n)
      Growing == Converter(n, [growth |-> Get(b, "age", 0)])
      Aged == Converter(n, [age |-> Get(b, "age", 0)])
      Stem(name, growth, facing) ==
        Converter(name, [growth |-> growth, facing_direction |-> facing])
  IN
  CASE plant \in DOMAIN Flower -> RedFlower(Flower[plant])
    [] plant \in {"grass", "fern"} -> TallGrass(IF plant = "grass" THEN "tall" ELSE "fern")
    [] plant = "tall_grass" -> DoublePlant(b, "grass")
    [] plant = "large_fern" -> DoublePlant(b, "fern")
    [] plant = "lilac" -> DoublePlant(b, "syringa")
    [] plant = "rose_bush" -> DoublePlant(b, "rose")
    [] plant = "peony" -> DoublePlant(b, "paeonia")
    [] plant = "sunflower" -> DoublePlant(b, "sunflower")
    [] plant = "seagrass" -> Subtype("seagrass", "sea_grass_type", "default")
    [] plant = "tall_seagrass" -> Converter(<<"seagrass">>, HalfToSeagrassType(b))
    [] plant = "kelp" -> Kelp(Get(b, "age", 0))
    [] plant = "kelp_plant" -> Kelp(16)
    [] plant = "vine" -> Converter(n, VineDirectionBits(b))
    [] plant \in {"glow_lichen", "sculk_vein"} -> Converter(n, MultiFaceDirectionBits(b))
    [] plant = "cocoa" ->
         Converter(n, [age |-> Get(b, "age", 0)] @@ DirectionFromFacingA(b))
    [] plant \in {"nether_wart", "chorus_flower", "cactus"} -> Aged
    [] plant = "sugar_cane" -> Converter(<<"reeds">>, [age |-> Get(b, "age", 0)])
    [] plant = "sweet_berry_bush" -> Converter(n, GrowthFromAge(b))
    [] plant = "beetroots" -> Converter(<<"beetroot">>, GrowthFromAge(b))
    [] plant \in {"potatoes", "carrots", "wheat"} -> Growing
    [] plant \in {"pumpkin_stem", "melon_stem"} -> Stem(n, Get(b, "age", 0), 0)
    [] plant = "attached_pumpkin_stem" ->
         Stem(<<"pumpkin_stem">>, 7, GetFacingDirectionAFromFacing(b))
    [] plant = "attached_melon_stem" ->
         Stem(<<"melon_stem">>, 7, GetFacingDirectionAFromFacing(b))
    [] plant = "cave_vines" -> CaveVines(b)
    [] plant = "cave_vines_plant" -> CaveVinesPlant(b)
    [] plant = "big_dripleaf" -> BigDripleaf(b)
    [] plant = "big_dripleaf_stem" -> BigDripleafStem(b)
    [] plant = "small_dripleaf" ->
         Converter(<<"small_dripleaf_block">>,
                   DirectionFromFacingA(b) @@ UpperBlockBitToHalf(b))
    [] plant = "bamboo" -> Bamboo(b)
    [] plant = "mangrove_propagule" -> MangrovePropagule(b)
    [] plant = "sea_pickle" -> SeaPickle(b)
    [] plant = "pumpkin" -> Converter(n, [direction |-> 0])
    [] plant = "carved_pumpkin" -> Converter(n, DirectionFromFacingA(b))
    [] plant = "jack_o_lantern" -> Converter(<<"lit", "pumpkin">>, DirectionFromFacingA(b))
    [] plant \in {"red_mushroom_block", "brown_mushroom_block"} ->
         AnyMushroomBlock(b, n, FALSE)
    [] plant = "mushroom_stem" -> AnyMushroomBlock(b, <<"brown_mushroom_block">>, TRUE)
    [] plant = "farmland" ->
         Converter(n, [moisturized_amount |-> Get(b, "moisture", 0)])

Openable(b) ==
  DirectionFromFacingB(b) @@ [open_bit |-> Is(b, "open")] @@ HalfToUpsideDownBit(b)

DoorStates(b) ==
  DirectionFromFacingC(b) @@ [open_bit |-> Is(b, "open")]
    @@ UpperBlockBitToHalf(b) @@ DoorHingeBitFromHinge(b)

ButtonStates(b) ==
  ButtonFacingDirection(b) @@ [button_pressed_bit |-> Is(b, "powered")]

FenceGateStates(b) ==
  DirectionFromFacingA(b)
    @@ [in_wall_bit |-> Is(b, "in_wall"), open_bit |-> Is(b, "open")]

(* The mechanisms that come in kinds of wood and stone.  Those of oak have *)
(* names of their own; the pressure plates of mangrove and of bamboo have  *)
(* no entry.                                                               *)
FromMechanism(b) ==
  LET oak == Variant(b) = "oak"
      NameOf(oakName) == IF oak THEN oakName ELSE b.name
  IN
  CASE Kind(b) = "fence_gate" ->
         Converter(NameOf(<<"fence_gate">>), FenceGateStates(b))
    [] Kind(b) = "pressure_plate" ->
         IF Variant(b) \in {"mangrove", "bamboo"} THEN Identity(b)
         ELSE Converter(NameOf(<<"wooden", "pressure_plate">>),
                        RedstoneSignalFromPowered(b))
    [] Kind(b) = "trapdoor" -> Converter(NameOf(<<"trapdoor">>), Openable(b))
    [] Kind(b) = "button" ->
         Converter(NameOf(<<"wooden", "button">>), ButtonStates(b))
    [] Kind(b) = "door" -> Converter(NameOf(<<"wooden", "door">>), DoorStates(b))

FromTorch(b) ==
  LET prefix == SubSeq(b.name, 1, Len(b.name) - 1)
      wall == Kind(b) = "wall_torch"
  IN IF Variant(b) = "redstone"
     THEN Converter(PrefixUnlit(b, <<"redstone", "torch">>),
                    IF wall THEN TorchFacingDirectionFromFacing(b)
                    ELSE [torch_facing_direction |-> "top"])
     ELSE IF wall THEN AnyWallTorch(b, prefix) ELSE AnyTorch(prefix)

Devices ==
  {"stonecutter", "loom", "grindstone", "smoker", "blast_furnace", "furnace",
   "barrel", "lantern", "soul_lantern", "bell", "campfire", "soul_campfire",
   "piston", "sticky_piston", "piston_head", "dispenser", "dropper", "lever",
   "tripwire_hook", "daylight_detector", "hopper", "observer", "repeater",
   "comparator", "powered_rail", "detector_rail", "activator_rail", "rail",
   "nether_portal", "lectern", "ender_chest", "chest", "trapped_chest",
   "ladder", "lightning_rod", "end_rod", "end_portal_frame",
   "redstone_wire", "tripwire", "tnt",
   "respawn_anchor", "brewing_stand", "light", "command_block",
   "chain_command_block", "repeating_command_block", "structure_block", "structure_void", "scaffolding",
   "turtle_egg", "beehive", "bee_nest", "composter", "water_cauldron",
   "lava_cauldron", "powder_snow_cauldron", "cake", "bubble_column", "fire",
   "frosted_ice", "snow", "chiseled_bookshelf", "sculk_catalyst",
   "sculk_shrieker", "pointed_dripstone"}

FromDevice(b, tile) ==
  LET n == b.name
      device == Head(n)
      Facing6 == FacingDirectionAFromFacing(b)
      Direction == DirectionFromFacingA(b)
      Aged == [age |-> Get(b, "age", 0)]
      Rails == RailDirectionFromShape(b)
      Cauldron(name, liquid) ==
        Converter(name, [cauldron_liquid |-> liquid] @@ CauldronFillLevelFromLevel(b))
  IN
  CASE device = "stonecutter" -> Converter(<<"stonecutter_block">>, Facing6)
    [] device = "loom" -> Converter(n, Direction)
    [] device = "grindstone" -> Converter(n, Direction @@ GrindstoneFaceToAttachment(b))
    [] device \in {"furnace", "smoker", "blast_furnace"} ->
         Converter(PrefixLit(b), Facing6)
    [] device = "barrel" -> Converter(n, Facing6 @@ [open_bit |-> Is(b, "open")])
    [] device \in {"lantern", "soul_lantern"} ->
         Converter(n, [hanging |-> Is(b, "hanging")])
    [] device = "bell" ->
         Converter(n, BellDirectionFromFacing(b) @@ BellAttachmentFromAttachment(b)
                        @@ [toggle_bit |-> Is(b, "powered")])
    [] device \in {"campfire", "soul_campfire"} ->
         Converter(n, Direction @@ LitToExtinguished(b))
    [] device \in {"piston", "sticky_piston"} ->
         Converter(n, PistonFacingDirectionFromFacing6(b))
    [] device = "piston_head" -> PistonHead(b)
    [] device \in {"dispenser", "dropper"} ->
         Converter(n, Facing6 @@ [triggered_bit |-> Is(b, "triggered")])
    [] device = "lever" ->
         Converter(n, LeverDirection(b) @@ [open_bit |-> Is(b, "powered")])
    [] device = "tripwire_hook" ->
         Converter(n, Direction @@ [attached_bit |-> Is(b, "attached"),
                                    powered_bit |-> Is(b, "powered")])
    [] device = "daylight_detector" ->
         Converter(DaylightDetectorName(b), [redstone_signal |-> Get(b, "power", 0)])
    [] device = "hopper" -> Converter(n, Facing6 @@ ToggleBitFromEnabled(b))
    [] device = "observer" -> Converter(n, Facing6 @@ [powered_bit |-> Is(b, "powered")])
    [] device = "repeater" ->
         Converter(RepeaterName(b),
                   [repeater_delay |-> Get(b, "delay", 1) - 1] @@ Direction)
    [] device = "comparator" ->
         Converter(ComparatorName(b), Direction @@ OutputSubtractBitFromMode(b)
                                        @@ [output_lit_bit |-> Is(b, "powered")])
    [] device \in {"powered_rail", "detector_rail", "activator_rail"} ->
         Converter(IF device = "powered_rail" THEN <<"golden_rail">> ELSE n,
                   Rails @@ [rail_data_bit |-> Is(b, "powered")])
    [] device = "rail" -> Converter(n, Rails)
    [] device = "nether_portal" ->
         Converter(<<"portal">>, [portal_axis |-> Get(b, "axis", "x")])
    [] device = "lectern" -> Converter(n, Direction @@ [powered_bit |-> Is(b, "powered")])
    [] device \in {"ender_chest", "chest", "trapped_chest", "ladder",
                   "lightning_rod"} -> Converter(n, Facing6)
    [] device = "end_rod" -> Converter(n, EndRodFacingDirectionFromFacing(b))
    [] device = "end_portal_frame" -> Converter(n, Direction @@ EyeToEndPortalEyeBit(b))
    [] device = "redstone_wire" -> Converter(n, [redstone_signal |-> Get(b, "power", 0)])
    [] device = "tripwire" -> Tripwire(b)
    [] device = "tnt" -> Tnt(b)
    [] device = "respawn_anchor" -> RespawnAnchor(b)
    [] device = "brewing_stand" -> BrewingStand(b)
    [] device = "light" -> Light(b)
    [] device \in {"command_block", "chain_command_block",
                   "repeating_command_block"} ->
         Converter(n, Conditional(b) @@ Facing6)
    [] device = "structure_block" -> StructureBlock(b)
    [] device = "structure_void" -> Subtype(device, "structure_void_type", "void")
    [] device = "scaffolding" -> Scaffolding(b)
    [] device = "turtle_egg" ->
         Converter(n, TurtleEggCount(b) @@ TurtleEggCrackedState(b))
    [] device \in {"beehive", "bee_nest"} -> Converter(n, Direction @@ HoneyLevel(b))
    [] device = "composter" -> Converter(n, [composter_fill_level |-> Get(b, "level", 0)])
    [] device = "water_cauldron" -> Cauldron(<<"cauldron">>, "water")
    [] device = "powder_snow_cauldron" -> Cauldron(<<"cauldron">>, "powder_snow")
    [] device = "lava_cauldron" ->
         Converter(n, [fill_level |-> 6, cauldron_liquid |-> "lava"])
    [] device = "cake" -> Converter(n, BiteCounterFromBites(b))
    [] device = "bubble_column" -> Converter(n, DragDownFromDrag(b))
    [] device \in {"fire", "frosted_ice"} -> Converter(n, Aged)
    [] device = "snow" -> SnowLayer(b)
    [] device = "chiseled_bookshelf" -> ChiseledBookshelf(b, tile)
    [] device = "sculk_catalyst" -> SculkCatalyst(b)
    [] device = "sculk_shrieker" -> SculkShrieker(b)
    [] device = "pointed_dripstone" -> PointedDripstone(b)

Renamed ==
  [grass_block |-> "grass", dead_bush |-> "deadbush", dandelion |-> "yellow_flower",
   snow_block |-> "snow", bricks |-> "brick_block", nether_quartz_ore |-> "quartz_ore",
   red_nether_bricks |-> "red_nether_brick", magma_block |-> "magma",
   end_stone_bricks |-> "end_bricks", melon |-> "melon_block",
   nether_bricks |-> "nether_brick", slime_block |-> "slime",
   note_block |-> "noteblock", lily_pad |-> "waterlily", cobweb |-> "web",
   cave_air |-> "air", void_air |-> "air", dirt_path |-> "grass_path",
   waxed_copper_block |-> "waxed_copper", rooted_dirt |-> "dirt_with_roots",
   frogspawn |-> "frog_spawn"]

(* What a pot holds, a skull is and a spawner spawns is in the block entity. *)
FromHolder(b) ==
  CASE b.name = <<"spawner">> -> Null
    [] b.name = <<"flower_pot">> -> Converter(b.name, [update_bit |-> FALSE])
    [] Variant(b) = "potted" -> Converter(<<"flower_pot">>, [update_bit |-> TRUE])
    [] Kind(b) \in {"skull", "head"} ->
         Converter(<<"skull">>, [facing_direction |-> 1, no_drop_bit |-> FALSE])
    [] Kind(b) \in {"wall_skull", "wall_head"} ->
         Converter(<<"skull">>, [no_drop_bit |-> FALSE] @@ WallSkullFacingDirection(b))

Pillars ==
  {"stem", "hyphae", "basalt", "deepslate", "chain", "froglight",
   "muddy_mangrove_roots", "bamboo_block"}

From(b, tile) ==
  LET k == Kind(b) v == Variant(b) n == b.name IN
  CASE v # "potted" /\ k \in {"log", "wood", "leaves", "planks", "fence", "sapling"} ->
         FromWood(b)
    [] k = "slab" -> FromSlab(b)
    [] k = "stairs" -> FromStairs(b)
    [] k \in {"wool", "carpet", "concrete", "concrete_powder", "stained_glass",
              "stained_glass_pane", "terracotta", "shulker_box", "bed", "banner",
              "glazed_terracotta", "wall_banner", "candle", "candle_cake"} ->
         FromColored(b)
    [] k \in {"coral_block", "coral", "coral_fan", "coral_wall_fan"} -> FromCoral(b)
    [] k \in {"sign", "wall_sign", "hanging_sign", "wall_hanging_sign"} -> FromSign(b)
    [] k = "wall" -> FromWall(b)
    [] k \in {"fence_gate", "pressure_plate", "trapdoor", "button", "door"} ->
         FromMechanism(b)
    [] k \in {"torch", "wall_torch"} -> FromTorch(b)
    [] \/ k \in {"stone", "granite", "andesite", "diorite", "dirt", "sandstone",
                 "red_sandstone", "quartz_block", "smooth_quartz", "quartz_pillar",
                 "sand", "red_sand", "sponge", "wet_sponge", "prismarine",
                 "dark_prismarine", "purpur_block", "purpur_pillar", "stone_bricks",
                 "anvil", "bone_block", "hay_block"}
       \/ v = "infested" \/ n = <<"prismarine", "bricks">> -> FromStone(b)
    [] Len(n) = 1 /\ v \in Plants \cup DOMAIN Flower -> FromPlant(b)
    [] k = "vines" -> NetherVines(v, Get(b, "age", 0))
    [] k = "vines_plant" -> NetherVines(v, 25)
    [] Len(n) = 1 /\ v \in Devices -> FromDevice(b, tile)
    [] Len(n) = 1 /\ v \in DOMAIN Renamed -> Rename(<<Renamed[v]>>)
    [] \/ k \in {"skull", "head", "wall_skull", "wall_head"}
       \/ v = "potted" \/ n \in {<<"spawner">>, <<"flower_pot">>} -> FromHolder(b)
    [] v # "infested" /\ k \in Pillars -> WithAxis(b)
    [] k \in {"redstone_lamp", "redstone_ore"} -> Rename(PrefixLit(b))
    [] k \in {"amethyst_bud", "amethyst_cluster"} ->
         Converter(n, FacingDirectionAFromFacing(b))
    [] n \in {<<"water">>, <<"lava">>} -> Liquid(b)
    [] v = "flowing" -> FlowingLiquid(b)
    [] n = <<"j2b", "piston_arm_collision">> -> PistonArmCollision(b)
    [] n = <<"j2b", "sticky", "piston_arm_collision">> -> StickyPistonArmCollision(b)
    [] n = <<"moving_piston">> -> Rename(<<"moving_block">>)
    [] OTHER -> Identity(b)
=============================================================================
