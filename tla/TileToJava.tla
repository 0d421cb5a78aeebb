----------------------------- MODULE TileToJava -----------------------------
(***************************************************************************)
(* toje::BlockEntity (src/src/toje-block-entity.cpp): what a Bedrock block *)
(* and its block entity make of a Java block: a record of the block and of *)
(* the block entity, either of them Null where it is not touched.  Blocks  *)
(* and block entities are those of BlockToJava and TileToBedrock.          *)
(***************************************************************************)
EXTENDS ItemTables, SequencesExt

CONSTANTS
  ItemFrom(_),   \* Item::From
  EntityFrom(_)  \* Entity::From, of a bee

Kind(b) == Last(b.name)

Result(block, tile) == [block |-> block, tile |-> tile]

EmptyShortName(id) == [id |-> id, keepPacked |-> FALSE]

Copied(tag, fields) == [f \in fields \cap DOMAIN tag |-> tag[f]]

(* Every item that is held with its Java form, Null where it has none.     *)
Held(tag) ==
  LET held(i) == [was |-> i, item |-> ItemFrom(i)]
      lists == [f \in {"Items", "Item", "RecordItem", "book"} \cap DOMAIN tag |->
                  IF f \in {"Items", "Item"} THEN tag[f] ELSE <<tag[f]>>]
  IN [f \in DOMAIN lists |-> Each(held, lists[f])] @@ tag

(* An item without a slot has no place in a container. *)
ContainerItems(tag) ==
  LET there == SelectSeq(tag.Items, LAMBDA i : Has(i.was, "Slot") /\ i.item # Null)
  IN [k \in DOMAIN there |-> [Slot |-> there[k].was.Slot] @@ there[k].item]

Items(tag) == IF Has(tag, "Items") THEN [Items |-> ContainerItems(tag)] ELSE <<>>

(* How many items of a list that has no slots are at its n-th place. *)
CountAt(tag, n) == IF n \in DOMAIN tag.Items THEN Field(tag.Items[n].was, "Count", 0) ELSE 0

ContainerItemsWithoutSlot(tag) ==
  LET places == IF Has(tag, "Items") THEN [n \in DOMAIN tag.Items |-> n] ELSE <<>>
      there == SelectSeq(places, LAMBDA n : CountAt(tag, n) > 0 /\ tag.Items[n].item # Null)
  IN [k \in DOMAIN there |-> [Slot |-> there[k] - 1] @@ tag.Items[there[k]].item]

-----------------------------------------------------------------------------
(* Converters: of a Bedrock block s, its block entity tag and the Java     *)
(* block blockJ                                                            *)

(* A pattern without a colour or a name is left out. *)
Banner(s, tag, blockJ) ==
  LET color == JavaNameFromColorCodeJava[Decode(BannerColorCodeBedrock,
                                                Field(tag, "Base", 0), "White")]
      pattern(p) == [Color |-> ColorCodeJavaFromBannerColorCodeBedrock(p.Color),
                     Pattern |-> p.Pattern]
      whole == SelectSeq(Field(tag, "Patterns", <<>>),
                         LAMBDA p : Has(p, "Color") /\ Has(p, "Pattern"))
      ominous == Field(tag, "Type", 0) = 1
  IN Result([blockJ EXCEPT !.name = <<color, IF s.name = <<"standing_banner">> THEN "banner"
                                             ELSE "wall_banner">>],
            EmptyShortName(<<"banner">>)
              @@ (IF ominous
                  THEN [CustomName |-> [json |-> "object", color |-> "gold",
                                        translate |-> "block.minecraft.ominous_banner"],
                        Patterns |-> OminousBannerPatterns]
                  ELSE IF Has(tag, "Patterns") THEN [Patterns |-> Each(pattern, whole)]
                  ELSE <<>>))

Beacon(tag) ==
  EmptyShortName(<<"beacon">>)
    @@ [Primary |-> Field(tag, "primary", -1), Secondary |-> Field(tag, "secondary", -1)]

Bed(tag, blockJ) ==
  LET color == JavaNameFromColorCodeJava[Decode(ColorCodeJava, Field(tag, "color", 0), "White")]
  IN Result([blockJ EXCEPT !.name = <<color, "bed">>], EmptyShortName(<<"bed">>))

(* The bees are written as they are, without an EntityData around them.    *)
Beehive(tag) ==
  LET bee(occupant) == EntityFrom(Field(occupant, "SaveData", occupant))
  IN EmptyShortName(<<"beehive">>)
       @@ IF Has(tag, "Occupants") THEN [Bees |-> Each(bee, tag.Occupants)] ELSE <<>>

SlotInBrewingStand == 0 :> 3 @@ 1 :> 0 @@ 2 :> 1 @@ 3 :> 2 @@ 4 :> 4

(* Of the first five items, sorted by their new slot; the last one with a  *)
(* slot has it.                                                            *)
BrewingStand(tag) ==
  LET items == ContainerItems(tag)
      of(slot) == {k \in DOMAIN items \cap 1..5 :
                     /\ items[k].Slot \in DOMAIN SlotInBrewingStand
                     /\ SlotInBrewingStand[items[k].Slot] = slot}
      last(slot) == CHOOSE k \in of(slot) : \A l \in of(slot) : l <= k
      filled == SelectSeq(<<0, 1, 2, 3, 4>>, LAMBDA slot : of(slot) # {})
  IN EmptyShortName(<<"brewing_stand">>)
       @@ (IF Has(tag, "Items")
           THEN [Items |-> [n \in DOMAIN filled |->
                              [items[last(filled[n])] EXCEPT !.Slot = filled[n]]]]
           ELSE <<>>)
       @@ [BrewTime |-> Field(tag, "CookTime", 0), Fuel |-> Field(tag, "FuelAmount", 0)]

(* The times of an item that is there or was there: 600 ticks. *)
Campfire(tag) ==
  LET items == Field(tag, "Item", <<>>)
      times == Field(tag, "ItemTime", <<>>)
      item == [n \in 1..4 |-> IF n \in DOMAIN items THEN items[n].item ELSE Null]
      time == [n \in 1..4 |-> IF n \in DOMAIN times THEN times[n] ELSE 0]
      there == SelectSeq(<<1, 2, 3, 4>>, LAMBDA n : item[n] # Null)
  IN EmptyShortName(<<"campfire">>)
       @@ [Items |-> [k \in DOMAIN there |-> [Slot |-> there[k] - 1] @@ item[there[k]]],
           CookingTimes |-> time,
           CookingTotalTimes |->
             [n \in 1..4 |-> IF item[n] # Null \/ time[n] > 0 THEN 600 ELSE 0]]

(* The two halves of a large chest may have to swap their items. *)
Chest(s, tag, blockJ) ==
  LET facing == Facing6FromBedrockFacingDirectionA(Field(s, "facing_direction", 0))
      d == <<Pos3iFromFacing6[facing][1], Pos3iFromFacing6[facing][3]>>
      paired == {"pairx", "pairz"} \subseteq DOMAIN tag
      type == CASE ~paired -> "single"
                [] paired /\ <<tag.pairx, tag.pairz>> = <<d[2], -d[1]>> -> "right"
                [] paired /\ <<tag.pairx, tag.pairz>> = <<-d[2], d[1]>> -> "left"
                [] OTHER -> "single"
      lead == Field(tag, "pairlead", FALSE)
      takesItems == (type = "right" /\ ~lead) \/ (type = "left" /\ lead)
      loot == LootTableBedrockToJava(tag)
  IN Result(("type" :> type) @@ blockJ,
            EmptyShortName(s.name) @@ loot
              @@ IF loot = <<>> /\ ~takesItems THEN Items(tag) ELSE <<>>)

Occupied ==
  <<"slot_0_occupied", "slot_1_occupied", "slot_2_occupied", "slot_3_occupied",
    "slot_4_occupied", "slot_5_occupied">>

ChiseledBookshelf(s, tag, blockJ) ==
  LET slot(p) == CHOOSE n \in DOMAIN Occupied : Occupied[n] = p
  IN Result((IF Has(tag, "Items") THEN [p \in ToSet(Occupied) |-> CountAt(tag, slot(p)) > 0] ELSE <<>>)
              @@ blockJ,
            EmptyShortName(<<"chiseled_bookshelf">>)
              @@ [Items |-> ContainerItemsWithoutSlot(tag),
                  last_interacted_slot |-> Field(s, "last_interacted_slot", 0)])

TranspileBedrockToJava(command) == <<"java", command[2]>>

CommandBlock(tag) ==
  EmptyShortName(<<"command_block">>)
    @@ (IF Has(tag, "Command") THEN [Command |-> TranspileBedrockToJava(tag.Command)] ELSE <<>>)
    @@ Copied(tag, {"SuccessCount", "auto", "powered", "conditionMet", "TrackOutput",
                    "LastExecution"})
    @@ [UpdateLastExecution |-> TRUE, CustomName |-> Text(Field(tag, "CustomName", "@"))]

EndGateway(tag) ==
  EmptyShortName(<<"end_gateway">>)
    @@ (IF Has(tag, "ExitPortal")
        THEN [ExitPortal |-> [X |-> tag.ExitPortal[1], Y |-> tag.ExitPortal[2],
                              Z |-> tag.ExitPortal[3]]] ELSE <<>>)
    @@ Copied(tag, {"Age"})

(* The name of the plant, Null where the block does not say which. *)
Potted(plant) ==
  LET flower == RedFlowerFromBedrockName(Field(plant, "flower_type", None))
  IN CASE plant.name = <<"sapling">> ->
            IF Has(plant, "sapling_type") THEN <<plant.sapling_type, "sapling">>
            ELSE Null
       [] plant.name = <<"red_flower">> ->
            IF flower # None THEN <<JavaNameFromRedFlower[flower]>> ELSE Null
       [] plant.name = <<"yellow_flower">> -> <<"dandelion">>
       [] plant.name = <<"deadbush">> -> <<"dead_bush">>
       [] plant.name = <<"tallgrass">> ->
            IF Has(plant, "tall_grass_type") THEN <<plant.tall_grass_type>>
            ELSE Null
       [] plant.name = <<"azalea">> -> <<"azalea_bush">>
       [] plant.name = <<"flowering_azalea">> -> <<"flowering_azalea_bush">>
       [] OTHER -> plant.name

FlowerPot(tag) ==
  LET plant == IF Has(tag, "PlantBlock") THEN Potted(tag.PlantBlock) ELSE Null
  IN Result(IF plant = Null THEN Null ELSE [name |-> <<"potted">> \o plant], Null)

Furnace(s, tag) ==
  EmptyShortName(<<Kind(s)>>)
    @@ Renamed(tag, [BurnTime |-> "BurnDuration", CookTime |-> "CookTime",
                     CookTimeTotal |-> "BurnTime"])
    @@ [RecipesUsed |-> <<>>] @@ Items(tag)

AnyStorage(id, tag) == EmptyShortName(<<id>>) @@ Items(tag)

Hopper(tag) ==
  AnyStorage("hopper", tag) @@ [TransferCooldown |-> Field(tag, "TransferCooldown", 0)]

Jukebox(tag, blockJ) ==
  LET record == IF Has(tag, "RecordItem") THEN tag.RecordItem[1].item ELSE Null
  IN Result([name |-> <<"jukebox">>, has_record |-> Has(tag, "RecordItem")] @@ blockJ,
            EmptyShortName(<<"jukebox">>)
              @@ IF record = Null THEN <<>> ELSE [RecordItem |-> record])

Lectern(tag, blockJ) ==
  LET book == IF Has(tag, "book") THEN tag.book[1].item ELSE Null
  IN Result([has_book |-> book # Null] @@ blockJ,
            EmptyShortName(<<"lectern">>) @@ Renamed(tag, [Page |-> "page"])
              @@ IF book = Null THEN <<>> ELSE [Book |-> book])

MobSpawner(tag) ==
  LET data == [entity |-> [id |-> tag.EntityIdentifier]]
  IN EmptyShortName(<<"mob_spawner">>)
       @@ Copied(tag, {"Delay", "MaxNearbyEntities", "MaxSpawnDelay", "MinSpawnDelay",
                       "RequiredPlayerRange", "SpawnCount", "SpawnRange"})
       @@ IF Has(tag, "EntityIdentifier")
          THEN [SpawnData |-> data, SpawnPotentials |-> <<[data |-> data, weight |-> 1]>>]
          ELSE <<>>

Noteblock(tag, blockJ) == Result(Copied(tag, {"note"}) @@ blockJ, Null)

ShulkerBox(tag, blockJ) ==
  LET facing == Facing6FromBedrockFacingDirectionA(Field(tag, "facing", 0))
  IN Result([facing |-> JavaNameFromFacing6[facing]] @@ blockJ, AnyStorage("shulker_box", tag))

(* All lines of a Bedrock sign are one text; Java has four. *)
TextKeys == <<"Text1", "Text2", "Text3", "Text4">>

(* A dye looks most like itself. *)
SignColor(rgb) == JavaNameFromColorCodeJava[rgb[2]]

Sign(id, tag) ==
  LET lines == Field(tag, "Text", <<>>)
      key(k) == CHOOSE n \in DOMAIN TextKeys : TextKeys[n] = k
  IN EmptyShortName(<<id>>)
       @@ [GlowingText |-> Field(tag, "IgnoreLighting", FALSE)]
       @@ (IF Has(tag, "SignTextColor") THEN [Color |-> SignColor(tag.SignTextColor)] ELSE <<>>)
       @@ [k \in ToSet(TextKeys) |->
             Text(IF key(k) \in DOMAIN lines THEN lines[key(k)] ELSE <<>>)]

SkullName ==
  [Player |-> <<"player", "head">>, Zombie |-> <<"zombie", "head">>,
   Creeper |-> <<"creeper", "head">>, Dragon |-> <<"dragon", "head">>,
   Skeleton |-> <<"skeleton", "skull">>, WitherSkeleton |-> <<"wither_skeleton", "skull">>,
   Piglin |-> <<"piglin", "head">>]

\* Mutant: the angle is not rounded up.
RotationRoundedDown(tenths) == ((tenths \div 10) * 16) \div 360

(* Half a degree more, rounded: sixteenths of a turn are rounded down. *)
RotationFromTenths(tenths) == (((tenths + 10) \div 10) * 16) \div 360

Skull(s, tag) ==
  LET name == SkullName[Decode(SkullType, Field(tag, "SkullType", 0), "Skeleton")]
      f == Facing6FromBedrockFacingDirectionA(Field(s, "facing_direction", 1))
  IN Result(IF f \in {"Up", "Down"}
            THEN [name |-> name, rotation |-> RotationFromTenths(Field(tag, "Rotation", 0))]
            ELSE [name |-> <<name[1], [head |-> "wall_head", skull |-> "wall_skull"][name[2]]>>,
                  facing |-> JavaNameFromFacing6[f]],
            EmptyShortName(<<"skull">>))

StructureBlock(tag) ==
  EmptyShortName(<<"structure_block">>)
    @@ Renamed(tag,
         [ignoreEntities |-> "ignoreEntities", powered |-> "isPowered",
          showboundingbox |-> "showBoundingBox", integrity |-> "integrity",
          name |-> "structureName", metadata |-> "dataField",
          posX |-> "xStructureOffset", posY |-> "yStructureOffset",
          posZ |-> "zStructureOffset", sizeX |-> "xStructureSize",
          sizeY |-> "yStructureSize", sizeZ |-> "zStructureSize", seed |-> "seed"])
    @@ [showair |-> FALSE,
        mirror |-> Forward(1 :> "LEFT_RIGHT" @@ 2 :> "FRONT_BACK",
                           Field(tag, "mirror", 0), "NONE"),
        mode |-> Forward(1 :> "SAVE" @@ 3 :> "CORNER", Field(tag, "data", 1), "LOAD"),
        rotation |-> Forward(1 :> "CLOCKWISE_90" @@ 2 :> "CLOCKWISE_180"
                               @@ 3 :> "COUNTERCLOCKWISE_90", Field(tag, "rotation", 0), "NONE")]

-----------------------------------------------------------------------------
(* The table, by the name of the Bedrock block *)

(* The block entities that change the block as well. *)
WithBlock(s, tag, blockJ) ==
  LET k == Kind(s)
  IN CASE k = "flower_pot" -> FlowerPot(tag)
       [] k = "skull" -> Skull(s, tag)
       [] k = "bed" -> Bed(tag, blockJ)
       [] k \in {"standing_banner", "wall_banner"} -> Banner(s, tag, blockJ)
       [] k = "jukebox" -> Jukebox(tag, blockJ)
       [] s.name \in {<<"shulker_box">>, <<"undyed", "shulker_box">>} -> ShulkerBox(tag, blockJ)
       [] k = "noteblock" -> Noteblock(tag, blockJ)
       [] k \in {"chest", "trapped_chest"} -> Chest(s, tag, blockJ)
       [] k = "lectern" -> Lectern(tag, blockJ)
       [] k = "chiseled_bookshelf" -> ChiseledBookshelf(s, tag, blockJ)
       [] OTHER -> Null

SameNameEmpty ==
  {"ender_chest", "enchanting_table", "bell", "conduit", "end_portal", "sculk_sensor",
   "sculk_shrieker", "sculk_catalyst"}

WithoutBlock(s, tag) ==
  LET k == Kind(s)
  IN CASE k \in {"wall_sign", "standing_sign"} -> Sign("sign", tag)
       [] k = "hanging_sign" -> Sign("hanging_sign", tag)
       [] k \in SameNameEmpty -> EmptyShortName(<<k>>)
       [] k \in {"barrel", "dispenser", "dropper"} -> AnyStorage(k, tag)
       [] k \in {"campfire", "soul_campfire"} -> Campfire(tag)
       [] k \in {"furnace", "blast_furnace", "smoker"} -> Furnace(s, tag)
       [] k = "comparator" ->
            EmptyShortName(<<k>>) @@ [OutputSignal |-> Field(tag, "OutputSignal", 0)]
       [] k = "brewing_stand" -> BrewingStand(tag)
       [] k = "hopper" -> Hopper(tag)
       [] k = "daylight_detector" \/ s.name = <<"daylight_detector", "inverted">> ->
            EmptyShortName(<<"daylight_detector">>)
       [] k = "beacon" -> Beacon(tag)
       [] k = "mob_spawner" -> MobSpawner(tag)
       [] k \in {"command_block", "chain_command_block", "repeating_command_block"} ->
            CommandBlock(tag)
       [] k = "structure_block" -> StructureBlock(tag)
       [] k \in {"beehive", "bee_nest"} -> Beehive(tag)
       [] k = "end_gateway" -> EndGateway(tag)
       [] OTHER -> Null

(* A block entity that has a name keeps it, whatever its converter does. *)
WithName(tag, result) ==
  LET name == IF Has(tag, "CustomName") THEN [CustomName |-> Text(tag.CustomName)] ELSE <<>>
  IN IF result.tile = Null THEN result ELSE [result EXCEPT !.tile = @ @@ name]

Otherwise(changed, unchanged) == IF changed = Null THEN Result(Null, unchanged) ELSE changed

FromHeld(s, tag, blockJ) ==
  WithName(tag, Otherwise(WithBlock(s, tag, blockJ), WithoutBlock(s, tag)))

FromBlockAndBlockEntity(s, tag, blockJ) == FromHeld(s, Held(tag), blockJ)
=============================================================================
