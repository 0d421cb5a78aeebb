--------------------------- MODULE TileToBedrock ---------------------------
(***************************************************************************)
(* tobe::TileEntity (src/src/tobe-tile-entity.cpp): the Bedrock block      *)
(* entity of a Java block and its block entity, <<>> where there is none.  *)
(*                                                                         *)
(* Blocks, items and texts are those of BlockToBedrock and ItemToBedrock.  *)
(* Places are relative to the block, whose own place is left out.  A       *)
(* command is a pair of the edition whose syntax it has and the command;   *)
(* a line of a sign is a sequence of texts.                                *)
(***************************************************************************)
EXTENDS ItemTables, SequencesExt

CONSTANTS
  ItemFrom(_),   \* Item::From
  EntityFrom(_)  \* Entity::From, of a bee

Kind(b) == Last(b.name)

-----------------------------------------------------------------------------
(* What many have *)

(* Only the text of a JSON object is a name. *)
CustomName(c) ==
  LET name == Field(c, "CustomName", Null)
  IN IF name # Null /\ name.json = "object" /\ Has(name, "text")
     THEN [CustomName |-> name.text] ELSE <<>>

New(id, c) == CustomName(c) @@ [id |-> id, isMovable |-> TRUE]

Storage(id, c) == New(id, c) @@ [Findable |-> FALSE]

Empty(id, c) == CustomName(c) @@ [id |-> id]

(* Every item that is held with its Bedrock form, Null where it has none.  *)
Held(c) ==
  LET held(i) == [was |-> i, item |-> ItemFrom(i)]
      lists == [f \in {"Items", "RecordItem", "Book"} \cap DOMAIN c |->
                  IF f = "Items" THEN c[f] ELSE <<c[f]>>]
  IN [f \in DOMAIN lists |-> Each(held, lists[f])] @@ c

(* An item without a Bedrock form is dropped. *)
GetItems(c) ==
  LET there == SelectSeq(Field(c, "Items", <<>>), LAMBDA i : i.item # Null)
  IN [k \in DOMAIN there |->
        [Slot |-> Field(there[k].was, "Slot", 0), Count |-> Field(there[k].was, "Count", 1)]
          @@ there[k].item]

Items(c) == IF Has(c, "Items") THEN [Items |-> GetItems(c)] ELSE <<>>

WithoutSlot(item) == [f \in DOMAIN item \ {"Slot"} |-> item[f]]

NoItem == [Name |-> <<>>, Count |-> 0, Damage |-> 0]

(* A slot that two items have is the last one's. *)
GetItemsRemovingSlot(c) ==
  LET items == GetItems(c)
      of(slot) == {k \in DOMAIN items : items[k].Slot = slot}
  IN [n \in 1..6 |-> IF of(n - 1) = {} THEN NoItem
                     ELSE WithoutSlot(items[CHOOSE k \in of(n - 1) :
                                              \A l \in of(n - 1) : l <= k])]

-----------------------------------------------------------------------------
(* Converters *)

Right90(v) == <<-v[2], v[1]>>

Left90(v) == <<v[2], -v[1]>>

Pair(b) ==
  LET type == Field(b, "type", "single")
      direction == Pos2iFromFacing4[Facing4FromJavaName(Field(b, "facing", "north"))]
      partner == IF type = "left" THEN Right90(direction) ELSE Left90(direction)
  IN IF type = "single" THEN <<>>
     ELSE [pairlead |-> type = "right", pairx |-> partner[1], pairz |-> partner[2]]

Chest(b, c) ==
  LET loot == LootTableJavaToBedrock(c)
  IN (IF loot = <<>> THEN Items(c) ELSE loot) @@ Storage("Chest", c) @@ Pair(b)

AnyStorage(id, c) == Items(c) @@ Storage(id, c)

Furnace(id, c) ==
  Renamed(c, [BurnDuration |-> "BurnTime", CookTime |-> "CookTime",
              BurnTime |-> "CookTimeTotal"]) @@ AnyStorage(id, c)

Hopper(c) ==
  AnyStorage("Hopper", c) @@ [TransferCooldown |-> Field(c, "TransferCooldown", 0)]

SlotInBrewingStand == 0 :> 1 @@ 1 :> 2 @@ 2 :> 3 @@ 3 :> 0 @@ 4 :> 4

(* Items are sorted by their new slot. *)
BrewingStand(c) ==
  LET items == GetItems(c)
      of(slot) == {k \in DOMAIN items : /\ items[k].Slot \in DOMAIN SlotInBrewingStand
                                        /\ SlotInBrewingStand[items[k].Slot] = slot}
      filled == SelectSeq(<<0, 1, 2, 3, 4>>, LAMBDA slot : of(slot) # {})
  IN IF ~Has(c, "Items") THEN Null
     ELSE Storage("BrewingStand", c)
            @@ [Items |-> [n \in DOMAIN filled |->
                             [items[CHOOSE k \in of(filled[n]) : TRUE]
                                EXCEPT !.Slot = filled[n]]],
                CookTime |-> Field(c, "BrewTime", 0),
                FuelAmount |-> Field(c, "Fuel", 0), FuelTotal |-> 20]

ShulkerBox(b, c) ==
  Items(c) @@ Storage("ShulkerBox", c)
    @@ [facing |-> BedrockFacingDirectionAFromFacing6[
                     Facing6FromJavaName(Field(b, "facing", ""))]]

(* The slots of a campfire are numbered by the place of an item in the     *)
(* list, its times by the slot.                                            *)
Campfire(c) ==
  LET times == Field(c, "CookingTimes", <<>>)
      items == GetItems(c)
  IN Empty("Campfire", c)
       @@ [ItemTime |-> [n \in DOMAIN times \cap 1..4 |-> times[n]],
           Item |-> [n \in DOMAIN items \cap 1..4 |-> items[n]]]

ChiseledBookshelf(c) == New("ChiseledBookshelf", c) @@ [Items |-> GetItemsRemovingSlot(c)]

Jukebox(c) ==
  LET record == IF Has(c, "RecordItem") THEN c.RecordItem[1].item ELSE Null
  IN New("Jukebox", c) @@ IF record = Null THEN <<>> ELSE [RecordItem |-> record]

Lectern(c) ==
  LET book == IF Has(c, "Book") THEN c.Book[1].item ELSE Null
      pages == Field(Field(book, "tag", Null), "pages", <<>>)
  IN New("Lectern", c)
       @@ (IF book = Null THEN <<>> ELSE [book |-> book])
       @@ [hasBook |-> Has(c, "Book")]
       @@ Renamed(c, [page |-> "Page"])
       @@ IF pages = <<>> THEN <<>> ELSE [totalPages |-> Len(pages)]

Beacon(c) ==
  New("Beacon", c)
    @@ [primary |-> Field(c, "Primary", -1), secondary |-> Field(c, "Secondary", -1)]

Cauldron(c) == New("Cauldron", c) @@ [PotionId |-> -1, PotionType |-> -1]

Note(b, c) == New("Music", c) @@ [note |-> Field(b, "note", 0)]

(* Only a bee in its EntityData is found, its ticks only together; the     *)
(* UUID that the code gives it is not read on the way back.                *)
Beehive(c) ==
  LET ticks == {"MinOccupationTicks", "TicksInHive"}
      left(bee) == bee.MinOccupationTicks - bee.TicksInHive
      occupant(bee) ==
        [SaveData |-> EntityFrom(bee.EntityData)]
          @@ IF ticks \subseteq DOMAIN bee
             THEN [TicksLeftToStay |-> IF left(bee) > 0 THEN left(bee) ELSE 0] ELSE <<>>
      bees == SelectSeq(Field(c, "Bees", <<>>), LAMBDA bee : Has(bee, "EntityData"))
  IN New("Beehive", c)
       @@ (IF Has(c, "Bees") THEN [Occupants |-> Each(occupant, bees)] ELSE <<>>)
       @@ [ShouldSpawnBees |-> ~Has(c, "Bees")]

TranspileJavaToBedrock(command) == <<"bedrock", command[2]>>

(* The default name of a command block, @, is no name. *)
CommandBlock(c) ==
  LET all == New("CommandBlock", c)
               @@ Renamed(c, [LastExecution |-> "LastExecution"])
               @@ [powered |-> Field(c, "powered", FALSE), auto |-> Field(c, "auto", FALSE),
                   TrackOutput |-> Field(c, "TrackOutput", TRUE),
                   SuccessCount |-> Field(c, "SuccessCount", 0),
                   Command |-> TranspileJavaToBedrock(Field(c, "Command", <<"java", "">>)),
                   conditionMet |-> Field(c, "conditionMet", FALSE)]
  IN [f \in DOMAIN all \ {n \in {"CustomName"} : Field(all, n, "") = "@"} |-> all[f]]

(* The block entities of moving pistons were made by the pass over the     *)
(* chunk; they only lose the mark it gave them.                            *)
MovingPiston(c) ==
  IF Field(c, "id", Null) # <<"j2b", "MovingBlock">> THEN Null
  ELSE [c EXCEPT !.id = <<"MovingBlock">>]

PistonArm(sticky, c) ==
  CASE c = Null -> Null
    [] c # Null /\ c.id = <<"j2b", "PistonArm">> -> [c EXCEPT !.id = <<"PistonArm">>]
    [] OTHER -> [id |-> <<"PistonArm">>, isMovable |-> FALSE, LastProgress |-> 1,
                 NewState |-> 2, Progress |-> 1, State |-> 2, Sticky |-> sticky,
                 AttachedBlocks |-> <<>>, BreakBlocks |-> <<>>] @@ CustomName(c)

EndGateway(c) ==
  New("EndGateway", c)
    @@ [Age |-> Field(c, "Age", 0)]
    @@ IF Has(c, "ExitPortal")
       THEN [ExitPortal |-> <<c.ExitPortal.X, c.ExitPortal.Y, c.ExitPortal.Z>>] ELSE <<>>

Bell(c) == Empty("Bell", c) @@ [Direction |-> 0, Ringing |-> FALSE, Ticks |-> 0]

Conduit(c) == Empty("Conduit", c) @@ [Active |-> FALSE, Target |-> -1]

Comparator(c) == Empty("Comparator", c) @@ [OutputSignal |-> Field(c, "OutputSignal", 0)]

StructureBlock(c) ==
  Renamed(c,
      [ignoreEntities |-> "ignoreEntities", isPowered |-> "powered",
       showBoundingBox |-> "showboundingbox", integrity |-> "integrity",
       structureName |-> "name", dataField |-> "metadata", xStructureOffset |-> "posX",
       yStructureOffset |-> "posY", zStructureOffset |-> "posZ",
       xStructureSize |-> "sizeX", yStructureSize |-> "sizeY",
       zStructureSize |-> "sizeZ", seed |-> "seed"])
    @@ [mirror |-> Forward([LEFT_RIGHT |-> 1, FRONT_BACK |-> 2], Field(c, "mirror", ""), 0),
        data |-> Forward([SAVE |-> 1, CORNER |-> 3], Field(c, "mode", ""), 2),
        rotation |-> Forward([CLOCKWISE_90 |-> 1, CLOCKWISE_180 |-> 2,
                              COUNTERCLOCKWISE_90 |-> 3], Field(c, "rotation", ""), 0)]
    @@ Empty("StructureBlock", c)
    @@ [animationMode |-> FALSE, dataField |-> "", redstoneSaveMode |-> 0,
        removeBlocks |-> FALSE]

GetSkullTypeFromBlockName(name) ==
  LET words == [n \in DOMAIN name |-> CASE name[n] = "wall_head" -> "head"
                                        [] name[n] = "wall_skull" -> "skull"
                                        [] OTHER -> name[n]]
      type == SkullTypeFromJavaName(words[1] \o "_" \o words[2])
  IN IF type = None THEN 0 ELSE SkullType[type]

(* An angle in tenths of a degree. *)
Skull(b, c) ==
  New("Skull", c)
    @@ [SkullType |-> GetSkullTypeFromBlockName(b.name), MouthMoving |-> FALSE,
        Rotation |-> Field(b, "rotation", 0) * 225]

(* Only what the code sets apart from the name of the plant.               *)
PlantBlock(plant) ==
  LET p == Last(plant)
      flower == RedFlowerFromJavaName(p)
  IN CASE p = "sapling" ->
            [name |-> <<"sapling">>, age_bit |-> FALSE, sapling_type |-> plant[1]]
       [] flower # None /\ p \notin {"dandelion", "wither_rose"} ->
            [name |-> <<"red_flower">>, flower_type |-> BedrockNameFromRedFlower[flower]]
       [] p = "dandelion" -> [name |-> <<"yellow_flower">>]
       [] p = "dead_bush" -> [name |-> <<"deadbush">>]
       [] p = "fern" -> [name |-> <<"tallgrass">>, tall_grass_type |-> "fern"]
       [] p = "bamboo" ->
            [name |-> <<"bamboo">>, age_bit |-> FALSE, bamboo_leaf_size |-> "no_leaves"]
       [] p = "azalea_bush" -> [name |-> <<"azalea">>]
       [] p = "flowering_azalea_bush" -> [name |-> <<"flowering_azalea">>]
       [] p = "mangrove_propagule" ->
            [name |-> <<p>>, hanging |-> FALSE, propagule_stage |-> 0]
       [] OTHER -> [name |-> plant]

Potted(b, c) == New("FlowerPot", c) @@ [PlantBlock |-> PlantBlock(Tail(b.name))]

IsOminous(c) ==
  LET name == Field(c, "CustomName", Null)
  IN name # Null /\ Field(name, "color", "") = "gold"
       /\ Field(name, "translate", "") = "block.minecraft.ominous_banner"

Banner(b, c) ==
  LET pattern(p) == [Color |-> BannerColorCodeFromJava(p.Color), Pattern |-> p.Pattern]
  IN New("Banner", c)
       @@ [Type |-> IF IsOminous(c) THEN 1 ELSE 0,
           Base |-> BannerColorCodeFromName(b.name[1]),
           Patterns |-> IF IsOminous(c) THEN <<>>
                        ELSE Each(pattern, Field(c, "Patterns", <<>>))]

Bed(b, c) == New("Bed", c) @@ [color |-> ColorCodeJava[ColorCodeJavaFromJavaName(b.name[1])]]

GetSignLine(text) == Field(text, "text", <<>>) \o Field(text, "extra", <<>>)

TextKeys == <<"Text1", "Text2", "Text3", "Text4">>

(* A line that is no JSON takes the whole sign with it. *)
Sign(id, c) ==
  IF ~Has(c, "Color") \/ \E n \in 1..4 : ~Has(c, TextKeys[n]) \/ c[TextKeys[n]].json = "none"
  THEN Null
  ELSE New(id, c)
         @@ [Text |-> [n \in 1..4 |-> GetSignLine(c[TextKeys[n]])], TextOwner |-> "",
             SignTextColor |-> Dye(ColorCodeJavaFromJavaName(c.Color)),
             IgnoreLighting |-> Field(c, "GlowingText", FALSE),
             TextIgnoreLegacyBugResolved |-> TRUE]

(* The mob keeps its Java name; a spawner of an older version names it     *)
(* without the entity.                                                     *)
Spawner(c) ==
  LET data == Field(c, "SpawnData", Null)
      mob == Field(Field(data, "entity", data), "id", None)
  IN [id |-> "MobSpawner", isMovable |-> TRUE,
      MaxNearbyEntities |-> Field(c, "MaxNearbyEntities", 6),
      MaxSpawnDelay |-> Field(c, "MaxSpawnDelay", 800),
      MinSpawnDelay |-> Field(c, "MinSpawnDelay", 200),
      RequiredPlayerRange |-> Field(c, "RequiredPlayerRange", 16),
      Delay |-> Field(c, "Delay", 0), SpawnCount |-> Field(c, "SpawnCount", 4),
      SpawnRange |-> Field(c, "SpawnRange", 4)]
       @@ IF mob = None THEN <<>> ELSE [EntityIdentifier |-> mob]

-----------------------------------------------------------------------------
(* The table.  Some make the block entity that Java has not; the others    *)
(* have one only if Java has one.                                          *)

StorageIds ==
  [barrel |-> "Barrel", dropper |-> "Dropper", dispenser |-> "Dispenser",
   ender_chest |-> "EnderChest"]

FurnaceIds ==
  [furnace |-> "Furnace", blast_furnace |-> "BlastFurnace", smoker |-> "Smoker"]

NamedEmpty ==
  [daylight_detector |-> "DaylightDetector", sculk_sensor |-> "SculkSensor",
   sculk_shrieker |-> "SculkShrieker", sculk_catalyst |-> "SculkCatalyst",
   enchanting_table |-> "EnchantTable"]

Heads == {"skull", "head", "wall_skull", "wall_head"}

FromBlock(b, c) ==
  LET k == Kind(b)
  IN CASE k \in {"chest", "trapped_chest"} -> Chest(b, c)
       [] k = "shulker_box" -> ShulkerBox(b, c)
       [] k = "bed" -> Bed(b, c)
       [] k \in {"banner", "wall_banner"} -> Banner(b, c)
       [] b.name[1] = "potted" -> Potted(b, c)
       [] k \in Heads -> Skull(b, c)
       [] k \in DOMAIN StorageIds -> AnyStorage(StorageIds[k], c)
       [] k \in DOMAIN FurnaceIds -> Furnace(FurnaceIds[k], c)
       [] k = "note_block" -> Note(b, c)
       [] k = "jukebox" -> Jukebox(c)
       [] k \in {"water_cauldron", "lava_cauldron", "powder_snow_cauldron"} -> Cauldron(c)
       [] k = "end_portal" -> New("EndPortal", c)
       [] k = "beacon" -> Beacon(c)
       [] k = "lectern" -> Lectern(c)
       [] k \in {"bee_nest", "beehive"} -> Beehive(c)
       [] k = "chiseled_bookshelf" -> ChiseledBookshelf(c)
       [] OTHER -> Null

FromTileEntity(b, c) ==
  LET k == Kind(b)
  IN CASE k \in {"sign", "wall_sign"} -> Sign("Sign", c)
       [] k \in {"hanging_sign", "wall_hanging_sign"} -> Sign("HangingSign", c)
       [] k = "brewing_stand" -> BrewingStand(c)
       [] k = "hopper" -> Hopper(c)
       [] k \in {"command_block", "chain_command_block", "repeating_command_block"} ->
            CommandBlock(c)
       [] k = "moving_piston" -> MovingPiston(c)
       [] k \in {"piston", "sticky_piston"} -> PistonArm(k = "sticky_piston", c)
       [] k = "end_gateway" -> EndGateway(c)
       [] k = "bell" -> Bell(c)
       [] k = "conduit" -> Conduit(c)
       [] k \in {"campfire", "soul_campfire"} -> Campfire(c)
       [] k = "comparator" -> Comparator(c)
       [] k \in DOMAIN NamedEmpty -> Empty(NamedEmpty[k], c)
       [] k = "structure_block" -> StructureBlock(c)
       [] k = "spawner" -> Spawner(c)
       [] OTHER -> FromBlock(b, c)

FromHeld(b, c) == IF c = Null THEN FromBlock(b, c) ELSE FromTileEntity(b, c)

From(b, c) == FromHeld(b, Held(c))
=============================================================================
