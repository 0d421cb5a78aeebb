------------------------------ MODULE ItemTrip ------------------------------
(***************************************************************************)
(* What a Java item must keep when a world goes to Bedrock and back: the   *)
(* comparison of test/j2b2j.hpp (CheckItem), and of the block entity that  *)
(* an item or a block has (CheckTileEntity).                               *)
(***************************************************************************)
EXTENDS Integers, SequencesExt, ItemTables

(* The maps of the world, by number.                                       *)
Maps ==
  1 :> [scale |-> 0, decorations |-> <<>>]
    @@ 7 :> [scale |-> 3, decorations |-> <<"monument">>]

Mob(edition) == [id |-> <<"bee">>, edition |-> edition]

MobToBedrock(e) == Mob("bedrock")

MobToJava(e) == Mob("java")

(* Items hold block entities, and these hold items. *)
RECURSIVE ItemToBedrock(_), ItemToJava(_)

TB == INSTANCE TileToBedrock WITH ItemFrom <- ItemToBedrock, EntityFrom <- MobToBedrock
TJ == INSTANCE TileToJava WITH ItemFrom <- ItemToJava, EntityFrom <- MobToJava

HeldToBedrock(name, tile) == TB!From([name |-> name], tile)

HeldToJava(block, tag, blockJ) == TJ!FromBlockAndBlockEntity(block, tag, blockJ).tile

IB == INSTANCE ItemToBedrock WITH TileFrom <- HeldToBedrock
IJ == INSTANCE ItemToJava WITH TileFrom <- HeldToJava

ItemToBedrock(i) == IB!From(i)

ItemToJava(i) == IJ!From(i)

-----------------------------------------------------------------------------
In(i, field, default) == Field(Tag(i), field, default)

(* The number of a map is that of the world the item comes to.             *)
Compared(i) ==
  IF Has(i, "tag")
  THEN [i EXCEPT !.tag = Without(@, {"map", "BlockEntityTag"})] ELSE i

(* What CheckTileEntity passes over. *)
UncheckedIn(c) ==
  {"LootTableSeed", "RecipesUsed", "LastOutput", "author", "Levels", "SpawnPotentials"}
    \cup CASE c.id = <<"sculk_shrieker">> -> {"listener", "warning_level"}
           [] c.id = <<"sculk_catalyst">> -> {"cursors"}
           [] c.id = <<"jukebox">> -> {"IsPlaying", "TickCount", "RecordStartTick"}
           [] OTHER -> {}

RECURSIVE ItemSurvives(_, _)

TileSurvives(c, back) ==
  /\ Without(c, UncheckedIn(c) \cup {"Items"}) = Without(back, UncheckedIn(c) \cup {"Items"})
  /\ Has(c, "Items") <=> Has(back, "Items")
  /\ Has(c, "Items") =>
       /\ Len(c.Items) = Len(back.Items)
       /\ \A k \in DOMAIN c.Items : ItemSurvives(c.Items[k], back.Items[k])

ItemSurvives(i, back) ==
  LET held == In(i, "BlockEntityTag", <<>>)
      heldBack == In(back, "BlockEntityTag", <<>>)
  IN /\ Compared(i) = Compared(back)
     /\ held = <<>> <=> heldBack = <<>>
     /\ held # <<>> => TileSurvives(held, heldBack)

-----------------------------------------------------------------------------
(* The items that do change, by what the code does not keep. *)

Kind(i) == Last(i.id)

DisplayOf(i) == In(i, "display", <<>>)

IsName(t) == t.json = "object" /\ DOMAIN t = {"json", "text"}

IsMap(i) == i.id = <<"filled_map">>

(* Bedrock has no such thing. *)
HasNoTwin(i) ==
  \/ i.id = <<"petrified_oak", "slab">> \/ i.id = <<"furnace", "minecart">>
  \/ i.id \in {<<"potion">>, <<"splash_potion">>, <<"lingering_potion">>}
       /\ In(i, "Potion", "") \notin DOMAIN Potion
  \/ i.id = <<"tipped_arrow">> /\ In(i, "Potion", "") \notin DOMAIN TippedArrowPotion
  \/ i.id = <<"goat_horn">> /\ ~Has(Tag(i), "instrument")
  \/ \E list \in {"Enchantments", "StoredEnchantments"} :
       \E k \in DOMAIN In(i, list, <<>>) : Tag(i)[list][k].id \notin DOMAIN Enchantments

(* A name that is not a plain text in an object loses its form or itself;  *)
(* only those of maps and ominous banners are translated back.             *)
LosesName(i) ==
  /\ Has(DisplayOf(i), "Name")
  /\ ~IsName(DisplayOf(i).Name)
  /\ ~(IsMap(i) /\ TranslationOf(i) \in DOMAIN MapType)
  /\ ~(Kind(i) = "banner" /\ TranslationOf(i) = "block.minecraft.ominous_banner")

(* A page is one text: in a written book an object of nothing else, in     *)
(* another what does not look like JSON.                                   *)
LosesPage(i) ==
  \E k \in DOMAIN In(i, "pages", <<>>) :
    LET page == i.tag.pages[k]
    IN IF i.id = <<"written_book">> THEN ~IsName(page) ELSE page.json # "none"

(* Only the first effect, projectile; only the colours of dyes.            *)
LosesMore(i) ==
  \/ i.id = <<"suspicious_stew">>
       /\ \/ Len(In(i, "Effects", <<>>)) # 1
          \/ \A d \in 0..9 : <<JavaEffectFromBedrockSuspiciousStew(d)>> # i.tag.Effects
  \/ i.id = <<"crossbow">> /\ Has(i, "tag") /\ Len(In(i, "ChargedProjectiles", <<>>)) # 1
  \/ \E e \in {In(i, "Explosion", <<>>)}
               \cup {In(i, "Fireworks", [Explosions |-> <<>>]).Explosions[k] :
                       k \in DOMAIN In(i, "Fireworks", [Explosions |-> <<>>]).Explosions} :
       \E c \in {"Colors", "FadeColors"} :
         \E k \in DOMAIN ListIn(e, c) : e[c][k][1] # "dye"

(* A sign with a tag becomes one of oak; a banner with any other tag is    *)
(* given that of a block entity.                                           *)
LosesKind(i) ==
  \/ Kind(i) \in {"sign", "hanging_sign"} /\ Tag(i) # <<>> /\ i.id # <<"oak", "sign">>
  \/ Kind(i) = "banner" /\ Tag(i) # <<>> /\ ~Has(Tag(i), "BlockEntityTag")

(* A baby grows up in its bucket. *)
LosesAge(i) == i.id = <<"axolotl", "bucket">> /\ In(i, "Age", 0) # 0

-----------------------------------------------------------------------------
(* The block entities that do change *)

IsOminous(c) ==
  c.id = <<"banner">> /\ Has(c, "CustomName")
    /\ c.CustomName = [json |-> "object", color |-> "gold",
                       translate |-> "block.minecraft.ominous_banner"]

LosesTileName(c) ==
  IF c.id = <<"command_block">> THEN ~Has(c, "CustomName") \/ ~IsName(c.CustomName)
  ELSE Has(c, "CustomName") /\ ~IsName(c.CustomName) /\ ~IsOminous(c)

RECURSIVE LosesItem(_)

(* A map that has no file is no item; all the books of a lectern, the      *)
(* record of a jukebox and the contents of a container are items.          *)
IsDropped(i) == IsMap(i) /\ In(i, "map", 0) \notin DOMAIN Maps

LosesContents(c) ==
  \/ \E k \in DOMAIN Field(c, "Items", <<>>) : IsDropped(c.Items[k]) \/ LosesItem(c.Items[k])
  \/ \E f \in {"RecordItem", "Book"} \cap DOMAIN c : LosesItem(c[f])

(* Only chests have their loot tables converted, and only those of the     *)
(* game itself.                                                            *)
LosesLoot(c) ==
  /\ Has(c, "LootTable")
  /\ c.id \notin {<<"chest">>, <<"trapped_chest">>} \/ c.LootTable[1] # "minecraft"

(* What the tables do not know of: the skin of a head, what a conduit hunts*)
(* and a sculk sensor hears, where exactly a gateway leads.                *)
HasNoField(c) ==
  \/ DOMAIN c \cap {"SkullOwner", "Target", "ExactTeleport", "last_vibration_frequency"} # {}
  \/ c.id = <<"sculk_sensor">> /\ Has(c, "listener")

(* The items of a campfire move to its first slots; the time an item takes *)
(* is always 600.                                                          *)
LosesCooking(c) ==
  /\ c.id = <<"campfire">>
  /\ \/ \E k \in DOMAIN c.Items : c.Items[k].Slot # k - 1
     \/ \E n \in 1..4 : c.CookingTotalTimes[n]
                           # IF n \in DOMAIN c.Items \/ c.CookingTimes[n] > 0 THEN 600 ELSE 0

(* A line of a sign is an object of one text.                              *)
LosesLine(c) ==
  /\ c.id \in {<<"sign">>, <<"hanging_sign">>}
  /\ ~Has(c, "Color") \/ \E k \in {"Text1", "Text2", "Text3", "Text4"} : ~IsName(c[k])

(* A spawner keeps the kind of its mob and nothing else of it.             *)
LosesSpawn(c) ==
  /\ c.id = <<"mob_spawner">>
  /\ Has(c, "SpawnData")
  /\ DOMAIN c.SpawnData # {"entity"} \/ DOMAIN c.SpawnData.entity # {"id"}

(* Bees come back without the hive's record of them; a structure block     *)
(* forgets to show air and to mark data, a command block not to note when  *)
(* it ran; a banner without patterns comes back with an empty list of them.*)
LosesTile(c) ==
  \/ LosesTileName(c) \/ LosesContents(c) \/ LosesLoot(c) \/ HasNoField(c)
  \/ LosesCooking(c) \/ LosesLine(c) \/ LosesSpawn(c)
  \/ Field(c, "Bees", <<>>) # <<>>
  \/ c.id = <<"structure_block">> /\ (c.showair \/ c.mode = "DATA")
  \/ c.id = <<"command_block">> /\ ~c.UpdateLastExecution
  \/ c.id = <<"banner">> /\ ~Has(c, "Patterns")

LosesHeld(i) ==
  Has(Tag(i), "BlockEntityTag") /\ LosesTile(i.tag.BlockEntityTag)

(* An item of a block that has a block entity gains one with any tag.      *)
GainsHeld(i) ==
  /\ Tag(i) # <<>> /\ ~Has(Tag(i), "BlockEntityTag")
  /\ Kind(i) \in {"chest", "trapped_chest", "barrel", "furnace", "lectern", "shulker_box",
                  "banner", "bed", "sign", "hanging_sign", "skull", "head"}

LosesItem(i) ==
  \/ HasNoTwin(i) \/ LosesName(i) \/ LosesPage(i) \/ LosesMore(i) \/ LosesKind(i) \/ LosesAge(i)
  \/ LosesHeld(i) \/ GainsHeld(i)
=============================================================================
