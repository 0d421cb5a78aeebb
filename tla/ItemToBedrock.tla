--------------------------- MODULE ItemToBedrock ---------------------------
(***************************************************************************)
(* tobe::Item (src/src/tobe-item.cpp): the Bedrock item of a Java item.    *)
(*                                                                         *)
(* An item is a record of its name (the words of the identifier, as in     *)
(* BlockToBedrock), its Count and Damage and its tag, fields being left    *)
(* out where the NBT leaves them out.  A Java text is a record: json says  *)
(* whether it parses as a JSON object, as another JSON value or not at     *)
(* all; its other fields are those of the object, or the text itself.      *)
(***************************************************************************)
EXTENDS ItemTables, SequencesExt

CONSTANTS
  TileFrom(_, _),  \* TileEntity::FromBlockAndTileEntity: the block's name, its tile
  Maps             \* Context::fMapInfo: the scale of each map that has a file

BB == INSTANCE BlockToBedrock

-----------------------------------------------------------------------------
IsItem(name) ==
  \/ Len(name) = 1 /\ name[1] \in Singles
  \/ Len(name) = 2 /\ name[2] \in DOMAIN Variants /\ name[1] \in Variants[name[2]]

-----------------------------------------------------------------------------
(* Texts *)

(* Only an object has a text: the quotes of a JSON string are parsed, and  *)
(* the name is lost, before the code comes to trim them.                   *)
GetCustomName(tag) ==
  LET name == Field(Field(tag, "display", Null), "Name", Null)
  IN IF name = Null \/ name.json = "value" \/ ~Has(name, "text") THEN None
     ELSE name.text

(* The text of a page: the lines of its extra, one after the other. *)
PageText(page) ==
  CASE page.json = "none" -> page.text
    [] page.json = "value" -> <<>>
    [] OTHER -> IF Has(page, "extra")
                THEN [i \in DOMAIN page.extra |->
                        IF page.extra[i] = "CRLF" THEN "" ELSE page.extra[i]]
                ELSE Field(page, "text", <<>>)

-----------------------------------------------------------------------------
(* Converters *)

New(name) == [Name |-> name, Count |-> 1, Damage |-> 0]

Damaged(name, damage) == [New(name) EXCEPT !.Damage = damage]

DefaultItem(name) == [Name |-> name, Damage |-> 0]

BlockFrom(name) == BB!From([name |-> name], [last_interacted_slot |-> 0])

DefaultBlockItem(block) ==
  [Name |-> IF Last(block.name) = "concretePowder"
            THEN Front(block.name) \o <<"concrete_powder">>
            ELSE block.name,
   Damage |-> 0, Block |-> block]

(* A sign keeps its Java name and has no block. *)
Sign(name) == DefaultItem(name)

InBlock(name, block, states) ==
  [Name |-> name, Count |-> 1, Damage |-> 0, Block |-> [name |-> block.name] @@ states]

AnyTorch(name, block) == InBlock(name, block, [torch_facing_direction |-> "unknown"])

MushroomBlock(name, block) == InBlock(name, block, [huge_mushroom_bits |-> 14])

Skull(name) ==
  Damaged(<<"skull">>, SkullType[SkullTypeFromJavaName(name[1] \o "_" \o name[2])])

Bed(name) ==
  Damaged(<<"bed">>, ColorCodeJava[ColorCodeJavaFromJavaName(name[1])])

PatternToBedrock(p) ==
  [Color |-> BannerColorCodeFromJava(p.Color), Pattern |-> p.Pattern]

Banner(item) ==
  LET plain == Damaged(<<"banner">>, BannerColorCodeFromName(item.id[1]))
      tile == Field(Tag(item), "BlockEntityTag", Null)
  IN CASE TranslationOf(item) = "block.minecraft.ominous_banner" ->
            plain @@ [tag |-> [Type |-> 1]]
       [] TranslationOf(item) # "block.minecraft.ominous_banner" /\ Has(tile, "Patterns") ->
            plain @@ [tag |-> [Patterns |-> Each(PatternToBedrock, tile.Patterns)]]
       [] OTHER -> plain

AxolotlBucket(item) ==
  LET j == Tag(item)
      named == GetCustomName(j)
      age == Field(j, "Age", 0)
  IN New(<<"axolotl", "bucket">>)
       @@ IF ~Has(item, "tag") THEN <<>>
          ELSE [tag |-> [Health |-> Field(j, "Health", 14),
                         Variant |-> VariantFromJava(Field(j, "Variant", 0)),
                         IsBaby |-> age < 0]
                        @@ IF named = None THEN <<>>
                           ELSE [CustomName |-> named, CustomNameVisible |-> TRUE]]

TropicalFishBucket(item) ==
  New(<<"tropical_fish", "bucket">>)
    @@ IF ~Has(Tag(item), "BucketVariantTag") THEN <<>>
       ELSE [tag |-> ToBedrockBucketTag(
                       TropicalFishFromJavaVariant(item.tag.BucketVariantTag))]

BooksAndQuill(item) ==
  LET j == Tag(item)
      kept == {"author", "title"} \cap DOMAIN j
      page(p) == [text |-> PageText(p)]
  IN DefaultItem(item.id)
       @@ IF ~Has(item, "tag") THEN <<>>
          ELSE [tag |-> [f \in kept |-> j[f]]
                        @@ (IF kept = {} THEN <<>> ELSE [generation |-> 0])
                        @@ IF Has(j, "pages") THEN [pages |-> Each(page, j.pages)]
                           ELSE <<>>]

LeatherArmor(item) ==
  LET display == Field(Tag(item), "display", Null)
  IN DefaultItem(item.id)
       @@ IF Has(display, "color") THEN [tag |-> [customColor |-> display.color]]
          ELSE <<>>

(* A map of which there is no number, or no file, is no item. *)
Map(item) ==
  LET number == item.tag.map
  IN IF ~Has(Tag(item), "map") \/ number \notin DOMAIN Maps THEN Null
     ELSE Damaged(item.id, Forward(MapType, TranslationOf(item), 0))
            @@ [tag |-> [map_uuid |-> <<number, Maps[number].scale>>,
                         map_display_players |-> 1, map_name_index |-> number]]

AnyPotion(item) ==
  Damaged(item.id,
          IF ~Has(item, "tag") THEN 0
          ELSE BedrockPotionTypeFromJava(Field(item.tag, "Potion", "")))

TippedArrow(item) ==
  Damaged(<<"arrow">>,
          IF ~Has(item, "tag") THEN 0
          ELSE BedrockTippedArrow(Field(item.tag, "Potion", "")))

FireworkStar(item) ==
  LET e == Field(Tag(item), "Explosion", Null)
  IN New(<<"firework_star">>)
       @@ IF ~Has(Tag(item), "Explosion") THEN <<>>
          ELSE [tag |-> [FireworksItem |-> ExplosionToBedrock(e)]
                        @@ IF ListIn(e, "Colors") = <<>> THEN <<>>
                           ELSE [customColor |-> Head(e.Colors)]]

FireworkRocket(item) ==
  New(<<"firework_rocket">>)
    @@ IF ~Has(Tag(item), "Fireworks") THEN <<>>
       ELSE [tag |-> [Fireworks |-> FireworksToBedrock(item.tag.Fireworks)]]

(* The first of the effects. *)
SuspiciousStew(item) ==
  IF ListIn(Tag(item), "Effects") = <<>> THEN New(<<"suspicious_stew">>)
  ELSE Damaged(<<"suspicious_stew">>,
               BedrockSuspiciousStewFromJavaEffect(Head(item.tag.Effects).EffectId))

GoatHornOf(item) ==
  Damaged(<<"goat_horn">>,
          IF Has(Tag(item), "instrument")
          THEN BedrockDamageFromJavaInstrument(item.tag.instrument) ELSE 0)

-----------------------------------------------------------------------------
(* The tables *)

FromItem(item) ==
  LET name == item.id
  IN CASE name = <<"oak", "door">> -> New(<<"wooden_door">>)
       [] name = <<"furnace", "minecart">> -> New(<<"minecart">>)
       [] name = <<"tropical_fish", "bucket">> -> TropicalFishBucket(item)
       [] name = <<"axolotl", "bucket">> -> AxolotlBucket(item)
       [] name = <<"zombified_piglin", "spawn_egg">> -> New(<<"zombie_pigman", "spawn_egg">>)
       [] name = <<"map">> -> Damaged(<<"empty_map">>, 2)
       [] name = <<"firework_rocket">> -> FireworkRocket(item)
       [] name = <<"firework_star">> -> FireworkStar(item)
       [] name = <<"cod">> -> New(<<"fish">>)
       [] name = <<"tipped_arrow">> -> TippedArrow(item)
       [] name \in {<<"potion">>, <<"splash_potion">>, <<"lingering_potion">>} ->
            AnyPotion(item)
       [] name[1] = "leather" /\ Last(name) \in {"helmet", "chestplate", "leggings", "boots"} ->
            LeatherArmor(item)
       [] name \in {<<"writable_book">>, <<"written_book">>} -> BooksAndQuill(item)
       [] name = <<"suspicious_stew">> -> SuspiciousStew(item)
       [] OTHER -> DefaultItem(name)

FromBlockItem(item, block) ==
  LET name == item.id
      kind == Last(name)
  IN CASE kind \in {"brown_mushroom_block", "red_mushroom_block"} -> MushroomBlock(name, block)
       [] kind = "bed" -> Bed(name)
       [] kind = "banner" -> Banner(item)
       [] kind \in {"skull", "head"} -> Skull(name)
       [] kind = "item_frame" -> New(<<"frame">>)
       [] kind = "glow_item_frame" -> New(<<"glow_frame">>)
       [] kind = "frogspawn" -> New(<<"frog_spawn">>)
       [] name \in {<<"mangrove", "door">>, <<"chain">>} -> DefaultItem(name)
       [] name \in {<<"torch">>, <<"soul", "torch">>, <<"redstone_torch">>} -> AnyTorch(name, block)
       [] kind \in {"sign", "hanging_sign"} -> Sign(name)
       [] kind = "goat_horn" -> GoatHornOf(item)
       [] OTHER -> DefaultBlockItem(block)

-----------------------------------------------------------------------------
(* What every item keeps *)

EnchantDataFrom(e) == [id |-> BedrockEnchantmentIdFromJava(e.id), lvl |-> e.lvl]

LoreToBedrock(line) == IF line = "(+NBT)" THEN "(+DATA)" ELSE line

BlockEntityTagFrom(name, tagJ) ==
  IF Has(tagJ, "BlockEntityTag")
  THEN Without(TileFrom(name, tagJ.BlockEntityTag), {"Findable", "id", "isMovable"})
  ELSE <<>>

DisplayFrom(tagJ) ==
  LET displayJ == Field(tagJ, "display", Null)
      named == GetCustomName(tagJ)
  IN (IF named = None THEN <<>> ELSE [Name |-> named])
       @@ IF Has(displayJ, "Lore") THEN [Lore |-> Each(LoreToBedrock, displayJ.Lore)]
          ELSE <<>>

TagFrom(b, name, tagJ, display) ==
  LET stored == IF Has(tagJ, "StoredEnchantments") THEN "StoredEnchantments"
                ELSE "Enchantments"
  IN (IF display = <<>> THEN <<>> ELSE [display |-> display])
       @@ (IF Has(tagJ, stored) THEN [ench |-> Each(EnchantDataFrom, tagJ[stored])] ELSE <<>>)
       @@ [f \in {"Damage", "RepairCost"} \cap DOMAIN tagJ |-> tagJ[f]]
       @@ Tag(b) @@ BlockEntityTagFrom(name, tagJ)

Retagged(b, j, tagB) ==
  [f \in {"Count"} \cap DOMAIN j |-> j[f]]
    @@ IF ~Has(j, "tag") \/ tagB = <<>> THEN b ELSE [tag |-> tagB] @@ b

Post(b, j) ==
  IF b = Null THEN Null ELSE Retagged(b, j, TagFrom(b, j.id, Tag(j), DisplayFrom(Tag(j))))

Convert(item) ==
  CASE item.id = <<"filled_map">> -> Map(item)
    [] item.id # <<"filled_map">> /\ IsItem(item.id) -> FromItem(item)
    [] OTHER -> FromBlockItem(item, BlockFrom(item.id))

Uncharged(item) == Post(Convert(item), item)

IsSome(b) == b # Null

Charged(shot) == IF shot = <<>> THEN <<>> ELSE [tag |-> [chargedItem |-> Head(shot)]]

(* A crossbow is charged with the first of its projectiles that is an item;*)
(* a projectile is not a crossbow.                                         *)
Crossbow(j) ==
  New(<<"crossbow">>)
    @@ IF Has(j, "Charged")
       THEN Charged(SelectSeq(Each(Uncharged, ListIn(j, "ChargedProjectiles")), IsSome))
       ELSE <<>>

From(item) ==
  Post(IF item.id = <<"crossbow">> THEN Crossbow(Tag(item)) ELSE Convert(item), item)
=============================================================================
