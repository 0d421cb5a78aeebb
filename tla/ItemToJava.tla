----------------------------- MODULE ItemToJava -----------------------------
(***************************************************************************)
(* toje::Item (src/src/toje-item.cpp): the Java item of a Bedrock item.    *)
(* Items are the records of ItemToBedrock.  A converter gives a Java item  *)
(* of a name and perhaps a tag, which Default completes.                   *)
(***************************************************************************)
EXTENDS ItemTables, SequencesExt

CONSTANTS
  TileFrom(_, _, _),  \* BlockEntity::FromBlockAndBlockEntity: Bedrock block, tag, Java block
  Maps                \* the maps of the world: scale and decorations of a number

BJ == INSTANCE BlockToJava

(* Without a tag a converter leaves the item without one. *)
Tagged(name, item, tag) ==
  [id |-> name] @@ IF Has(item, "tag") THEN [tag |-> tag] ELSE <<>>

-----------------------------------------------------------------------------
(* Converters *)

Arrow(item) ==
  IF Field(item, "Damage", 0) = 0 THEN [id |-> <<"arrow">>]
  ELSE [id |-> <<"tipped_arrow">>, tag |-> [Potion |-> JavaTippedArrow(item.Damage)]]

(* IsBaby is not read, and what is, Age, is not written. *)
AxolotlBucket(item) ==
  LET b == Tag(item)
  IN Tagged(item.Name, item,
       [Age |-> Field(b, "Age", 0),
        Variant |-> JavaVariantFromBedrockVariant(Field(b, "Variant", 0))]
         @@ [f \in {"Health"} \cap DOMAIN b |-> b[f]])

PatternToJava(p) ==
  [Color |-> ColorCodeJavaFromBannerColorCodeBedrock(p.Color), Pattern |-> p.Pattern]

Banner(item) ==
  LET color == JavaNameFromColorCodeJava[
                 Decode(ColorCodeJava,
                        ColorCodeJavaFromBannerColorCodeBedrock(Field(item, "Damage", 0)),
                        "White")]
      b == Tag(item)
      ofBanner == [id |-> <<"banner">>]
  IN IF Field(b, "Type", 0) = 1
     THEN [id |-> <<"white", "banner">>,
           tag |-> [BlockEntityTag |-> ofBanner @@ [Patterns |-> OminousBannerPatterns],
                    display |-> [Name |-> Translated("block.minecraft.ominous_banner")]]]
     ELSE Tagged(<<color, "banner">>, item,
                 [BlockEntityTag |->
                    ofBanner @@ IF Has(b, "Patterns")
                                THEN [Patterns |-> Each(PatternToJava, b.Patterns)] ELSE <<>>])

Bed(item) ==
  [id |-> <<JavaNameFromColorCodeJava[Decode(ColorCodeJava, Field(item, "Damage", 0), "White")],
            "bed">>]

Book(item) ==
  LET page(p) == IF item.Name = <<"written_book">> THEN Text(p.text)
                 ELSE [json |-> "none", text |-> p.text]
      b == Tag(item)
  IN Tagged(item.Name, item,
       [f \in {"author", "title"} \cap DOMAIN b |-> b[f]]
         @@ IF Has(b, "pages") THEN [pages |-> Each(page, b.pages)] ELSE <<>>)

TropicalFishBucket(item) ==
  Tagged(<<"tropical_fish", "bucket">>, item,
         [BucketVariantTag |-> ToJavaVariant(TropicalFishFromBedrockBucketTag(Tag(item)))])

BucketOf ==
  1 :> "milk" @@ 2 :> "cod" @@ 3 :> "salmon" @@ 5 :> "pufferfish" @@ 10 :> "lava"

Bucket(item) ==
  LET damage == Field(item, "Damage", 0)
  IN IF damage = 4 THEN TropicalFishBucket(item)
     ELSE [id |-> IF damage \in DOMAIN BucketOf THEN <<BucketOf[damage], "bucket">>
                  ELSE <<"bucket">>]

FireworkRocket(item) ==
  Tagged(<<"firework_rocket">>, item,
         IF Has(Tag(item), "Fireworks")
         THEN [Fireworks |-> FireworksToJava(item.tag.Fireworks)] ELSE <<>>)

FireworkStar(item) ==
  [id |-> <<"firework_star">>]
    @@ IF Has(Tag(item), "FireworksItem")
       THEN [tag |-> [Explosion |-> ExplosionToJava(item.tag.FireworksItem)]] ELSE <<>>

GoatHornOf(item) ==
  [id |-> item.Name,
   tag |-> [instrument |-> JavaInstrumentFromBedrockDamage(Field(item, "Damage", 0))]]

LegacyBannerPattern(item) ==
  [id |-> <<Forward(1 :> "creeper" @@ 2 :> "flower" @@ 3 :> "mojang" @@ 6 :> "piglin",
                    Field(item, "Damage", 0), "skull"), "banner_pattern">>]

LegacyBoat(item) ==
  [id |-> <<Forward(1 :> "spruce" @@ 2 :> "birch" @@ 3 :> "jungle" @@ 4 :> "acacia"
                      @@ 5 :> "dark_oak", Field(item, "Damage", 0), "oak"), "boat">>]

LegacyDyes ==
  <<<<"red", "dye">>, <<"green", "dye">>, <<"cocoa_beans">>, <<"lapis_lazuli">>,
    <<"purple", "dye">>, <<"cyan", "dye">>, <<"light_gray", "dye">>, <<"gray", "dye">>,
    <<"pink", "dye">>, <<"lime", "dye">>, <<"yellow", "dye">>, <<"light_blue", "dye">>,
    <<"magenta", "dye">>, <<"orange", "dye">>, <<"bone_meal">>, <<"black", "dye">>,
    <<"brown", "dye">>, <<"blue", "dye">>, <<"white", "dye">>>>

LegacyDye(item) == [id |-> Forward(LegacyDyes, Field(item, "Damage", 0), <<"ink_sac">>)]

LegacySpawnEggs ==
  10 :> "chicken" @@ 11 :> "cow" @@ 12 :> "pig" @@ 13 :> "sheep" @@ 14 :> "wolf"
    @@ 16 :> "mooshroom" @@ 17 :> "squid" @@ 18 :> "rabbit" @@ 19 :> "bat" @@ 22 :> "ocelot"
    @@ 23 :> "horse" @@ 24 :> "donkey" @@ 25 :> "mule" @@ 26 :> "skeleton_horse"
    @@ 27 :> "zombie_horse" @@ 28 :> "polar_bear" @@ 29 :> "llama" @@ 30 :> "parrot"
    @@ 31 :> "dolphin" @@ 32 :> "zombie" @@ 33 :> "creeper" @@ 34 :> "skeleton"
    @@ 35 :> "spider" @@ 36 :> "zombified_piglin" @@ 37 :> "slime" @@ 38 :> "enderman"
    @@ 39 :> "silverfish" @@ 40 :> "cave_spider" @@ 41 :> "ghast" @@ 42 :> "magma_cube"
    @@ 43 :> "blaze" @@ 45 :> "witch" @@ 46 :> "stray" @@ 47 :> "husk"
    @@ 48 :> "wither_skeleton" @@ 49 :> "guardian" @@ 50 :> "elder_guardian"
    @@ 54 :> "shulker" @@ 55 :> "endermite" @@ 57 :> "vindicator" @@ 58 :> "phantom"
    @@ 59 :> "ravager" @@ 74 :> "turtle" @@ 75 :> "cat" @@ 104 :> "evoker" @@ 105 :> "vex"
    @@ 108 :> "pufferfish" @@ 109 :> "salmon" @@ 110 :> "drowned" @@ 111 :> "tropical_fish"
    @@ 112 :> "cod" @@ 113 :> "panda" @@ 114 :> "pillager" @@ 115 :> "villager"
    @@ 116 :> "zombie_villager" @@ 118 :> "wandering_trader" @@ 121 :> "fox" @@ 122 :> "bee"
    @@ 123 :> "piglin" @@ 124 :> "hoglin" @@ 125 :> "strider" @@ 126 :> "zoglin"
    @@ 127 :> "piglin_brute"

LegacySpawnEgg(item) ==
  LET damage == Field(item, "Damage", 0)
  IN [id |-> (IF damage \in DOMAIN LegacySpawnEggs THEN <<LegacySpawnEggs[damage]>> ELSE <<>>)
               \o <<"spawn_egg">>]

(* A map has its decorations if its damage says that it leads somewhere.   *)
Map(item) ==
  LET b == Tag(item)
      damage == Field(item, "Damage", 0)
      number == b.map_uuid[1]
      IsKnown == number \in DOMAIN Maps /\ b.map_uuid = <<number, Maps[number].scale>>
  IN IF ~Has(b, "map_uuid") THEN [id |-> item.Name]
     ELSE [id |-> item.Name,
           tag |-> (IF damage \in DOMAIN MapNames THEN [display |-> MapNames[damage]] ELSE <<>>)
                     @@ (IF IsKnown THEN [map |-> number] ELSE <<>>)
                     @@ IF IsKnown /\ damage # 0 /\ Maps[number].decorations # <<>>
                        THEN [Decorations |-> Maps[number].decorations] ELSE <<>>]

PotionOf(item) ==
  [id |-> item.Name, tag |-> [Potion |-> JavaPotionTypeFromBedrock(Field(item, "Damage", 0))]]

SkullWords ==
  [Player |-> <<"player", "head">>, Zombie |-> <<"zombie", "head">>,
   Creeper |-> <<"creeper", "head">>, Dragon |-> <<"dragon", "head">>,
   Skeleton |-> <<"skeleton", "skull">>, WitherSkeleton |-> <<"wither_skeleton", "skull">>,
   Piglin |-> <<"piglin", "head">>]

Skull(item) == [id |-> SkullWords[Decode(SkullType, Field(item, "Damage", 0), "Skeleton")]]

SuspiciousStew(item) ==
  [id |-> item.Name,
   tag |-> [Effects |-> <<JavaEffectFromBedrockSuspiciousStew(Field(item, "Damage", 0))>>]]

-----------------------------------------------------------------------------
(* The table; the names of older versions are listed after the others. *)

Rename ==
  [fish |-> <<"cod">>, frame |-> <<"item_frame">>, glow_frame |-> <<"glow_item_frame">>,
   wooden_door |-> <<"oak", "door">>, empty_map |-> <<"map">>,
   frog_spawn |-> <<"frogspawn">>,
   sign |-> <<"oak", "sign">>, darkoak_sign |-> <<"dark_oak", "sign">>,
   carrotonastick |-> <<"carrot_on_a_stick">>, turtle_shell_piece |-> <<"scute">>,
   fireball |-> <<"fire_charge">>, netherbrick |-> <<"nether_brick">>,
   netherstar |-> <<"nether_star">>, horsearmorleather |-> <<"leather", "horse_armor">>,
   horsearmoriron |-> <<"iron", "horse_armor">>,
   horsearmorgold |-> <<"golden", "horse_armor">>,
   horsearmordiamond |-> <<"diamond", "horse_armor">>,
   chorus_fruit_popped |-> <<"popped_chorus_fruit">>,
   appleenchanted |-> <<"enchanted_golden_apple">>, melon |-> <<"melon_slice">>,
   muttoncooked |-> <<"cooked_mutton">>, muttonraw |-> <<"mutton">>,
   cooked_fish |-> <<"cooked_cod">>, clownfish |-> <<"tropical_fish">>,
   totem |-> <<"totem_of_undying">>]

PigmanEggs == {<<"zombified_pigman", "spawn_egg">>, <<"zombie_pigman", "spawn_egg">>}

FromTable(item) ==
  LET name == item.Name
      word == IF Len(name) = 1 THEN name[1] ELSE ""
  IN CASE word \in {"writable_book", "written_book"} -> Book(item)
       [] word \in {"potion", "splash_potion", "lingering_potion"} -> PotionOf(item)
       [] word = "filled_map" -> Map(item)
       [] word \in {"firework_rocket", "fireworks"} -> FireworkRocket(item)
       [] word \in {"firework_star", "fireworkscharge"} -> FireworkStar(item)
       [] word = "banner" -> Banner(item)
       [] word = "skull" -> Skull(item)
       [] word = "bed" -> Bed(item)
       [] word = "boat" -> LegacyBoat(item)
       [] word = "bucket" -> Bucket(item)
       [] word = "dye" -> LegacyDye(item)
       [] word = "spawn_egg" -> LegacySpawnEgg(item)
       [] word = "banner_pattern" -> LegacyBannerPattern(item)
       [] word = "arrow" -> Arrow(item)
       [] word = "suspicious_stew" -> SuspiciousStew(item)
       [] word = "goat_horn" -> GoatHornOf(item)
       [] name = <<"axolotl", "bucket">> -> AxolotlBucket(item)
       [] name = <<"tropical_fish", "bucket">> -> TropicalFishBucket(item)
       [] name \in PigmanEggs -> [id |-> <<"zombified_piglin", "spawn_egg">>]
       [] word \in DOMAIN Rename -> [id |-> Rename[word]]
       [] OTHER -> [id |-> name]

-----------------------------------------------------------------------------
(* What every item keeps *)

EnchantmentToJava(e) == [id |-> JavaEnchantmentIdFromBedrock(e.id), lvl |-> e.lvl]

LoreToJava(line) == IF line = "(+DATA)" THEN "(+NBT)" ELSE line

(* The block of the item; the Bedrock item of a sign has none, and with a  *)
(* tag it is taken for that of a standing sign, which is one of oak.       *)
BlockOf(item, name) ==
  IF Last(name) \in {"sign", "hanging_sign"} /\ Tag(item) # Null
  THEN [name |-> <<"standing_sign">>]
  ELSE Field(item, "Block", Null)

(* The tag of the block entity, without its place and what an item has not.*)
BlockEntityTag(item, block, blockJ) ==
  Without(IF block = Null \/ Tag(item) = Null THEN Null
          ELSE TileFrom(block, item.tag, blockJ),
          {"keepPacked", "RecipesUsed"})

Display(item, j) ==
  LET b == Tag(item)
      display == Field(b, "display", Null)
      custom == Has(b, "CustomName") /\ Field(b, "CustomNameVisible", FALSE)
  IN (IF custom THEN [Name |-> Text(b.CustomName)]
      ELSE IF Has(display, "Name") THEN [Name |-> Text(display.Name)] ELSE <<>>)
       @@ (IF Has(display, "Lore") THEN [Lore |-> Each(LoreToJava, display.Lore)] ELSE <<>>)
       @@ (IF Has(b, "customColor") THEN [color |-> b.customColor] ELSE <<>>)
       @@ Field(Tag(j), "display", Null)

TagFrom(b, j, tile, display) ==
  LET enchantments == IF j.id = <<"enchanted_book">> THEN "StoredEnchantments"
                      ELSE "Enchantments"
  IN NonEmpty("BlockEntityTag", tile)
       @@ [f \in {"Damage", "RepairCost"} \cap DOMAIN b |-> b[f]]
       @@ (IF Has(b, "ench")
           THEN [e \in {enchantments} |-> Each(EnchantmentToJava, b.ench)] ELSE <<>>)
       @@ NonEmpty("display", display)
       @@ Tag(j)

InBlock(item, j, block, blockJ) ==
  [id |-> blockJ.name]
    @@ [f \in {"Count", "Slot"} \cap DOMAIN item |-> item[f]]
    @@ NonEmpty("tag", TagFrom(Tag(item), j, BlockEntityTag(item, block, blockJ),
                               Display(item, j)))

OfBlock(item, j, block) ==
  InBlock(item, j, block, IF block = Null THEN [name |-> j.id] ELSE BJ!From(block))

(* j is what the converter gave, its id the new name. *)
Default(item, j) == OfBlock(item, j, BlockOf(item, j.id))

\* Mutant: the colour is forgotten there.
Coloured(item) == item

(* The colour of a star, which is that of its explosion, is not its own.   *)
Colourless(item) ==
  IF item.Name \in {<<"firework_star">>, <<"fireworkscharge">>} /\ Has(item, "tag")
  THEN [item EXCEPT !.tag = [f \in DOMAIN @ \ {"customColor"} |-> @[f]]]
  ELSE item

FromUncharged(item) == Default(Colourless(item), FromTable(item))

Crossbow(item) ==
  [id |-> item.Name]
    @@ IF Has(Tag(item), "chargedItem")
       THEN [tag |-> [ChargedProjectiles |-> <<FromUncharged(item.tag.chargedItem)>>,
                      Charged |-> TRUE]]
       ELSE <<>>

(* The name "" is that of no item. *)
From(item) ==
  IF item.Name = <<>> THEN <<>>
  ELSE Default(Colourless(item),
               IF item.Name = <<"crossbow">> THEN Crossbow(item) ELSE FromTable(Colourless(item)))
=============================================================================
