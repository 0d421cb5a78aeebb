----------------------------- MODULE ItemTables -----------------------------
(***************************************************************************)
(* The numbers that items, their effects and their colours have in the two *)
(* editions: src/src/item/, src/src/entity/ and the headers that both      *)
(* directions of the item conversion read.                                 *)
(***************************************************************************)
EXTENDS Enums, FiniteSets, Sequences, TLC

(* ReversibleMap::forward, or the default of the caller. *)
Forward(table, v, default) == IF v \in DOMAIN table THEN table[v] ELSE default

-----------------------------------------------------------------------------
(* Compounds and the texts in them: JSON is told by whether it parses as an *)
(* object, and an object by the text or the key it has.                    *)

Null == <<>>

Field(r, p, default) == IF p \in DOMAIN r THEN r[p] ELSE default

Has(r, p) == p \in DOMAIN r

Without(r, fields) == [p \in DOMAIN r \ fields |-> r[p]]

Tag(item) == Field(item, "tag", Null)

Text(t) == [json |-> "object", text |-> t]

Translated(key) == [json |-> "object", translate |-> key]

TranslationOf(item) ==
  Field(Field(Field(Tag(item), "display", Null), "Name", Null), "translate", "")

-----------------------------------------------------------------------------
(* Potions and the arrows tipped with them *)

Potion ==
  [water |-> 0, mundane |-> 1, thick |-> 2, awkward |-> 3,
   night_vision |-> 5, long_night_vision |-> 6,
   invisibility |-> 7, long_invisibility |-> 8,
   leaping |-> 9, long_leaping |-> 10, strong_leaping |-> 11,
   fire_resistance |-> 12, long_fire_resistance |-> 13,
   swiftness |-> 14, long_swiftness |-> 15, strong_swiftness |-> 16,
   slowness |-> 17, long_slowness |-> 18, strong_slowness |-> 42,
   water_breathing |-> 19, long_water_breathing |-> 20,
   healing |-> 21, strong_healing |-> 22, harming |-> 23, strong_harming |-> 24,
   poison |-> 25, long_poison |-> 26, strong_poison |-> 27,
   regeneration |-> 28, long_regeneration |-> 29, strong_regeneration |-> 30,
   strength |-> 31, long_strength |-> 32, strong_strength |-> 33,
   weakness |-> 34, long_weakness |-> 35,
   turtle_master |-> 37, long_turtle_master |-> 38, strong_turtle_master |-> 39,
   slow_falling |-> 40, long_slow_falling |-> 41]

BedrockPotionTypeFromJava(name) == Forward(Potion, name, 0)

JavaPotionTypeFromBedrock(type) == Decode(Potion, type, "water")

(* An arrow has the number after that of its potion, if that does anything.*)
TippedArrowPotion ==
  [p \in {q \in DOMAIN Potion : Potion[q] > 3} |-> Potion[p] + 1]

BedrockTippedArrow(name) == Forward(TippedArrowPotion, name, 6)

JavaTippedArrow(type) == Decode(TippedArrowPotion, type, "night_vision")

-----------------------------------------------------------------------------
(* Enchantments, goat horns, stews *)

Enchantments ==
  LET inOrder ==
        <<"protection", "fire_protection", "feather_falling", "blast_protection",
          "projectile_protection", "thorns", "respiration", "depth_strider",
          "aqua_affinity", "sharpness", "smite", "bane_of_arthropods", "knockback",
          "fire_aspect", "looting", "efficiency", "silk_touch", "unbreaking", "fortune",
          "power", "punch", "flame", "infinity", "luck_of_the_sea", "lure",
          "frost_walker", "mending", "binding_curse", "vanishing_curse", "impaling",
          "riptide", "loyalty", "channeling", "multishot", "piercing", "quick_charge",
          "soul_speed", "swift_sneak">>
  IN [e \in {inOrder[i] : i \in DOMAIN inOrder} |->
        (CHOOSE i \in DOMAIN inOrder : inOrder[i] = e) - 1]

BedrockEnchantmentIdFromJava(id) == Forward(Enchantments, id, 0)

JavaEnchantmentIdFromBedrock(id) == Decode(Enchantments, id, "")

GoatHorn ==
  [ponder_goat_horn |-> 0, sing_goat_horn |-> 1, seek_goat_horn |-> 2,
   feel_goat_horn |-> 3, admire_goat_horn |-> 4, call_goat_horn |-> 5,
   yearn_goat_horn |-> 6, dream_goat_horn |-> 7]

BedrockDamageFromJavaInstrument(name) == Forward(GoatHorn, name, 0)

JavaInstrumentFromBedrockDamage(damage) == Decode(GoatHorn, damage, "ponder_goat_horn")

JumpBoost == 8
FireResistance == 12
Regeneration == 10
Blindness == 15
NightVision == 16
Weakness == 18
Poison == 19
Wither == 20
Saturation == 23

BedrockSuspiciousStewFromJavaEffect(effect) ==
  Forward(JumpBoost :> 1 @@ Weakness :> 2 @@ Blindness :> 3 @@ Poison :> 4
            @@ Saturation :> 6 @@ FireResistance :> 7 @@ Regeneration :> 8
            @@ Wither :> 9, effect, 0)

Stew(id, duration) == [EffectId |-> id, EffectDuration |-> duration]

JavaEffectFromBedrockSuspiciousStew(damage) ==
  Forward(1 :> Stew(JumpBoost, 120) @@ 2 :> Stew(Weakness, 180)
            @@ 3 :> Stew(Blindness, 160) @@ 4 :> Stew(Poison, 240)
            @@ 6 :> Stew(Saturation, 7) @@ 7 :> Stew(FireResistance, 80)
            @@ 8 :> Stew(Regeneration, 160) @@ 9 :> Stew(Wither, 160),
          damage, Stew(NightVision, 100))

-----------------------------------------------------------------------------
(* Axolotls and tropical fish *)

Axolotl == 0 :> 0 @@ 1 :> 3 @@ 2 :> 2 @@ 3 :> 1 @@ 4 :> 4

JavaVariantFromBedrockVariant(b) == Decode(Axolotl, b, 0)

(* A variant out of range is the nearest one of the table. *)
VariantFromJava(java) == Axolotl[IF java < 0 THEN 0 ELSE IF java > 4 THEN 4 ELSE java]

Nibble(u, shift) == (u \div 2 ^ shift) % 16

TropicalFishFromJavaVariant(variant) ==
  [small |-> Nibble(variant, 0) = 0, pattern |-> Nibble(variant, 8),
   bodyColor |-> Nibble(variant, 16), patternColor |-> Nibble(variant, 24)]

ToJavaVariant(fish) ==
  (IF fish.small THEN 0 ELSE 1) + (fish.pattern % 16) * 2 ^ 8
    + (fish.bodyColor % 16) * 2 ^ 16 + (fish.patternColor % 16) * 2 ^ 24

(* The names of the body and its colours, which no one reads, are left out. *)
ToBedrockBucketTag(fish) ==
  [Variant |-> IF fish.small THEN 0 ELSE 1, MarkVariant |-> fish.pattern,
   Color |-> fish.bodyColor, Color2 |-> fish.patternColor]

TropicalFishFromBedrockBucketTag(tag) ==
  [small |-> Forward(tag, "Variant", 0) = 0, pattern |-> Forward(tag, "MarkVariant", 0),
   bodyColor |-> Forward(tag, "Color", 0), patternColor |-> Forward(tag, "Color2", 0)]

-----------------------------------------------------------------------------
(* Fireworks: Java has any colour, Bedrock the sixteen of the dyes.  A     *)
(* colour is the name of its dye, or the record of a colour that no dye    *)
(* has, with the dye it looks most like.                                   *)

BedrockFireworkColor ==
  [black |-> 0, red |-> 1, green |-> 2, brown |-> 3, blue |-> 4, purple |-> 5,
   cyan |-> 6, light_gray |-> 7, gray |-> 8, pink |-> 9, lime |-> 10, yellow |-> 11,
   light_blue |-> 12, magenta |-> 13, orange |-> 14, white |-> 15]

Dye(c) == <<"dye", c>>

LikeDye(c) == <<"like", c>>

MostSimilarColor(rgb) == BedrockFireworkColor[rgb[2]]

GetBedrockColorCode(rgb) ==
  IF rgb \in {Dye(c) : c \in DOMAIN BedrockFireworkColor}
  THEN BedrockFireworkColor[rgb[2]]
  ELSE MostSimilarColor(rgb)

Each(Op(_), s) == [i \in DOMAIN s |-> Op(s[i])]

(* The fields of a record that a table renames; the absent stay absent. *)
Renamed(r, names) ==
  [n \in {m \in DOMAIN names : names[m] \in DOMAIN r} |-> r[names[n]]]

ListIn(tag, field) == IF field \in DOMAIN tag THEN tag[field] ELSE <<>>

NonEmpty(field, s) == IF s = <<>> THEN <<>> ELSE field :> s

ExplosionToBedrock(e) ==
  Renamed(e, [FireworkFlicker |-> "Flicker", FireworkTrail |-> "Trail",
              FireworkType |-> "Type"])
    @@ NonEmpty("FireworkColor", Each(GetBedrockColorCode, ListIn(e, "Colors")))
    @@ NonEmpty("FireworkFade", Each(GetBedrockColorCode, ListIn(e, "FadeColors")))

ExplosionToJava(e) ==
  LET color(code) == Dye(Decode(BedrockFireworkColor, code, "black"))
  IN Renamed(e, [Flicker |-> "FireworkFlicker", Trail |-> "FireworkTrail",
                 Type |-> "FireworkType"])
       @@ NonEmpty("Colors", Each(color, ListIn(e, "FireworkColor")))
       @@ NonEmpty("FadeColors", Each(color, ListIn(e, "FireworkFade")))

FireworksToBedrock(f) ==
  [Explosions |-> Each(ExplosionToBedrock, ListIn(f, "Explosions"))]
    @@ Renamed(f, [Flight |-> "Flight"])

FireworksToJava(f) ==
  [Explosions |-> Each(ExplosionToJava, ListIn(f, "Explosions"))]
    @@ Renamed(f, [Flight |-> "Flight"])

-----------------------------------------------------------------------------
(* Ominous banners *)

OminousBannerPatterns ==
  LET p(color, pattern) == [Color |-> color, Pattern |-> pattern]
  IN <<p(9, "mr"), p(8, "bs"), p(7, "cs"), p(8, "bo"), p(15, "ms"), p(8, "hh"),
       p(8, "mc"), p(15, "bo")>>

-----------------------------------------------------------------------------
(* Loot tables (src/src/tile-entity/_loot-table.hpp): in Java a space and  *)
(* the path in it.                                                         *)

LootTableNames ==
  [buried_treasure |-> "buriedtreasure", jungle_temple_dispenser |-> "dispenser_trap",
   shipwreck_map |-> "shipwreck", shipwreck_supply |-> "shipwrecksupply",
   shipwreck_treasure |-> "shipwrecktreasure"]

(* Any number of 32 bits: the larger ones are mixed down to them. *)
SeedMax == 7

SquashI64ToI32(seed) == IF seed <= SeedMax THEN seed ELSE seed % SeedMax

LootTableJavaToBedrock(c) ==
  IF {"LootTable", "LootTableSeed"} \subseteq DOMAIN c /\ c.LootTable[1] = "minecraft"
  THEN [LootTable |-> Forward(LootTableNames, c.LootTable[2], c.LootTable[2]),
        LootTableSeed |-> SquashI64ToI32(c.LootTableSeed)]
  ELSE <<>>

LootTableBedrockToJava(tag) ==
  IF {"LootTable", "LootTableSeed"} \subseteq DOMAIN tag
  THEN [LootTable |-> <<"minecraft", Decode(LootTableNames, tag.LootTable, tag.LootTable)>>,
        LootTableSeed |-> tag.LootTableSeed]
  ELSE <<>>

MapType ==
  [buried_treasure |-> 5, mansion |-> 4, monument |-> 3]

MapNames ==
  3 :> [Name |-> Translated("monument"), MapColor |-> 3830373]
    @@ 4 :> [Name |-> Translated("mansion"), MapColor |-> 5393476]
    @@ 5 :> [Name |-> Translated("buried_treasure")]

-----------------------------------------------------------------------------
(* The names that are items and not blocks *)

Mobs ==
  {"bat", "bee", "blaze", "cat", "cave_spider", "chicken", "cod", "cow", "creeper",
   "dolphin", "donkey", "drowned", "elder_guardian", "enderman", "endermite", "evoker",
   "fox", "frog", "ghast", "guardian", "hoglin", "horse", "husk", "llama", "magma_cube",
   "mooshroom", "mule", "ocelot", "panda", "parrot", "phantom", "pig", "piglin",
   "piglin_brute", "pillager", "polar_bear", "pufferfish", "rabbit", "ravager",
   "salmon", "sheep", "shulker", "silverfish", "skeleton", "skeleton_horse", "slime",
   "spider", "squid", "stray", "strider", "tadpole", "trader_llama", "tropical_fish",
   "turtle", "vex", "villager", "vindicator", "wandering_trader", "warden", "witch",
   "wither_skeleton", "wolf", "zoglin", "zombie", "zombie_horse", "zombie_villager",
   "zombified_piglin"}

Metals == {"wooden", "stone", "golden", "iron", "diamond", "netherite"}

Boats == {"oak", "spruce", "birch", "jungle", "acacia", "dark_oak", "mangrove"}

(* The names of more than one word, by their last. *)
Variants ==
  [spawn_egg |-> Mobs, shovel |-> Metals, pickaxe |-> Metals, axe |-> Metals,
   hoe |-> Metals, sword |-> Metals, dye |-> DOMAIN BedrockFireworkColor,
   boat |-> Boats, chest_boat |-> Boats,
   bucket |-> {"water", "lava", "milk", "pufferfish", "salmon", "cod", "tropical_fish",
               "axolotl", "tadpole"},
   minecart |-> {"chest", "furnace", "tnt", "hopper"},
   horse_armor |-> {"iron", "golden", "diamond", "leather"},
   banner_pattern |-> {"flower", "creeper", "skull", "mojang", "globe", "piglin"},
   door |-> {"iron", "oak", "spruce", "birch", "jungle", "acacia", "dark_oak",
             "crimson", "warped"}]
  @@ [armor \in {"helmet", "chestplate", "leggings", "boots"} |->
        {"leather", "chainmail", "iron", "diamond", "golden", "netherite"}
          \cup IF armor = "helmet" THEN {"turtle"} ELSE {}]

Singles ==
  {"minecart", "saddle", "carrot_on_a_stick", "warped_fungus_on_a_stick", "elytra",
   "beacon", "turtle_egg", "conduit", "scute", "coal", "charcoal", "diamond",
   "iron_ingot", "gold_ingot", "netherite_ingot", "netherite_scrap", "stick", "bowl",
   "string", "feather", "gunpowder", "wheat_seeds", "wheat", "flint", "bucket",
   "snowball", "leather", "brick", "clay_ball", "paper", "book", "slime_ball", "egg",
   "glowstone_dust", "ink_sac", "cocoa_beans", "lapis_lazuli", "bone_meal", "bone",
   "sugar", "pumpkin_seeds", "melon_seeds", "ender_pearl", "blaze_rod", "gold_nugget",
   "nether_wart", "ender_eye", "experience_bottole", "fire_charge", "writable_book",
   "written_book", "emerald", "map", "nether_star", "firework_rocket",
   "firework_star", "nether_brick", "quartz", "prismarine_shard",
   "prismarine_crystals", "rabbit_hide", "chorus_fruit", "popped_chorus_fruit",
   "beetroot_seeds", "shulker_shell", "iron_nugget", "music_disc", "disc_fragment_5",
   "nautilus_shell", "heart_of_the_sea", "honeycomb", "apple", "mushroom_stew",
   "bread", "porkchop", "cooked_porkchop", "golden_apple", "enchanted_golden_apple",
   "cod", "salmon", "tropical_fish", "pufferfish", "cooked_cod", "cooked_salmon",
   "cake", "cookie", "melon_slice", "dried_kelp", "beef", "cooked_beef", "chicken",
   "cooked_chicken", "rotten_flesh", "spider_eye", "carrot", "potato",
   "baked_potato", "poisonous_potato", "pumpkin_pie", "rabbit", "cooked_rabbit",
   "rabbit_stew", "mutton", "cooked_mutton", "beetroot", "beetroot_soup",
   "sweet_berries", "honey_bottle", "flint_and_steel", "compass", "fishing_rod",
   "clock", "shears", "enchanted_book", "lead", "name_tag", "bow", "arrow",
   "spectral_arrow", "tipped_arrow", "shield", "totem_of_undying", "trident",
   "crossbow", "ghast_tear", "potion", "glass_bottle", "fermented_spider_eye",
   "blaze_powder", "magma_cream", "brewing_stand", "cauldron",
   "glistering_melon_slice", "golden_carrot", "rabbit_foot", "dragon_breath",
   "splash_potion", "lingering_potion", "phantom_membrane", "suspicious_stew",
   "raw_iron", "echo_shard", "recovery_compass", "repeater", "comparator",
   "campfire", "soul_campfire", "hopper", "flower_pot"}
=============================================================================
