------------------------------ MODULE MCItems -------------------------------
(***************************************************************************)
(* The Java items the runs convert: every name without a tag, and every    *)
(* tag the tables read on the items that can have it; and the Java block   *)
(* entities, each with a block that has it: every kind, in the states and  *)
(* with the fields that the tables read.  A set holds items, or pairs of a *)
(* block and its block entity, of one shape.                               *)
(***************************************************************************)
EXTENDS Integers, Sequences, TLC

T == INSTANCE ItemTrip
B == INSTANCE MCBlocks

Plain(names) == [id : names, Count : {3}]

With(names, tags) == [id : names, Count : {1}, tag : tags]

Named(texts) == {[display |-> [Name |-> t]] : t \in texts}

Object(t) == [json |-> "object", text |-> t]

NameTexts ==
  {Object("Ares"), [json |-> "value"], [json |-> "none", text |-> "Ares"],
   [json |-> "object", translate |-> "monument"],
   [json |-> "object", text |-> "Ares", color |-> "red"]}

Words ==
  {<<s>> : s \in T!Singles \ {"tipped_arrow", "potion", "splash_potion",
                                 "lingering_potion", "suspicious_stew"}}
    \cup UNION {{<<v, k>> : v \in T!Variants[k]} : k \in DOMAIN T!Variants}

ItemBlocks ==
  (B!Plain \ {<<"cave_air">>}) \cup B!Slabs \cup B!Stairs \cup B!Walls
    \cup B!Single({"chest", "barrel", "furnace", "item_frame", "glow_item_frame", "chain",
                   "redstone_torch", "red_mushroom_block", "brown_mushroom_block", "lectern",
                   "note_block", "spyglass", "amethyst_shard", "copper_ingot",
                   "experience_bottle"})
    \cup UNION {B!Of(B!Woods, k) : k \in {"sign", "hanging_sign", "door", "log", "trapdoor"}}
    \cup UNION {B!Of(B!Colors, k) : k \in {"bed", "banner"}}
    \cup {<<s, "skull">> : s \in {"skeleton", "wither_skeleton"}}
    \cup {<<s, "head">> : s \in {"player", "zombie", "creeper", "dragon", "piglin"}}

Enchantment(e) == <<[id |-> e, lvl |-> 2]>>

AllEnchantments == DOMAIN T!Enchantments \cup {"sweeping"}

Tools == {<<"iron", "sword">>, <<"bow">>, <<"oak", "planks">>, <<"birch", "sign">>,
          <<"oak", "sign">>, <<"red", "banner">>, <<"cod">>, <<"written_book">>}

Common ==
  With(Tools, Named(NameTexts))
    \cup With({<<"enchanted_book">>}, {[StoredEnchantments |-> Enchantment(e)] : e \in AllEnchantments})
    \cup With({<<"iron", "sword">>}, {[Enchantments |-> Enchantment(e)] : e \in AllEnchantments})
    \cup With(Tools, {[Damage |-> 7, RepairCost |-> 3]})
    \cup With(Tools, {[display |-> [Name |-> Object("Ares"), Lore |-> <<"old", "(+NBT)">>]]})
    \cup With({<<"leather", "boots">>}, {[display |-> [color |-> 11546150]],
                                         [display |-> [color |-> 1, Name |-> Object("Ares")]]})

Potions ==
  With({<<"potion">>, <<"lingering_potion">>, <<"tipped_arrow">>},
       [Potion : DOMAIN T!Potion \cup {"luck"}])

Colours == {<<T!Dye("white"), T!Dye("lime")>>, <<T!LikeDye("red")>>}

Explosions ==
  [Type : 0..4, Flicker : BOOLEAN, Trail : BOOLEAN, Colors : Colours]
    \cup [Type : {1}, Flicker : {TRUE}, Trail : {TRUE}, Colors : Colours,
          FadeColors : {<<T!Dye(c)>> : c \in B!Colors}]

FireworkItems ==
  With({<<"firework_star">>}, [Explosion : Explosions])
    \cup With({<<"firework_rocket">>},
              [Fireworks : [Flight : 1..3,
                            Explosions : {<<>>} \cup {<<e>> : e \in Explosions}]])

Effect(id, duration) == [EffectId |-> id, EffectDuration |-> duration]

Stews ==
  With({<<"suspicious_stew">>},
       {[Effects |-> <<T!JavaEffectFromBedrockSuspiciousStew(d)>>] : d \in 0..9}
         \cup {[Effects |-> <<Effect(8, 120), Effect(16, 100)>>],
               [Effects |-> <<Effect(2, 60)>>], [Effects |-> <<>>]})

Arrow(n) == [id |-> <<"arrow">>, Count |-> n]

Rocket == [id |-> <<"firework_rocket">>, Count |-> 1,
           tag |-> [Fireworks |-> [Flight |-> 1, Explosions |-> <<>>]]]

Crossbows ==
  With({<<"crossbow">>},
       {[Charged |-> TRUE, ChargedProjectiles |-> s] :
          s \in {<<Arrow(1)>>, <<Rocket>>, <<Arrow(1), Arrow(1), Arrow(1)>>,
                 <<[id |-> <<"tipped_arrow">>, Count |-> 1, tag |-> [Potion |-> "poison"]]>>}}
         \cup {[Charged |-> FALSE, ChargedProjectiles |-> <<>>]})

Pattern(c) == [Color |-> c, Pattern |-> "bs"]

Banners ==
  With(B!Of({"red", "black"}, "banner"),
       {[BlockEntityTag |-> [id |-> <<"banner">>, Patterns |-> <<Pattern(c), Pattern(0)>>]] :
          c \in 0..15})
    \cup With({<<"white", "banner">>},
              {[BlockEntityTag |-> [id |-> <<"banner">>,
                                    Patterns |-> T!OminousBannerPatterns],
                display |-> [Name |-> [json |-> "object",
                                       translate |-> "block.minecraft.ominous_banner"]]]})

Page(t) == Object(<<t>>)

Books ==
  With({<<"written_book">>},
       {[author |-> "Steve", title |-> "Log", pages |-> <<p>>] :
          p \in {Page("day 1"), [json |-> "none", text |-> <<"day 1">>], [json |-> "value"],
                 [json |-> "object", text |-> <<>>, extra |-> <<"a", "CRLF", "b">>]}})
    \cup With({<<"writable_book">>},
              {[pages |-> <<p>>] :
                 p \in {[json |-> "none", text |-> <<"day 1">>], [json |-> "value"], Page("x")}})

Fish ==
  With({<<"tropical_fish", "bucket">>},
       {[BucketVariantTag |-> small + 256 * pattern + 65536 * body + 16777216 * marks] :
          small \in 0..1, pattern \in 0..5, body \in {0, 1, 14}, marks \in {0, 1, 14}})

Axolotls ==
  With({<<"axolotl", "bucket">>},
       [Age : {0, -24000}, Health : {14, 3}, Variant : 0..4]
         \cup {[Age |-> 0, Health |-> 14, Variant |-> 4,
                display |-> [Name |-> Object("Ares")]]})

Horns ==
  With({<<"goat_horn">>}, [instrument : DOMAIN T!GoatHorn])
    \cup Plain({<<"goat_horn">>})

FilledMaps ==
  With({<<"filled_map">>},
       {[map |-> n] : n \in {1, 2, 7}}
         \cup {[map |-> 7, display |-> T!MapNames[d], Decorations |-> <<"monument">>] :
                 d \in DOMAIN T!MapNames})

AllItems ==
  <<Plain(Words), Plain(ItemBlocks), Common, Potions, FireworkItems, Stews, Crossbows,
    Banners, Books, Fish, Axolotls, Horns, FilledMaps>>

-----------------------------------------------------------------------------
(* Block entities *)

Each(blocks, tiles) == [block : blocks, tile : tiles]

WithId(id, tiles) == {[id |-> id, keepPacked |-> FALSE] @@ c : c \in tiles}

Untagged(id) == WithId(id, {<<>>})

NamedTile(id) == WithId(id, {[CustomName |-> t] : t \in NameTexts})

Turned(name) == B!Turned({name})

Aimed(name) == B!Aimed({name})

Bare(name) == {[name |-> name]}

At(slot, item) == [Slot |-> slot] @@ item

Stone == [id |-> <<"stone">>, Count |-> 64]

Sword == [id |-> <<"iron", "sword">>, Count |-> 1, tag |-> [Damage |-> 7]]

Box == [id |-> <<"red", "shulker_box">>, Count |-> 1,
        tag |-> [BlockEntityTag |-> [id |-> <<"shulker_box">>, Items |-> <<At(5, Stone)>>]]]

LostMap == [id |-> <<"filled_map">>, Count |-> 1, tag |-> [map |-> 2]]

Contents ==
  {<<>>, <<At(0, Sword)>>, <<At(0, Stone), At(13, Box)>>, <<At(1, LostMap), At(3, Stone)>>}

Storage(id) == WithId(id, [Items : Contents])

LootTables ==
  [LootTable : {<<"minecraft", "simple_dungeon">>, <<"minecraft", "shipwreck_map">>,
                <<"mypack", "chest">>},
   LootTableSeed : {3, 40}]

Chests ==
  UNION {Each(B!Blocks({<<k>>}, [facing : B!Facing4, type : {"single", "left", "right"}]),
              Storage(<<k>>) \cup WithId(<<k>>, LootTables) \cup NamedTile(<<k>>)) :
           k \in {"chest", "trapped_chest"}}

Containers ==
  UNION {Each(Aimed(<<k>>), Storage(<<k>>) \cup WithId(<<k>>, LootTables)) :
           k \in {"dispenser", "dropper", "barrel"}}
    \cup Each(Aimed(<<"shulker_box">>) \cup Aimed(<<"light_gray", "shulker_box">>),
              Storage(<<"shulker_box">>))
    \cup Each(B!Blocks({<<"hopper">>}, [facing : B!Facing4 \cup {"down"}, enabled : BOOLEAN]),
              WithId(<<"hopper">>, [Items : Contents, TransferCooldown : {0, 8}]))

Furnaces ==
  UNION {Each(B!Blocks({<<k>>}, [facing : B!Facing4, lit : BOOLEAN]),
              WithId(<<k>>, [Items : Contents, BurnTime : {0, 1600}, CookTime : {0, 100},
                             CookTimeTotal : {200}])) :
           k \in {"furnace", "smoker", "blast_furnace"}}

Bottle(slot) == At(slot, [id |-> <<"potion">>, Count |-> 1, tag |-> [Potion |-> "water"]])

BrewingStands ==
  Each({[name |-> <<"brewing_stand">>, has_bottle_0 |-> TRUE, has_bottle_1 |-> FALSE,
         has_bottle_2 |-> TRUE]},
       WithId(<<"brewing_stand">>,
              [Items : {<<>>, <<Bottle(0), Bottle(2), At(3, Stone), At(4, Stone)>>,
                        <<Bottle(0), Bottle(1), Bottle(2)>>, <<At(3, Stone)>>},
               BrewTime : {0, 400}, Fuel : {0, 20}]))

Campfires ==
  Each(B!Blocks({<<"campfire">>, <<"soul_campfire">>}, [facing : B!Facing4, lit : BOOLEAN]),
       WithId(<<"campfire">>,
              [Items : {<<>>, <<At(0, Stone), At(1, Sword)>>, <<At(2, Stone)>>},
               CookingTimes : {<<0, 0, 0, 0>>, <<30, 0, 0, 0>>},
               CookingTotalTimes : {<<0, 0, 0, 0>>, <<600, 600, 0, 0>>, <<0, 0, 600, 0>>,
                                    <<600, 0, 0, 0>>}]))

Shelved(n) == At(n, [id |-> <<"book">>, Count |-> 1])

(* The states of the shelf are those of the books on it. *)
ShelfOf(books, facing) ==
  LET filled(n) == \E k \in DOMAIN books : books[k].Slot = n
  IN [name |-> <<"chiseled_bookshelf">>, facing |-> facing,
      slot_0_occupied |-> filled(0), slot_1_occupied |-> filled(1),
      slot_2_occupied |-> filled(2), slot_3_occupied |-> filled(3),
      slot_4_occupied |-> filled(4), slot_5_occupied |-> filled(5)]

Bookshelves ==
  {[block |-> ShelfOf(books, facing),
    tile |-> [id |-> <<"chiseled_bookshelf">>, keepPacked |-> FALSE, Items |-> books,
              last_interacted_slot |-> last]] :
     books \in {<<>>, <<Shelved(0), Shelved(5)>>, <<Shelved(3)>>},
     facing \in B!Facing4, last \in {-1, 0, 5}}

Records ==
  {[block |-> [name |-> <<"jukebox">>, has_record |-> TRUE],
    tile |-> [id |-> <<"jukebox">>, keepPacked |-> FALSE, RecordItem |-> i]] :
     i \in {[id |-> <<"music_disc", "cat">>, Count |-> 1]}}
    \cup Each({[name |-> <<"jukebox">>, has_record |-> FALSE]}, Untagged(<<"jukebox">>))

Book(page) ==
  [id |-> <<"written_book">>, Count |-> 1,
   tag |-> [author |-> "Steve", title |-> "Log", pages |-> <<page>>]]

Lecterns ==
  Each(B!Blocks({<<"lectern">>}, [facing : B!Facing4, has_book : {TRUE}, powered : {FALSE}]),
       WithId(<<"lectern">>,
              [Page : {0, 3}, Book : {Book(Page("day 1")), Book([json |-> "value"])}]))
    \cup Each(B!Blocks({<<"lectern">>}, [facing : B!Facing4, has_book : {FALSE}, powered : {FALSE}]),
              Untagged(<<"lectern">>))

Line(t) == Object(t)

Lines == {Line(<<"hi">>), [json |-> "object", text |-> <<>>, extra |-> <<"a", "b">>],
          [json |-> "value"], [json |-> "none", text |-> <<"raw">>]}

SignTiles(id) ==
  WithId(id, [Color : {"black", "light_gray"}, GlowingText : BOOLEAN, Text1 : Lines,
              Text2 : {Line(<<>>)}, Text3 : {Line(<<>>), Line(<<"there">>)},
              Text4 : {Line(<<>>)}])

Signs ==
  Each(UNION {B!Blocks({<<w, "sign">>}, [rotation : {0, 15}])
                \cup Turned(<<w, "wall_sign">>) : w \in {"oak", "dark_oak", "birch"}},
       SignTiles(<<"sign">>))
    \cup Each(B!Blocks({<<"oak", "hanging_sign">>}, [rotation : {5}, attached : BOOLEAN])
                \cup Turned(<<"oak", "wall_hanging_sign">>),
              SignTiles(<<"hanging_sign">>))

Skulls ==
  LET kinds == {<<"skeleton", "skull">>, <<"wither_skeleton", "skull">>} \cup
               {<<m, "head">> : m \in {"player", "zombie", "creeper", "dragon", "piglin"}}
      wall(n) == <<n[1], IF n[2] = "skull" THEN "wall_skull" ELSE "wall_head">>
  IN Each(B!Blocks(kinds, [rotation : 0..15]) \cup B!Turned({wall(n) : n \in kinds}),
          Untagged(<<"skull">>) \cup WithId(<<"skull">>, {[SkullOwner |-> "Steve"]}))

BannerTiles ==
  Each(B!Blocks({<<c, "banner">> : c \in B!Colors}, [rotation : {0, 7}])
         \cup B!Turned({<<c, "wall_banner">> : c \in B!Colors}),
       Untagged(<<"banner">>)
         \cup WithId(<<"banner">>, [Patterns : {<<Pattern(c), Pattern(0)>> : c \in 0..15}]))
    \cup Each(B!Blocks({<<"white", "banner">>}, [rotation : {7}]),
              WithId(<<"banner">>,
                     {[CustomName |-> [json |-> "object", color |-> "gold",
                                       translate |-> "block.minecraft.ominous_banner"],
                       Patterns |-> T!OminousBannerPatterns]}))

Beds ==
  Each(B!Blocks({<<c, "bed">> : c \in B!Colors},
                [facing : B!Facing4, part : {"head", "foot"}, occupied : {FALSE}]),
       Untagged(<<"bed">>))

PottedPlants ==
  {<<w, "sapling">> : w \in {"oak", "spruce", "birch", "jungle", "acacia", "dark_oak"}}
    \cup {<<p>> : p \in {"poppy", "blue_orchid", "allium", "azure_bluet", "red_tulip",
                         "orange_tulip", "white_tulip", "pink_tulip", "oxeye_daisy",
                         "cornflower", "lily_of_the_valley", "dandelion", "wither_rose",
                         "crimson_fungus", "warped_fungus", "dead_bush", "red_mushroom",
                         "brown_mushroom", "fern", "bamboo", "crimson_roots",
                         "warped_roots", "cactus", "azalea_bush",
                         "flowering_azalea_bush", "mangrove_propagule"}}

Tileless ==
  Each({[name |-> <<"potted">> \o p] : p \in PottedPlants}
         \cup B!Blocks({<<"note_block">>},
                       [note : {0, 24}, powered : {FALSE}, instrument : {"harp"}]),
       {<<>>})

Spawners ==
  Each(Bare(<<"spawner">>),
       WithId(<<"mob_spawner">>,
              [MaxNearbyEntities : {6}, MaxSpawnDelay : {800}, MinSpawnDelay : {200},
               RequiredPlayerRange : {16, 40}, Delay : {0, -1}, SpawnCount : {4},
               SpawnRange : {4},
               SpawnData : {[entity |-> [id |-> <<"zombie">>]],
                            [entity |-> [id |-> <<"zombie">>, IsBaby |-> TRUE]],
                            [entity |-> [id |-> <<"zombie">>], custom_spawn_rules |-> <<>>],
                            [entity |-> <<>>]},
               SpawnPotentials : {<<>>}]))

Commands ==
  Each(B!Blocks({<<"command_block">>, <<"chain_command_block">>, <<"repeating_command_block">>},
                [facing : B!Facing6, conditional : BOOLEAN]),
       WithId(<<"command_block">>,
              [Command : {<<"java", "say hi">>, <<"java", "">>}, SuccessCount : {0, 3},
               auto : BOOLEAN, powered : {FALSE}, conditionMet : {FALSE},
               TrackOutput : BOOLEAN, UpdateLastExecution : BOOLEAN,
               CustomName : {Object("@"), Object("Ares")}]
         \cup [Command : {<<"java", "say hi">>}, SuccessCount : {0}, auto : BOOLEAN,
               powered : {FALSE}, conditionMet : {TRUE}, TrackOutput : {TRUE},
               UpdateLastExecution : {TRUE}, LastExecution : {77}]))

StructureBlocks ==
  LET modes == {"SAVE", "LOAD", "CORNER", "DATA"}
  IN {[block |-> [name |-> <<"structure_block">>, mode |-> m],
       tile |-> [id |-> <<"structure_block">>, keepPacked |-> FALSE, ignoreEntities |-> TRUE,
                 powered |-> FALSE, showboundingbox |-> TRUE, integrity |-> 1,
                 name |-> "house", metadata |-> "", posX |-> 0, posY |-> 1, posZ |-> -2,
                 sizeX |-> 3, sizeY |-> 4, sizeZ |-> 5, seed |-> 0, showair |-> air,
                 mirror |-> mirror, mode |-> m, rotation |-> rotation]] :
        m \in modes, air \in BOOLEAN, mirror \in {"NONE", "LEFT_RIGHT", "FRONT_BACK"},
        rotation \in {"NONE", "CLOCKWISE_90", "CLOCKWISE_180", "COUNTERCLOCKWISE_90"}}

Hives ==
  Each(B!Blocks({<<"beehive">>, <<"bee_nest">>}, [facing : B!Facing4, honey_level : {0, 5}]),
       WithId(<<"beehive">>,
              {[Bees |-> <<>>]}
                \cup [Bees : {<<[EntityData |-> T!Mob("java"), MinOccupationTicks |-> 600,
                                 TicksInHive |-> t]>> : t \in {0, 800}}]))

Others ==
  Each(B!Blocks({<<"comparator">>},
                [facing : B!Facing4, mode : {"compare", "subtract"}, powered : BOOLEAN]),
       WithId(<<"comparator">>, [OutputSignal : {0, 15}]))
    \cup Each(Bare(<<"beacon">>),
              WithId(<<"beacon">>, [Primary : {-1, 5}, Secondary : {-1, 10}, Levels : {4}]))
    \cup Each(Bare(<<"end_portal">>), Untagged(<<"end_portal">>))
    \cup Each(Bare(<<"end_gateway">>),
              WithId(<<"end_gateway">>,
                     [Age : {0, 180}, ExitPortal : {[X |-> 10, Y |-> 70, Z |-> -5]}]
                       \cup [Age : {0}]
                       \cup [Age : {0}, ExitPortal : {[X |-> 10, Y |-> 70, Z |-> -5]},
                             ExactTeleport : {TRUE}]))
    \cup Each(B!Blocks({<<"bell">>},
                       [facing : B!Facing4, powered : BOOLEAN,
                        attachment : {"floor", "ceiling", "single_wall", "double_wall"}]),
              Untagged(<<"bell">>))
    \cup Each(Bare(<<"conduit">>), Untagged(<<"conduit">>) \cup WithId(<<"conduit">>, {[Target |-> 3]}))
    \cup Each(Turned(<<"ender_chest">>), Untagged(<<"ender_chest">>))
    \cup Each(Bare(<<"enchanting_table">>), Untagged(<<"enchanting_table">>)
                                             \cup NamedTile(<<"enchanting_table">>))
    \cup Each(B!Blocks({<<"daylight_detector">>}, [power : {0, 15}, inverted : BOOLEAN]),
              Untagged(<<"daylight_detector">>))
    \cup Each(B!Blocks({<<"sculk_sensor">>}, [power : {0}, sculk_sensor_phase : {"inactive"}]),
              Untagged(<<"sculk_sensor">>)
                \cup WithId(<<"sculk_sensor">>, {[last_vibration_frequency |-> 3]}))
    \cup Each(B!Blocks({<<"sculk_shrieker">>}, [can_summon : BOOLEAN, shrieking : BOOLEAN]),
              WithId(<<"sculk_shrieker">>, [warning_level : {0, 2}]))
    \cup Each(B!Blocks({<<"sculk_catalyst">>}, [bloom : BOOLEAN]),
              WithId(<<"sculk_catalyst">>, [cursors : {<<>>}]))

AllTiles ==
  <<Chests, Containers, Furnaces, BrewingStands, Campfires, Bookshelves, Records, Lecterns,
    Signs, Skulls, BannerTiles, Beds, Tileless, Spawners, Commands, StructureBlocks, Hives, Others>>
=============================================================================
