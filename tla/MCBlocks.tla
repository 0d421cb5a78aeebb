------------------------------ MODULE MCBlocks ------------------------------
(***************************************************************************)
(* The Java blocks the runs convert: every kind of block that has a row of *)
(* its own in the tables, in every state it has in the game, and of the    *)
(* large families (colours, woods, stones) every name in a few states or   *)
(* a few names in every state.  A set holds blocks of one shape; where no  *)
(* table reads waterlogged, it is left out.                                *)
(***************************************************************************)
EXTENDS Naturals, Sequences

Blocks(names, props) ==
  {[p \in {"name"} \cup DOMAIN r |-> IF p = "name" THEN n ELSE r[p]] :
     n \in names, r \in props}

Of(variants, kind) == {<<v, kind>> : v \in variants}

Single(kinds) == {<<k>> : k \in kinds}

Facing4 == {"north", "east", "south", "west"}

Facing6 == Facing4 \cup {"up", "down"}

Woods == {"oak", "spruce", "birch", "jungle", "acacia", "dark_oak", "mangrove",
          "bamboo", "crimson", "warped"}

Colors == {"white", "orange", "magenta", "light_blue", "yellow", "lime", "pink", "gray",
           "light_gray", "cyan", "purple", "blue", "brown", "green", "red", "black"}

SomeColors == {"white", "light_gray", "lime"}

Corals == {"tube", "brain", "bubble", "fire", "horn"}

Copper == {<<"cut_copper">>, <<"exposed", "cut_copper">>, <<"waxed", "cut_copper">>,
           <<"waxed_oxidized", "cut_copper">>}

Slabs ==
  Of({"oak", "birch", "acacia", "dark_oak", "mangrove", "bamboo_mosaic", "crimson",
      "petrified_oak", "stone", "smooth_stone", "cobblestone", "stone_brick", "brick",
      "sandstone", "quartz", "nether_brick", "smooth_sandstone", "red_sandstone",
      "mossy_cobblestone", "dark_prismarine", "prismarine", "prismarine_brick",
      "purpur", "red_nether_brick", "granite", "polished_granite", "end_stone_brick",
      "smooth_red_sandstone", "smooth_quartz", "cut_sandstone", "mossy_stone_brick",
      "cut_red_sandstone", "blackstone", "mud_brick", "deepslate_tile"}, "slab")
    \cup {c \o <<"slab">> : c \in Copper}

Stairs ==
  Of({"oak", "warped", "stone", "cobblestone", "end_stone_brick", "prismarine",
      "prismarine_brick", "dark_prismarine", "nether_brick", "polished_granite"},
     "stairs") \cup {c \o <<"stairs">> : c \in Copper}

Walls ==
  Of({"cobblestone", "mossy_cobblestone", "brick", "prismarine", "red_sandstone",
      "stone_brick", "end_stone_brick", "blackstone", "mud_brick"}, "wall")

(* Names without properties that the tables rename or turn into a state. *)
Plain ==
  Single({"stone", "granite", "andesite", "diorite", "dirt", "sand", "red_sand",
          "sandstone", "red_sandstone", "sponge", "wet_sponge", "prismarine",
          "dark_prismarine", "purpur_block", "quartz_block", "smooth_quartz", "bricks",
          "stone_bricks", "grass", "fern", "dead_bush", "dandelion", "poppy",
          "blue_orchid", "azure_bluet", "red_tulip", "oxeye_daisy", "cornflower",
          "snow_block", "nether_quartz_ore", "red_nether_bricks", "magma_block",
          "end_stone_bricks", "melon", "nether_bricks", "slime_block", "lily_pad",
          "cobweb", "cave_air", "dirt_path", "waxed_copper_block", "rooted_dirt",
          "frogspawn", "terracotta", "shulker_box", "pumpkin", "seagrass",
          "structure_void", "flower_pot", "torch", "cauldron", "lava_cauldron",
          "crafting_table", "bookshelf", "obsidian", "netherrack", "mud"})
    \cup {<<"polished", "granite">>, <<"polished", "andesite">>, <<"coarse", "dirt">>,
          <<"chiseled", "sandstone">>, <<"cut", "red_sandstone">>,
          <<"smooth", "sandstone">>, <<"chiseled", "quartz_block">>,
          <<"prismarine", "bricks">>, <<"mossy", "stone_bricks">>,
          <<"infested", "stone">>, <<"infested", "cobblestone">>,
          <<"infested", "stone_bricks">>, <<"infested", "cracked", "stone_bricks">>,
          <<"soul", "torch">>}
    \cup Of(Woods, "planks")
    \cup UNION {Of(Colors, k) : k \in {"wool", "carpet", "concrete", "concrete_powder",
                                       "stained_glass", "terracotta"}}
    \cup Of(Corals, "coral_block") \cup {<<"dead", c, "coral_block">> : c \in Corals}

Flags(names, p) == Blocks(names, [{p} -> BOOLEAN])

Numbers(names, p, range) == Blocks(names, [{p} -> range])

Turned(names) == Blocks(names, [{"facing"} -> Facing4])

Aimed(names) == Blocks(names, [{"facing"} -> Facing6])

Axes(names) == Blocks(names, [{"axis"} -> {"x", "y", "z"}])

AllBlocks ==
  <<Blocks(Plain, {<<>>}),
    Axes(Of(Woods \ {"bamboo", "crimson", "warped"}, "log")),
    Axes({<<"stripped", "oak", "log">>, <<"stripped", "oak", "wood">>,
          <<"stripped", "mangrove", "wood">>, <<"oak", "wood">>, <<"mangrove", "wood">>,
          <<"crimson", "stem">>, <<"warped", "hyphae">>, <<"basalt">>, <<"deepslate">>,
          <<"infested", "deepslate">>, <<"bone_block">>, <<"hay_block">>,
          <<"quartz_pillar">>, <<"purpur_pillar">>, <<"ochre", "froglight">>,
          <<"muddy_mangrove_roots">>, <<"bamboo_block">>, <<"chain">>,
          <<"nether_portal">>}),
    Blocks(Of({"oak", "dark_oak", "azalea", "mangrove"}, "leaves")
             \cup {<<"flowering", "azalea", "leaves">>},
           [distance : {1, 7}, persistent : BOOLEAN]),
    Blocks(Slabs, [type : {"top", "bottom", "double"}]),
    Blocks(Stairs, [facing : Facing4, half : {"top", "bottom"}, shape : {"straight"}]),
    Blocks(Walls, [east : {"none", "low", "tall"}, north : {"low"}, south : {"tall"},
                   west : {"none", "low"}, up : BOOLEAN]),
    Blocks(Of({"oak", "bamboo", "nether_brick"}, "fence")
             \cup Of(SomeColors, "stained_glass_pane")
             \cup {<<"glass_pane">>, <<"iron_bars">>}, [Facing4 -> BOOLEAN]),
    Blocks(Of(Woods, "fence_gate"),
           [facing : Facing4, in_wall : BOOLEAN, open : BOOLEAN, powered : BOOLEAN]),
    Blocks(Of(Woods \cup {"stone", "polished_blackstone"}, "pressure_plate"),
           [powered : BOOLEAN]),
    Numbers({<<"light", "weighted", "pressure_plate">>,
             <<"heavy", "weighted", "pressure_plate">>, <<"target">>}, "power", {0, 7, 15}),
    Blocks(Of(Woods \cup {"iron"}, "trapdoor"),
           [facing : Facing4, half : {"top", "bottom"}, open : BOOLEAN, powered : {FALSE}]),
    Blocks(Of({"oak", "stone", "warped"}, "button") \cup {<<"lever">>},
           [face : {"floor", "wall", "ceiling"}, facing : Facing4, powered : BOOLEAN]),
    Blocks(Of({"oak", "iron", "bamboo"}, "door"),
           [facing : Facing4, half : {"lower", "upper"}, hinge : {"left", "right"},
            open : BOOLEAN, powered : {FALSE}]),
    Turned(Of(Colors, "glazed_terracotta") \cup Of(Woods, "wall_sign")
             \cup {<<"wall_torch">>, <<"soul", "wall_torch">>, <<"stonecutter">>, <<"loom">>,
                   <<"carved_pumpkin">>, <<"jack_o_lantern">>, <<"anvil">>,
                   <<"chipped", "anvil">>, <<"damaged", "anvil">>, <<"ender_chest">>,
                   <<"ladder">>, <<"big_dripleaf_stem">>}
             \cup Of(Woods, "wall_hanging_sign")
             \cup {<<c, "coral_wall_fan">> : c \in Corals}
             \cup {<<"dead", c, "coral_wall_fan">> : c \in Corals}),
    Aimed({<<"end_rod">>, <<"amethyst_cluster">>, <<"small", "amethyst_bud">>}),
    Numbers(Of(Woods, "sign"), "rotation", 0 .. 15),
    Blocks(Of({"oak", "bamboo"}, "hanging_sign"),
           [rotation : {0, 5, 15}, attached : BOOLEAN]),
    Blocks(Of(Corals, "coral") \cup Of(Corals, "coral_fan")
             \cup {<<"dead", c, "coral_fan">> : c \in Corals}
             \cup Single({"conduit", "hanging_roots", "mangrove_roots"}),
           [waterlogged : {FALSE}]),
    Flags(Of(SomeColors, "candle_cake")
            \cup {<<"candle_cake">>, <<"redstone_ore">>, <<"deepslate", "redstone_ore">>,
                  <<"redstone_lamp">>, <<"redstone", "torch">>}, "lit"),
    Blocks(Of(SomeColors, "candle") \cup {<<"candle">>}, [candles : 1 .. 4, lit : BOOLEAN]),
    Blocks({<<"furnace">>, <<"smoker">>, <<"blast_furnace">>, <<"redstone", "wall_torch">>},
           [facing : Facing4, lit : BOOLEAN]),
    Blocks(Of(SomeColors, "shulker_box"), [facing : {"up", "east"}]),
    Numbers(Single({"wheat", "carrots", "potatoes", "pumpkin_stem", "melon_stem"}),
            "age", 0 .. 7),
    Numbers(Single({"beetroots", "sweet_berry_bush", "nether_wart", "frosted_ice"}),
            "age", 0 .. 3),
    Numbers(Single({"cactus", "sugar_cane", "kelp"})
              \cup {<<"weeping", "vines">>, <<"twisting", "vines">>}, "age", {0, 1, 15}),
    Numbers(Of({"oak", "dark_oak"}, "sapling"), "stage", 0 .. 1),
    Numbers(Single({"water", "lava", "composter"}), "level", {0, 1, 7, 8}),
    Numbers(Single({"water_cauldron", "powder_snow_cauldron"}), "level", 1 .. 3),
    Blocks(Single({"tall_grass", "large_fern", "lilac", "rose_bush", "peony", "sunflower",
                   "tall_seagrass"}), [half : {"lower", "upper"}]),
    Blocks({<<"brown_mushroom_block">>, <<"red_mushroom_block">>, <<"mushroom_stem">>},
           [Facing6 -> BOOLEAN]),
    Blocks({<<"glow_lichen">>, <<"sculk_vein">>}, [Facing6 -> BOOLEAN])>>
  \o
  <<Blocks({<<"powered_rail">>, <<"detector_rail">>, <<"activator_rail">>},
           [powered : BOOLEAN, shape : {"north_south", "east_west", "ascending_east",
              "ascending_west", "ascending_north", "ascending_south"}]),
    Blocks({<<"rail">>},
           [shape : {"north_south", "ascending_west", "south_east", "south_west",
                     "north_west", "north_east"}]),
    Blocks({<<"command_block">>, <<"chain_command_block">>},
           [conditional : BOOLEAN, facing : Facing6]),
    Flags(Single({"grass_block", "mycelium", "podzol"}), "snowy"),
    Blocks({<<"beehive">>, <<"bee_nest">>}, [facing : Facing4, honey_level : {0, 5}]),
    Blocks({<<"campfire">>, <<"soul_campfire">>}, [facing : Facing4, lit : BOOLEAN, signal_fire : BOOLEAN]),
    Blocks({<<"chest">>, <<"trapped_chest">>},
           [facing : Facing4, type : {"single", "left", "right"}]),
    Blocks({<<"dispenser">>, <<"dropper">>}, [facing : Facing6, triggered : BOOLEAN]),
    Flags({<<"lantern">>, <<"soul_lantern">>}, "hanging"),
    Blocks({<<"piston">>, <<"sticky_piston">>}, [facing : Facing6, extended : BOOLEAN]),
    Blocks({<<"bamboo">>},
           [age : 0 .. 1, stage : 0 .. 1, leaves : {"none", "small", "large"}]),
    Blocks({<<"barrel">>}, [facing : Facing6, open : BOOLEAN]),
    Blocks({<<"bell">>},
           [attachment : {"floor", "ceiling", "single_wall", "double_wall"},
            facing : Facing4, powered : BOOLEAN]),
    Blocks({<<"big_dripleaf">>},
           [facing : Facing4, tilt : {"none", "unstable", "partial", "full"}]),
    Blocks({<<"brewing_stand">>},
           [has_bottle_0 : BOOLEAN, has_bottle_1 : BOOLEAN, has_bottle_2 : BOOLEAN]),
    Flags({<<"bubble_column">>}, "drag"),
    Numbers({<<"cake">>}, "bites", 0 .. 6),
    Blocks({<<"cave_vines">>}, [age : {0, 25}, berries : BOOLEAN]),
    Blocks({<<"cocoa">>}, [age : 0 .. 2, facing : Facing4]),
    Blocks({<<"comparator">>},
           [facing : Facing4, mode : {"compare", "subtract"}, powered : BOOLEAN]),
    Blocks({<<"daylight_detector">>}, [inverted : BOOLEAN, power : {0, 15}]),
    Blocks({<<"end_portal_frame">>}, [eye : BOOLEAN, facing : Facing4]),
    Numbers({<<"farmland">>}, "moisture", {0, 7}),
    Blocks({<<"fire">>}, [age : {0, 15}, north : {FALSE}, east : BOOLEAN, south : {FALSE},
                         west : {FALSE}, up : BOOLEAN]),
    Blocks({<<"grindstone">>}, [face : {"floor", "wall", "ceiling"}, facing : Facing4]),
    Blocks({<<"hopper">>}, [enabled : BOOLEAN, facing : Facing6 \ {"up"}]),
    Blocks({<<"jigsaw">>}, [orientation : {"down_east", "north_up"}]),
    Blocks({<<"lectern">>}, [facing : Facing4, has_book : BOOLEAN, powered : BOOLEAN]),
    Numbers({<<"light">>}, "level", {0, 15}),
    Blocks({<<"lightning_rod">>, <<"observer">>}, [facing : Facing6, powered : BOOLEAN]),
    Blocks({<<"mangrove_propagule">>}, [age : {0, 4}, hanging : BOOLEAN, stage : 0 .. 1]),
    Blocks({<<"note_block">>}, [instrument : {"harp"}, note : {3}, powered : BOOLEAN]),
    Blocks({<<"piston_head">>},
           [facing : Facing6, short : {FALSE}, type : {"normal", "sticky"}]),
    Blocks({<<"pointed_dripstone">>},
           [thickness : {"base", "frustum", "middle", "tip", "tip_merge"},
            vertical_direction : {"up", "down"}]),
    Blocks({<<"redstone_wire">>}, [power : {0, 15}, north : {"none"}, east : {"side", "up"},
                                  south : {"none"}, west : {"side"}]),
    Blocks({<<"repeater">>},
           [delay : 1 .. 4, facing : Facing4, locked : BOOLEAN, powered : BOOLEAN]),
    Numbers({<<"respawn_anchor">>}, "charges", 0 .. 4),
    Blocks({<<"scaffolding">>}, [bottom : BOOLEAN, distance : {0, 1, 6}]),
    Flags({<<"sculk_catalyst">>}, "bloom"),
    Blocks({<<"sculk_shrieker">>}, [can_summon : BOOLEAN, shrieking : BOOLEAN]),
    Blocks({<<"sea_pickle">>}, [pickles : 1 .. 4, waterlogged : BOOLEAN]),
    Blocks({<<"small_dripleaf">>}, [facing : Facing4, half : {"lower", "upper"}]),
    Numbers({<<"snow">>}, "layers", 1 .. 8),
    Blocks({<<"structure_block">>}, [mode : {"save", "load", "corner", "data"}]),
    Flags({<<"tnt">>}, "unstable"),
    Blocks({<<"tripwire">>}, [attached : BOOLEAN, disarmed : BOOLEAN, powered : BOOLEAN,
                              north : BOOLEAN, east : {FALSE}, south : {FALSE},
                              west : {FALSE}]),
    Blocks({<<"tripwire_hook">>}, [attached : BOOLEAN, facing : Facing4, powered : BOOLEAN]),
    Blocks({<<"turtle_egg">>}, [eggs : 1 .. 4, hatch : 0 .. 2]),
    Blocks({<<"vine">>}, [Facing4 \cup {"up"} -> BOOLEAN])>>
=============================================================================
