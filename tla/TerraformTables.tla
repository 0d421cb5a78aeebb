-------------------------- MODULE TerraformTables --------------------------
(***************************************************************************)
(* The tables of names behind the passes over a chunk: which Java blocks a *)
(* fence, a pane and a wall reach out to, which blocks make a wall tall,   *)
(* which stop redstone dust, and what a note block plays.  A name is the   *)
(* sequence of its words, as in BlockToBedrock; a table lists the last     *)
(* words all of whose names it holds, and the other names one by one.      *)
(***************************************************************************)
EXTENDS Naturals, Sequences

Kind(b) == b.name[Len(b.name)]

Colors == {"white", "orange", "magenta", "light_blue", "yellow", "lime", "pink", "gray",
           "light_gray", "cyan", "purple", "blue", "brown", "green", "red", "black"}

Panes == {"stained_glass_pane", "glass_pane", "iron_bars"}

-----------------------------------------------------------------------------
(* The full blocks: what all four tables of connections share.             *)

FullKinds ==
  {"planks", "log", "wood", "stem", "hyphae", "bamboo_block", "nylium", "froglight",
   "concrete", "concrete_powder", "glazed_terracotta", "stained_glass", "terracotta",
   "wool", "coral_block", "sandstone", "red_sandstone", "stone_bricks", "stone",
   "granite", "diorite", "andesite", "deepslate", "cobblestone", "basalt",
   "quartz_block", "nether_bricks", "copper", "cut_copper", "redstone_ore",
   "prismarine", "bricks"}

FullNames ==
  {"amethyst_block", "ancient_debris", "bamboo_mosaic", "barrel", "beacon", "bedrock",
   "bee_nest", "beehive", "blackstone", "blast_furnace", "blue_ice", "bone_block",
   "bookshelf", "brown_mushroom_block", "budding_amethyst", "calcite",
   "cartography_table", "chain_command_block", "chiseled_bookshelf",
   "chiseled_deepslate", "chiseled_polished_blackstone", "clay", "coal_block",
   "cobbled_deepslate",
   "coal_ore", "coarse_dirt", "command_block", "composter", "copper_block",
   "copper_ore", "cracked_deepslate_bricks", "cracked_deepslate_tiles",
   "cracked_polished_blackstone_bricks", "crafting_table", "crying_obsidian",
   "dark_prismarine", "deepslate_bricks", "deepslate_coal_ore", "deepslate_copper_ore",
   "deepslate_diamond_ore", "deepslate_emerald_ore", "deepslate_gold_ore",
   "deepslate_iron_ore", "deepslate_lapis_ore", "deepslate_tiles", "diamond_block",
   "diamond_ore", "dirt", "dispenser", "dried_kelp_block", "dripstone_block",
   "dropper", "emerald_block", "emerald_ore", "end_stone", "end_stone_bricks",
   "fletching_table", "frosted_ice", "furnace", "gilded_blackstone", "glass",
   "glowstone", "gold_block", "gold_ore", "grass_block", "gravel", "hay_block",
   "honeycomb_block", "ice", "iron_block", "iron_ore", "jigsaw", "jukebox",
   "lapis_block", "lapis_ore", "lodestone", "loom", "magma_block", "mangrove_roots",
   "moss_block", "mud", "mud_bricks", "muddy_mangrove_roots", "mushroom_stem",
   "mycelium", "nether_gold_ore", "nether_quartz_ore", "nether_wart_block",
   "netherite_block", "netherrack", "note_block", "observer", "obsidian",
   "packed_ice", "packed_mud", "podzol", "polished_blackstone",
   "polished_blackstone_bricks", "purpur_block", "purpur_pillar", "quartz_bricks",
   "quartz_pillar", "raw_copper_block", "raw_gold_block", "raw_iron_block",
   "red_mushroom_block", "red_nether_bricks", "red_sand", "redstone_block",
   "redstone_lamp", "repeating_command_block", "respawn_anchor", "rooted_dirt",
   "sand", "sea_lantern", "shroomlight", "slime_block", "smithing_table", "smoker",
   "smooth_quartz", "smooth_stone", "snow_block", "soul_sand", "soul_soil", "spawner",
   "sponge", "structure_block", "target", "tinted_glass", "tnt", "tuff",
   "warped_wart_block", "waxed_copper_block", "wet_sponge"}

IsFull(b) == Kind(b) \in FullKinds \cup FullNames

(* Full for fences and panes, not for walls. *)
FullButForWalls == {"chorus_flower", "reinforced_deepslate", "sculk", "sculk_catalyst"}

IsFenceAlwaysConnectable(b) ==
  \/ IsFull(b)
  \/ Kind(b) \in FullButForWalls \cup {"piston_head"}
  \/ Kind(b) = "fence" /\ b.name # <<"nether_brick", "fence">>

IsGlassPaneOrIronBarsAlwaysConnectable(b) ==
  IsFull(b) \/ Kind(b) \in FullButForWalls \cup Panes \cup {"wall"}

IsWallAlwaysConnectable(b) == IsFull(b) \/ Kind(b) \in Panes \cup {"wall"}

IsBlockAlwaysMakeWallTallShape(b) ==
  \/ IsFull(b)
  \/ Kind(b) \in
       {"leaves", "shulker_box", "campfire", "soul_campfire", "pumpkin",
        "carved_pumpkin", "jack_o_lantern", "melon", "barrier", "daylight_detector",
        "dirt_path", "enchanting_table", "end_portal_frame", "farmland", "lectern",
        "sculk_sensor", "stonecutter"}

-----------------------------------------------------------------------------
(* Redstone dust runs down past what mcfile counts as transparent; the     *)
(* lists correct it.  The blocks of the runs that mcfile counts.           *)

IsTransparent(b) ==
  \/ Kind(b) \in {"air", "glass", "stained_glass", "leaves", "fence", "wall", "torch",
                  "redstone_wire", "repeater", "stairs", "snow", "carpet"} \cup Panes

StopsDust ==
  {"barrier", "blast_furnace", "shulker_box", "conduit", "dropper", "furnace",
   "jack_o_lantern", "lava", "redstone_lamp", "slime_block", "smoker", "soul_sand",
   "spawner", "water"}

IsAlwaysTransparentAgainstRedstoneWire(b) ==
  CASE Kind(b) \in {"glowstone", "observer", "powder_snow", "redstone_block"} -> TRUE
    [] Kind(b) \in StopsDust \/ b.name = <<"brown", "concrete">> -> FALSE
    [] OTHER -> IsTransparent(b)

-----------------------------------------------------------------------------
(* Instruments *)

StoneKinds ==
  {"concrete", "glazed_terracotta", "terracotta", "coral_block", "sandstone",
   "red_sandstone", "stone_bricks", "stone", "granite", "diorite", "andesite",
   "deepslate", "cobblestone", "basalt", "quartz_block", "nether_bricks", "nylium",
   "redstone_ore", "prismarine", "bricks", "wall"}

StoneNames ==
  {"bedrock", "blackstone", "blast_furnace", "calcite", "chiseled_deepslate",
   "chiseled_polished_blackstone", "coal_block", "coal_ore", "cobbled_deepslate",
   "copper_ore",
   "cracked_deepslate_bricks", "cracked_deepslate_tiles",
   "cracked_polished_blackstone_bricks", "crying_obsidian", "dark_prismarine",
   "deepslate_bricks", "deepslate_coal_ore", "deepslate_copper_ore",
   "deepslate_diamond_ore", "deepslate_emerald_ore", "deepslate_gold_ore",
   "deepslate_iron_ore", "deepslate_lapis_ore", "deepslate_tiles", "diamond_ore",
   "dispenser", "dripstone_block", "dropper", "emerald_ore", "enchanting_table",
   "end_portal_frame", "end_stone", "end_stone_bricks", "ender_chest", "furnace",
   "gilded_blackstone", "gold_ore", "iron_ore", "lapis_ore", "magma_block",
   "mud_bricks", "nether_gold_ore", "nether_quartz_ore", "netherrack", "observer",
   "obsidian", "pointed_dripstone", "polished_blackstone",
   "polished_blackstone_bricks", "purpur_block", "purpur_pillar", "quartz_bricks",
   "quartz_pillar", "raw_copper_block", "raw_gold_block", "raw_iron_block",
   "red_nether_bricks", "reinforced_deepslate", "respawn_anchor", "smoker",
   "smooth_quartz", "smooth_stone", "spawner", "stonecutter", "tuff"}

Woods == {"oak", "spruce", "birch", "jungle", "acacia", "dark_oak", "mangrove",
          "bamboo", "crimson", "warped"}

(* Slabs, stairs and the like are of wood, of stone, or of copper.         *)
IsOfWood(b) == b.name[1] \in Woods \cup {"bamboo_mosaic"}

IsOfCopper(b) == "cut_copper" \in {b.name[i] : i \in DOMAIN b.name}

(* The infested stones and one coral are in no list.                       *)
PlaysBasedrum(b) ==
  /\ b.name[1] # "infested" /\ b.name # <<"tube", "coral_block">>
  /\ \/ Kind(b) \in StoneKinds \cup StoneNames
     \/ Kind(b) \in {"slab", "stairs"} /\ ~IsOfWood(b) /\ ~IsOfCopper(b)
     \/ b.name[1] = "dead" /\ Kind(b) \in {"coral", "coral_fan", "coral_wall_fan"}
     \/ b.name \in {<<"nether_brick", "fence">>, <<"stone", "pressure_plate">>,
                    <<"polished_blackstone", "pressure_plate">>}

WoodenKinds ==
  {"planks", "log", "wood", "stem", "hyphae", "bamboo_block", "fence_gate", "sign",
   "wall_sign", "hanging_sign", "wall_hanging_sign", "banner", "wall_banner"}

WoodenNames ==
  {"bamboo_mosaic", "barrel", "bee_nest", "beehive", "bookshelf",
   "brown_mushroom_block", "campfire", "cartography_table", "chest",
   "chiseled_bookshelf", "composter", "crafting_table", "daylight_detector",
   "fletching_table", "jukebox", "lectern", "loom", "mangrove_roots",
   "mushroom_stem", "note_block", "red_mushroom_block", "smithing_table",
   "soul_campfire", "trapped_chest"}

(* The list forgets one sign, which it has under the snare.                *)
PlaysBass(b) ==
  /\ b.name # <<"birch", "wall_hanging_sign">>
  /\ \/ Kind(b) \in WoodenKinds \cup WoodenNames
     \/ /\ Kind(b) \in {"door", "trapdoor", "fence", "pressure_plate", "slab", "stairs"}
        /\ IsOfWood(b)

PlaysHat(b) ==
  Kind(b) \in {"stained_glass", "stained_glass_pane", "glass", "glass_pane",
               "tinted_glass", "beacon", "conduit", "sea_lantern"}

PlaysSnare(b) ==
  \/ Kind(b) \in {"concrete_powder", "gravel", "sand", "red_sand"}
  \/ b.name = <<"birch", "wall_hanging_sign">>

NoteBlockInstrumentAutogenCode(b) ==
  LET k == Kind(b) IN
  CASE k = "hay_block" -> "banjo"
    [] PlaysBasedrum(b) -> "basedrum"
    [] PlaysBass(b) -> "bass"
    [] k = "gold_block" -> "bell"
    [] k = "emerald_block" -> "bit"
    [] k = "packed_ice" -> "chime"
    [] k = "soul_sand" -> "cow_bell"
    [] k = "pumpkin" -> "didgeridoo"
    [] k = "clay" -> "flute"
    [] k = "wool" -> "guitar"
    [] PlaysHat(b) -> "hat"
    [] k = "iron_block" -> "iron_xylophone"
    [] k = "glowstone" -> "pling"
    [] PlaysSnare(b) -> "snare"
    [] k = "bone_block" -> "xylophone"
    [] OTHER -> "harp"

NoteBlockInstrument(b) ==
  IF Kind(b) \in {"cave_vines_plant", "chorus_flower", "chorus_plant", "soul_fire",
                  "sugar_cane"}
  THEN "harp" ELSE NoteBlockInstrumentAutogenCode(b)
=============================================================================
