------------------------------ MODULE Lighting ------------------------------
(***************************************************************************)
(* toje::lighting::Lighting: the light of a chunk of a converted world.    *)
(* A chunk is lit in a window that reaches as far into its neighbours as   *)
(* light goes; of neighbours that are lit already only the border is taken *)
(* over; and light is spread only through the boxes it can come to.        *)
(* Brightest is 15, Width (of a chunk) 16 in the code; a world has the     *)
(* heights 0 .. Height - 1.                                                *)
(***************************************************************************)
EXTENDS Enums, TerraformTables, FiniteSetsExt

CONSTANTS Width, Height, Brightest

-----------------------------------------------------------------------------
(* Each face of a block has four quarters, each of which may be closed: a  *)
(* model is the set of the closed ones, written as the bits of a number.   *)

Bits(n) == {i \in 0..23 : (n \div 2^i) % 2 = 1}

ModelSolid == 0..23
ModelHalfBottom == Bits(\hf3333)
ModelHalfTop == Bits(\hf0cccc)
ModelBottom == Bits(\hf0000)

MaskFacing6 == [North |-> 0..3, South |-> 4..7, East |-> 8..11, West |-> 12..15,
                Down |-> 16..19, Up |-> 20..23]

\* The quarter of the next block that a quarter touches.
Invert(i) == IF (i \div 4) % 2 = 0 THEN i + 4 ELSE i - 4

CanLightPassthrough(face, model, target) ==
  \E i \in MaskFacing6[face] : i \notin model.closed /\ Invert(i) \notin target.closed

IsFaceOpened(face, model) == ~(MaskFacing6[face] \subseteq model.closed)

Model(closed, transparency) ==
  [closed |-> closed, transparency |-> transparency, airy |-> FALSE, emission |-> 0]

\* Air above it goes on in it when it is open on top.
Airy(closed) == [Model(closed, "TRANSLUCENT") EXCEPT !.airy = TRUE]

Clear == Model({}, "CLEAR")
Solid == Model(ModelSolid, "SOLID")

-----------------------------------------------------------------------------
(* GetLightingModel *)

\* The quarter of stairs, seen from above, that is full in every height.
Corner ==
  [bottom |-> [North |-> Bits(\h100408), East |-> Bits(\h400880),
               South |-> Bits(\h808040), West |-> Bits(\h204004)],
   top |-> [North |-> Bits(\h10102), East |-> Bits(\h40220),
            South |-> Bits(\h82010), West |-> Bits(\h21001)]]

Right == [North |-> "East", East |-> "South", South |-> "West", West |-> "North"]

StairsModel(b) ==
  LET f == Facing4FromJavaName(b.facing)
      left == Right[Right[Right[f]]]
      corner == Corner[b.half]
      half == IF b.half = "bottom" THEN ModelHalfBottom ELSE ModelHalfTop
  IN CASE b.shape = "outer_right" -> half \cup corner[f]
       [] b.shape = "outer_left" -> half \cup corner[left]
       [] b.shape = "inner_right" -> ModelSolid \ corner[Right[Right[f]]]
       [] b.shape = "inner_left" -> ModelSolid \ corner[Right[f]]
       [] OTHER -> half \cup corner[f] \cup corner[left]

Waterlogged(b) == "waterlogged" \in DOMAIN b /\ b.waterlogged

Slab(b) ==
  CASE b.type = "double" -> Solid
    [] b.type = "top" -> [Airy(ModelHalfTop) EXCEPT !.airy = ~Waterlogged(b)]
    [] OTHER -> [Airy(ModelHalfBottom) EXCEPT !.airy = ~Waterlogged(b)]

ExtendedPiston(facing) ==
  CASE facing = "Up" -> Model(ModelHalfBottom, "TRANSLUCENT")
    [] facing = "Down" -> Model(ModelHalfTop, "TRANSLUCENT")
    [] facing = "North" -> Model(Bits(\hccaaf0), "CLEAR")
    [] facing = "East" -> Model(Bits(\h9af055), "CLEAR")
    [] facing = "South" -> Model(Bits(\h33550f), "CLEAR")
    [] facing = "West" -> Model(Bits(\h550faa), "CLEAR")

PistonHead(facing) ==
  Model(MaskFacing6[facing], IF facing \in {"Up", "Down"} THEN "TRANSLUCENT" ELSE "CLEAR")

Snow(layers) ==
  CASE layers = 8 -> Solid
    [] layers \in 4..7 -> Airy(ModelHalfBottom)
    [] OTHER -> Airy(ModelBottom)

-----------------------------------------------------------------------------
(* The blocks without a model of their own: how much light they take, by   *)
(* the last word of their name.                                            *)

ClearKinds ==
  {"air", "cave_air", "void_air", "structure_void", "barrier", "light", "moving_piston",
   "button", "door", "trapdoor", "fence", "fence_gate", "pressure_plate", "sign",
   "wall_sign", "hanging_sign", "wall_hanging_sign", "banner", "wall_banner", "bed",
   "carpet", "wall", "glass", "stained_glass", "glass_pane", "stained_glass_pane",
   "iron_bars", "chain", "ladder", "scaffolding", "coral", "coral_fan",
   "coral_wall_fan", "sapling", "bamboo_sapling", "mangrove_propagule", "candle",
   "candle_cake", "cake", "skull", "head", "wall_skull", "wall_head", "rail",
   "activator_rail", "detector_rail", "powered_rail", "torch", "wall_torch", "lantern",
   "soul_campfire", "campfire", "soul_fire", "fire", "soul_lantern", "anvil", "cauldron", "lava_cauldron",
   "water_cauldron", "powder_snow_cauldron", "lever", "comparator", "repeater",
   "redstone_wire", "tripwire", "tripwire_hook", "daylight_detector", "hopper",
   "lightning_rod", "sculk_vein", "bell", "brewing_stand", "chest", "trapped_chest",
   "ender_chest", "composter", "conduit", "dragon_egg", "turtle_egg", "frogspawn",
   "enchanting_table", "end_portal", "end_rod", "nether_portal", "flower_pot",
   "grindstone", "amethyst_bud", "amethyst_cluster", "pointed_dripstone", "sea_pickle"}

ClearPlants ==
  {"allium", "azure_bluet", "blue_orchid", "cornflower", "dandelion", "lilac",
   "lily_of_the_valley", "lily_pad", "orange_tulip", "oxeye_daisy", "peony",
   "pink_tulip", "poppy", "red_tulip", "rose_bush", "sunflower", "white_tulip",
   "wither_rose", "spore_blossom", "azalea", "flowering_azalea", "moss_carpet",
   "hanging_roots", "big_dripleaf", "big_dripleaf_stem", "small_dripleaf", "glow_lichen",
   "dead_bush", "fern", "large_fern", "grass", "tall_grass", "sweet_berry_bush",
   "vine", "vines", "vines_plant", "cave_vines", "cave_vines_plant", "bamboo", "cactus",
   "sugar_cane", "beetroots", "carrots", "potatoes", "wheat", "cocoa", "nether_wart",
   "nether_sprouts", "crimson_roots", "warped_roots", "crimson_fungus",
   "warped_fungus", "brown_mushroom", "red_mushroom", "melon_stem", "pumpkin_stem",
   "attached_melon_stem", "attached_pumpkin_stem"}

DimKinds ==
  {"leaves", "beacon", "shulker_box", "chorus_flower", "chorus_plant", "cobweb",
   "end_gateway", "frosted_ice", "ice", "lava", "slime_block", "honey_block", "spawner",
   "powder_snow", "mangrove_roots", "bubble_column", "kelp", "kelp_plant", "water",
   "seagrass", "tall_seagrass"}

LightAttenuationAmount(b) ==
  CASE Kind(b) \in ClearKinds \cup ClearPlants \/ b.name[1] = "potted" ->
         IF Waterlogged(b) THEN 1 ELSE 0
    [] Kind(b) \in DimKinds -> 1
    [] OTHER -> 15

EmissionOfLit ==
  [furnace |-> 13, smoker |-> 13, blast_furnace |-> 13, campfire |-> 15,
   soul_campfire |-> 10, candle_cake |-> 3, redstone_lamp |-> 15, redstone_ore |-> 9]

LightEmissionById ==
  [brewing_stand |-> 1, brown_mushroom |-> 1, magma_block |-> 3, amethyst_cluster |-> 5,
   sculk_catalyst |-> 6, enchanting_table |-> 7, ender_chest |-> 7, glow_lichen |-> 7,
   crying_obsidian |-> 10, soul_lantern |-> 10, soul_fire |-> 10, nether_portal |-> 11,
   end_rod |-> 14, torch |-> 14, wall_torch |-> 14, beacon |-> 15, conduit |-> 15,
   end_gateway |-> 15, end_portal |-> 15, fire |-> 15, glowstone |-> 15,
   jack_o_lantern |-> 15, lantern |-> 15, lava |-> 15, lava_cauldron |-> 15,
   sea_lantern |-> 15, shroomlight |-> 15, froglight |-> 15]

LightEmission(b) ==
  LET k == Kind(b)
      when(flag, n) == IF flag THEN n ELSE 0
  IN CASE k \in {"cave_vines", "cave_vines_plant"} -> when(b.berries, 14)
       [] k \in {"torch", "wall_torch"} /\ b.name[1] = "redstone" -> when(b.lit, 7)
       [] k \in {"torch", "wall_torch"} /\ b.name[1] = "soul" -> 10
       [] k = "candle" -> when(b.lit, b.candles * 3)
       [] k \in DOMAIN EmissionOfLit -> when(b.lit, EmissionOfLit[k])
       [] k = "sea_pickle" -> when(Waterlogged(b), (b.pickles + 1) * 3)
       [] k = "light" -> b.level
       [] k = "respawn_anchor" -> when(b.charges > 0, b.charges * 4 - 1)
       [] k = "amethyst_bud" -> CASE b.name[1] = "small" -> 1
                                  [] b.name[1] = "medium" -> 2
                                  [] OTHER -> 4
       [] b.name[1] # "potted" /\ k \in DOMAIN LightEmissionById -> LightEmissionById[k]
       [] OTHER -> 0

Uniform(b) ==
  LET amount == LightAttenuationAmount(b)
      model == CASE amount = 0 -> Clear
                 [] amount = 1 -> Model({}, "TRANSLUCENT")
                 [] OTHER -> Solid
  IN [model EXCEPT !.emission = LightEmission(b)]

GetLightingModel(b) ==
  LET k == Kind(b)
  IN CASE k = "stairs" -> [Airy(StairsModel(b)) EXCEPT !.airy = ~Waterlogged(b)]
       [] k = "slab" -> Slab(b)
       [] k \in {"piston", "sticky_piston"} ->
            IF b.extended THEN ExtendedPiston(Facing6FromJavaName(b.facing)) ELSE Solid
       [] k = "piston_head" -> PistonHead(Facing6FromJavaName(b.facing))
       [] k = "snow" -> Snow(b.layers)
       [] k \in {"farmland", "dirt_path", "stonecutter", "end_portal_frame"} ->
            Airy(ModelHalfBottom)
       [] k = "lectern" -> Airy(ModelBottom)
       [] k = "sculk_shrieker" -> Model(ModelHalfBottom, "TRANSLUCENT")
       [] k = "sculk_sensor" -> [Airy(ModelHalfBottom) EXCEPT !.emission = 1]
       [] OTHER -> Uniform(b)

\* With less than the fifteen degrees of light the lowest are cut off.
Dimmed(m) == [m EXCEPT !.emission = Max({0, @ - (15 - Brightest)})]

-----------------------------------------------------------------------------
(* Volumes, with both corners *)

Contains(v, p) == \A i \in 1..3 : v[1][i] <= p[i] /\ p[i] <= v[2][i]

Intersection(v, w) ==
  <<[i \in 1..3 |-> Max({v[1][i], w[1][i]})], [i \in 1..3 |-> Min({v[2][i], w[2][i]})]>>

IsVolume(v) == \A i \in 1..3 : v[1][i] <= v[2][i]

\* The smallest volume around some.
Union(vs) == <<[i \in 1..3 |-> Min({v[1][i] : v \in vs})],
               [i \in 1..3 |-> Max({v[2][i] : v \in vs})]>>

Grown(v, r) == <<[i \in 1..3 |-> v[1][i] - r], [i \in 1..3 |-> v[2][i] + r]>>

Positions(v) == {<<x, y, z>> : x \in v[1][1]..v[2][1], y \in v[1][2]..v[2][2],
                               z \in v[1][3]..v[2][3]}

-----------------------------------------------------------------------------
(* The window of a chunk *)

ChunkVolume(c) == <<<<c[1] * Width, 0, c[2] * Width>>,
                    <<c[1] * Width + Width - 1, Height - 1, c[2] * Width + Width - 1>>>>

Window(c) ==
  LET v == ChunkVolume(c)
      r == Brightest - 1
  IN <<<<v[1][1] - r, 0, v[1][3] - r>>, <<v[2][1] + r, Height - 1, v[2][3] + r>>>>

Square(c) == {<<c[1] + dx, c[2] + dz>> : dx \in -1..1, dz \in -1..1}

Part(c, d) == Intersection(Window(c), ChunkVolume(d))

\* What a chunk that is lit leaves to its neighbours: its outermost blocks.
ChunkLightCache(c, light) ==
  [p \in {q \in Positions(ChunkVolume(c)) :
            \/ q[1] % Width \in {0, Width - 1}
            \/ q[3] % Width \in {0, Width - 1}} |-> light[p]]

\* The light and the models of the window: the borders of the cached chunks,
\* and the blocks, clear where there is no chunk.
CopyTo(c, cached) ==
  FoldFunction(LAMBDA border, light : [p \in DOMAIN light |->
                 IF p \in DOMAIN border THEN border[p] ELSE light[p]],
               [p \in Positions(Window(c)) |-> 0], cached)

Step == Pos3iFromFacing6

Next3(p, face) == [i \in 1..3 |-> p[i] + Step[face][i]]

Opposite6 == [North |-> "South", South |-> "North", East |-> "West", West |-> "East",
              Up |-> "Down", Down |-> "Up"]

-----------------------------------------------------------------------------
(* InitializeSkyLight *)

OpenToSky(m) ==
  m.transparency = "CLEAR" \/ (m.transparency = "TRANSLUCENT" /\ m.airy /\ IsFaceOpened("Up", m))

\* Where the light that falls straight down ends.
ColumnEnd(models, x, z) ==
  Max({y \in 0..Height - 1 :
         LET m == models[<<x, y, z>>]
         IN y = 0 \/ ~OpenToSky(m) \/ ~IsFaceOpened("Down", m)})

InFullLight(models, p) ==
  LET end == ColumnEnd(models, p[1], p[3])
  IN p[2] > end \/ (p[2] = end /\ OpenToSky(models[p]))

SkyLight(models, p) == IF InFullLight(models, p) THEN Brightest ELSE 0

\* Light falls in from the side only as high and as low as columns end.
SkyVolume(models, v) ==
  LET ends == {ColumnEnd(models, x, z) : x \in v[1][1]..v[2][1], z \in v[1][3]..v[2][3]}
  IN Grown(<<<<v[1][1], Min(ends), v[1][3]>>, <<v[2][1], Max(ends), v[2][3]>>>>,
           Brightest - 1)

-----------------------------------------------------------------------------
(* InitializeBlockLight *)

\* A block that shines, and the blocks next to it on faces they have open.
BlockLight(models, p) ==
  Max({models[p].emission}
        \cup {models[Next3(p, f)].emission - 1 :
                f \in {g \in DOMAIN Step : /\ Next3(p, g) \in DOMAIN models
                                          /\ models[Next3(p, g)].emission > 0
                                          /\ IsFaceOpened(g, models[p])}})

EmissionVolumes(models) ==
  {Grown(<<p, p>>, models[p].emission - 1) : p \in {q \in DOMAIN models : models[q].emission > 1}}

-----------------------------------------------------------------------------
(* DiffuseLight *)

\* Where each block of the window may get light from, within one of the limits.
Sources(models, limits) ==
  [p \in DOMAIN models |->
     LET near == {v \in limits : Contains(v, p)}
     IN {Next3(p, f) : f \in {g \in DOMAIN Step :
           /\ \E v \in near : Contains(v, Next3(p, g))
           /\ CanLightPassthrough(Opposite6[g], models[Next3(p, g)], models[p])}}]

RECURSIVE Diffuse(_, _)
Diffuse(sources, light) ==
  LET next == [p \in DOMAIN light |-> Max({light[p]} \cup {light[q] - 1 : q \in sources[p]})]
  IN IF next = light THEN light ELSE Diffuse(sources, next)

\* Mutant: light does not spread into the block beside a volume.
LimitsWithoutBorder(c, cached, volumes) ==
  {Intersection(Union(parts), Window(c)) :
     parts \in {{w \in {Intersection(v, Part(c, d)) : v \in volumes} : IsVolume(w)} :
                  d \in Square(c) \ DOMAIN cached} \ {{}}}

\* The volumes of the chunks of the square that the given ones reach, without
\* those that are lit already; each is spread with one block around it.
Limits(c, cached, volumes) ==
  {Intersection(Grown(Union(parts), 1), Window(c)) :
     parts \in {{w \in {Intersection(v, Part(c, d)) : v \in volumes} : IsVolume(w)} :
                  d \in Square(c) \ DOMAIN cached} \ {{}}}

Fresh(p, cached) == \A d \in DOMAIN cached : ~Contains(ChunkVolume(d), p)

\* The light of the window of a chunk before it spreads, and the ways it spreads;
\* cached has the borders of the chunks that are lit.
InitializeSkyLight(c, models, cached) ==
  LET borders == CopyTo(c, cached)
  IN [p \in DOMAIN models |-> IF Fresh(p, cached) THEN SkyLight(models, p) ELSE borders[p]]

SkyFlow(c, models, cached) ==
  Sources(models, Limits(c, cached, {SkyVolume(models, Part(c, d)) : d \in Square(c)}))

InitializeBlockLight(c, models, cached) ==
  LET borders == CopyTo(c, cached)
  IN [p \in DOMAIN models |-> Max({borders[p], BlockLight(models, p)})]

BlockFlow(c, models, cached) ==
  Sources(models, Limits(c, cached, EmissionVolumes(models)))
=============================================================================
