---------------------------- MODULE EntityTables ----------------------------
(***************************************************************************)
(* What both directions of the conversion of entities read: src/src/entity/ *)
(* and, of the tables of src/src/tobe-entity.cpp and src/src/toje-entity.cpp*)
(* the kinds that the same behaviour is listed for.                        *)
(*                                                                         *)
(* An entity is a record of the tags it has.  Left out are those that the  *)
(* comparison of test/j2b2j.hpp passes over for every kind, and of the     *)
(* definitions of Bedrock those that no one reads.  A being - who is       *)
(* trusted, hated, followed or obeyed - is a name: "player" is the local   *)
(* player.  Distances are in 160ths of a block, turns in eighths.          *)
(***************************************************************************)
EXTENDS ItemTables, Integers, SequencesExt

Block == 160

FloorOf(y) == (y \div Block) * Block

Nobody == "nobody"

(* The names that UUIDs have in the other edition are made from them, so   *)
(* that beings stay who they are: but an id that Java has to make an UUID  *)
(* from without asking for the local player's makes a stranger of him.     *)
GenWithI64Seed(being) == IF being = "player" THEN "stranger" ELSE being

EmptyItem == [Name |-> <<>>, Count |-> 0, Damage |-> 0]

-----------------------------------------------------------------------------
(* The kinds *)

Horses == {"horse", "donkey", "mule", "skeleton_horse", "zombie_horse"}

Vehicles ==
  {"chicken", "spider", "strider", "boat", "chest_boat", "minecart", "tnt_minecart"}

Chested == {"donkey", "mule", "llama"}

Steerables == {"donkey", "horse", "mule", "pig", "strider", "camel"}

Raiders == {"evoker", "pillager", "ravager", "witch"}

BucketFish == {"cod", "pufferfish", "salmon", "tropical_fish", "tadpole"}

WithInventory == {"piglin", "pillager", "villager", "wandering_trader", "allay"}

WithItems == {"chest_boat", "hopper_minecart", "chest_minecart"}

Minecarts == {"minecart", "hopper_minecart", "chest_minecart", "tnt_minecart"}

(* Kinds of one edition by their names in the other. *)
BedrockNames ==
  [evoker |-> "evocation_illager", tropical_fish |-> "tropicalfish",
   villager |-> "villager_v2", zombie_villager |-> "zombie_villager_v2",
   zombified_piglin |-> "zombie_pigman", trader_llama |-> "llama",
   experience_orb |-> "xp_orb", end_crystal |-> "ender_crystal"]

(* Those with the brown eyes of a trader's llama are told by a definition. *)
JavaNames == [k \in {"evoker", "tropical_fish", "villager", "zombie_villager",
                     "zombified_piglin", "end_crystal"} |-> BedrockNames[k]]

(* The kinds toje knows, by what is converted: nothing but a body in some  *)
(* place, an animal, a living being that is none.                          *)
OfBase ==
  Minecarts
    \cup {"painting", "item", "armor_stand", "end_crystal", "boat", "chest_boat", "arrow",
          "falling_block"}

OfAnimal ==
  {"chicken", "parrot", "bee", "cow", "fox", "pig", "horse", "sheep", "donkey", "cat",
   "llama", "trader_llama", "mooshroom", "mule", "panda", "rabbit", "skeleton_horse",
   "polar_bear", "strider", "turtle", "villager", "wolf", "zombie_horse", "goat",
   "axolotl", "hoglin", "frog", "camel"}

OfLiving ==
  {"skeleton", "stray", "creeper", "spider", "bat", "zombie", "slime", "salmon",
   "enderman", "zombified_piglin", "blaze", "elder_guardian", "cod", "zoglin", "husk",
   "cave_spider", "drowned", "endermite", "evoker", "guardian", "magma_cube", "phantom",
   "ghast", "pillager", "pufferfish", "ravager", "silverfish", "glow_squid", "squid",
   "tropical_fish", "vex", "wandering_trader", "zombie_villager", "snow_golem",
   "shulker", "wither_skeleton", "witch", "iron_golem", "wither", "piglin",
   "piglin_brute", "ender_dragon", "warden", "allay", "tadpole"}

-----------------------------------------------------------------------------
(* EntityAttributes: what a kind's health is at most *)

HealthClasses ==
  3 :> {"rabbit"}
    @@ 4 :> {"chicken", "snow_golem"}
    @@ 6 :> {"armor_stand", "bat", "cod", "parrot", "pufferfish", "salmon",
             "tropical_fish", "tadpole"}
    @@ 8 :> {"endermite", "sheep", "silverfish"}
    @@ 10 :> {"bee", "cat", "cow", "dolphin", "ghast", "mooshroom", "ocelot", "pig",
              "squid", "glow_squid", "goat", "frog"}
    @@ 12 :> {"cave_spider"}
    @@ 14 :> {"vex", "axolotl"}
    @@ 16 :> {"magma_cube", "piglin", "spider"}
    @@ 20 :> {"blaze", "creeper", "drowned", "fox", "husk", "panda", "phantom",
              "skeleton", "stray", "strider", "villager", "wandering_trader",
              "wither_skeleton", "zombie", "zombified_piglin", "zombie_villager",
              "allay"}
    @@ 24 :> {"evoker", "pillager", "vindicator"}
    @@ 26 :> {"witch"}
    @@ 27 :> {"llama", "trader_llama"}
    @@ 30 :> {"guardian", "polar_bear", "shulker", "turtle"}
    @@ 32 :> {"camel"}
    @@ 40 :> {"enderman", "hoglin", "zoglin"}
    @@ 50 :> {"piglin_brute"}
    @@ 80 :> {"elder_guardian"}
    @@ 100 :> {"iron_golem", "ravager"}
    @@ 200 :> {"ender_dragon"}
    @@ 500 :> {"warden"}

HasTableHealth(kind) == \E h \in DOMAIN HealthClasses : kind \in HealthClasses[h]

TableHealth(kind) == CHOOSE h \in DOMAIN HealthClasses : kind \in HealthClasses[h]

Least(a, b) == IF a < b THEN a ELSE b

(* The health e has, cut to what Bedrock allows, and full without one. *)
UpTo(max, e) == [current |-> Least(Field(e, "Health", max), max), max |-> max]

(* Bedrock's wither has more health, the harder the game is: in halves of   *)
(* a point the health of Java times this.                                  *)
WitherHealthFactor(difficultyBedrock) ==
  CASE difficultyBedrock = 3 -> 4 [] difficultyBedrock = 2 -> 3 [] OTHER -> 2

-----------------------------------------------------------------------------
(* Boats, cats, frogs, pandas *)

Boat ==
  [oak |-> 0, spruce |-> 1, birch |-> 2, jungle |-> 3, acacia |-> 4, dark_oak |-> 5,
   mangrove |-> 6, bamboo |-> 7]

Cat ==
  [tabby |-> 8, black |-> 1, red |-> 2, siamese |-> 3, british_shorthair |-> 4,
   calico |-> 5, persian |-> 6, ragdoll |-> 7, white |-> 0, jellie |-> 10,
   all_black |-> 9]

Frog == [temperate |-> 0, cold |-> 1, warm |-> 2]

PandaAllele ==
  [lazy |-> 0, worried |-> 1, playful |-> 2, aggressive |-> 3, weak |-> 4, brown |-> 8,
   normal |-> 10]

(* More than one allele makes a panda weak, or brown. *)
PandaGene(allele) ==
  CASE allele \in 0..3 -> Decode(PandaAllele, allele, "normal")
    [] allele \in 4..7 -> "weak"
    [] allele \in 8..9 -> "brown"
    [] OTHER -> "normal"

-----------------------------------------------------------------------------
(* Armor stands: of the thirteen poses of Bedrock the one that all limbs   *)
(* are within ten degrees of, if any.  That with all limbs straight has no *)
(* tag in Java.                                                            *)

Poses == 0..12

Straight == 1

BedrockMostSimilarPoseIndexFromJava(pose) == IF pose \in Poses THEN {pose} ELSE {}

JavaPoseFromBedrockPoseIndex(i) == IF i = Straight THEN {} ELSE {i}

-----------------------------------------------------------------------------
(* Paintings: Java has the place of a block, Bedrock that of the middle.   *)

PaintingSizes ==
  <<4, 4>> :> {"pigscene", "burning_skull", "pointer"}
    @@ <<4, 3>> :> {"skeleton", "donkey_kong"}
    @@ <<4, 2>> :> {"fighters"}
    @@ <<2, 2>> :> {"skull_and_roses", "match", "bust", "stage", "void", "wither",
                    "earth", "wind", "fire", "water"}
    @@ <<2, 1>> :> {"sunset", "courbet", "creebet", "sea", "pool"}
    @@ <<1, 2>> :> {"wanderer", "graham"}
    @@ <<1, 1>> :> {"aztec2", "alban", "bomb", "kebab", "wasteland", "aztec", "plant"}

Motives == UNION {PaintingSizes[s] : s \in DOMAIN PaintingSizes}

Motive(m) == IF m \in Motives THEN m ELSE "aztec"

PaintingSize(m) == CHOOSE s \in DOMAIN PaintingSizes : m \in PaintingSizes[s]

Thickness == Block \div 32

(* From the place of the tile, how far along the wall the middle is, where *)
(* the tiles are counted to the left of who looks that way, or against.    *)
Along(m) ==
  LET width == PaintingSize(m)[1]
  IN (width * Block) \div 2 - (IF width >= 4 THEN Block ELSE 0)

Up(m) ==
  LET height == PaintingSize(m)[2]
  IN (height * Block) \div 2 - (IF height >= 3 THEN Block ELSE 0)

BedrockPosFromJavaTilePos(tile, direction, m) ==
  LET x == tile[1] * Block
      z == tile[3] * Block
      y == tile[2] * Block + Up(m)
  IN CASE direction = "South" -> <<x + Along(m), y, z + Thickness>>
       [] direction = "West" -> <<x + Block - Thickness, y, z + Along(m)>>
       [] direction = "North" -> <<x + Block - Along(m), y, z + Block - Thickness>>
       [] OTHER -> <<x + Thickness, y, z + Block - Along(m)>>

Rounded(v) == (v + Block \div 2) \div Block

JavaTilePosFromBedrockPos(pos, direction, m) ==
  LET y == pos[2] - Up(m)
      tile == CASE direction = "West" -> <<pos[1] - Block + Thickness, y, pos[3] - Along(m)>>
                [] direction = "North" ->
                     <<pos[1] - Block + Along(m), y, pos[3] - Block + Thickness>>
                [] direction = "East" -> <<pos[1] + Thickness, y, pos[3] - Block + Along(m)>>
                [] OTHER -> <<pos[1] - Along(m), y, pos[3] - Thickness>>
  IN Each(Rounded, tile)

Eighth(yaw) == (yaw \div 45) % 8

-----------------------------------------------------------------------------
(* Frames hang from one of six sides: where it looks, in eighths and, up   *)
(* and down, quarters.                                                     *)
FrameRotation ==
  [Up |-> [yaw |-> 0, pitch |-> -90], North |-> [yaw |-> 4, pitch |-> 0],
   East |-> [yaw |-> 6, pitch |-> 0], South |-> [yaw |-> 0, pitch |-> 0],
   West |-> [yaw |-> 2, pitch |-> 0], Down |-> [yaw |-> 0, pitch |-> 90]]

(* Fifteen 32nds behind the middle of its block. *)
FramePos(at, facing) ==
  [i \in 1..3 |-> at[i] * Block + Block \div 2 - Pos3iFromFacing6[facing][i] * 75]
=============================================================================
