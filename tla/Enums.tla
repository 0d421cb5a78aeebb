------------------------------- MODULE Enums -------------------------------
(***************************************************************************)
(* The enumerations of src/src/enums/, through which every name and number *)
(* of one edition reaches the other.  A value of an enumeration is its     *)
(* C++ enumerator; a table is a function on the enumerators, and a reverse *)
(* lookup inverts the table, with the default its switch or its `find`     *)
(* falls back to.  None stands for std::nullopt.                           *)
(***************************************************************************)
EXTENDS Integers

None == "none"

(* The enumerator a table sends to v, or the default of the lookup. *)
Decode(table, v, default) ==
  IF \E e \in DOMAIN table : table[e] = v
  THEN CHOOSE e \in DOMAIN table : table[e] = v
  ELSE default

-----------------------------------------------------------------------------
(* Facing4 and Facing6 *)

JavaNameFromFacing4 ==
  [North |-> "north", East |-> "east", South |-> "south", West |-> "west"]

Facing4FromJavaName(n) == Decode(JavaNameFromFacing4, n, "South")

BedrockDirectionFromFacing4 == [North |-> 2, East |-> 3, South |-> 0, West |-> 1]

Facing4FromBedrockDirection(d) ==
  Decode(BedrockDirectionFromFacing4, d, "South")

YawFromFacing4 == [North |-> -180, East |-> -90, South |-> 0, West |-> 90]

Pos2iFromFacing4 ==
  [North |-> <<0, -1>>, East |-> <<1, 0>>, South |-> <<0, 1>>, West |-> <<-1, 0>>]

(* Only a vector along one axis has a facing. *)
Facing4FromPos2i(p) ==
  CASE (p[1] = 0) = (p[2] = 0) -> None
    [] p[1] > 0 -> "East"
    [] p[1] < 0 -> "West"
    [] p[2] > 0 -> "South"
    [] OTHER -> "North"

JavaNameFromFacing6 ==
  [North |-> "north", East |-> "east", South |-> "south", West |-> "west",
   Up |-> "up", Down |-> "down"]

Facing6FromJavaName(n) == Decode(JavaNameFromFacing6, n, "Down")

Pos3iFromFacing6 ==
  [East |-> <<1, 0, 0>>, South |-> <<0, 0, 1>>, West |-> <<-1, 0, 0>>,
   North |-> <<0, 0, -1>>, Up |-> <<0, 1, 0>>, Down |-> <<0, -1, 0>>]

(* The facing_direction of most blocks. *)
BedrockFacingDirectionAFromFacing6 ==
  [Down |-> 0, Up |-> 1, North |-> 2, South |-> 3, West |-> 4, East |-> 5]

Facing6FromBedrockFacingDirectionA(d) ==
  Decode(BedrockFacingDirectionAFromFacing6, d, "Down")

(* The facing_direction of pistons, and of nothing else. *)
BedrockFacingDirectionBFromFacing6 ==
  [Down |-> 0, Up |-> 1, South |-> 2, North |-> 3, East |-> 4, West |-> 5]

Facing6FromBedrockFacingDirectionB(d) ==
  Decode(BedrockFacingDirectionBFromFacing6, d, "Down")

Facing6Invert ==
  [Up |-> "Down", Down |-> "Up", North |-> "South", South |-> "North",
   East |-> "West", West |-> "East"]

-----------------------------------------------------------------------------
(* ColorCodeJava and BannerColorCodeBedrock *)

JavaNameFromColorCodeJava ==
  [White |-> "white", Orange |-> "orange", Magenta |-> "magenta",
   LightBlue |-> "light_blue", Yellow |-> "yellow", Lime |-> "lime",
   Pink |-> "pink", Gray |-> "gray", LightGray |-> "light_gray",
   Cyan |-> "cyan", Purple |-> "purple", Blue |-> "blue",
   Brown |-> "brown", Green |-> "green", Red |-> "red", Black |-> "black"]

ColorCodeJava ==
  [White |-> 0, Orange |-> 1, Magenta |-> 2, LightBlue |-> 3, Yellow |-> 4,
   Lime |-> 5, Pink |-> 6, Gray |-> 7, LightGray |-> 8, Cyan |-> 9,
   Purple |-> 10, Blue |-> 11, Brown |-> 12, Green |-> 13, Red |-> 14,
   Black |-> 15]

ColorCodeJavaFromJavaName(n) == Decode(JavaNameFromColorCodeJava, n, "White")

(* Bedrock calls light gray silver. *)
BedrockNameFromColorCodeJava ==
  [JavaNameFromColorCodeJava EXCEPT !.LightGray = "silver"]

ColorCodeJavaFromBedrockName(n) ==
  Decode(BedrockNameFromColorCodeJava, n, "White")

(* The enumerators are the same, their codes run the other way. *)
BannerColorCodeBedrock ==
  [White |-> 15, Orange |-> 14, Magenta |-> 13, LightBlue |-> 12,
   Yellow |-> 11, Lime |-> 10, Pink |-> 9, Gray |-> 8, LightGray |-> 7,
   Cyan |-> 6, Purple |-> 5, Blue |-> 4, Brown |-> 3, Green |-> 2,
   Red |-> 1, Black |-> 0]

BannerColorCodeFromName(n) ==
  BannerColorCodeBedrock[Decode(JavaNameFromColorCodeJava, n, "White")]

BannerColorCodeFromJava(c) ==
  BannerColorCodeBedrock[Decode(ColorCodeJava, c, "White")]

ColorCodeJavaFromBannerColorCodeBedrock(c) ==
  ColorCodeJava[Decode(BannerColorCodeBedrock, c, "White")]

-----------------------------------------------------------------------------
(* RedFlower, SkullType *)

BedrockNameFromRedFlower ==
  [BlueOrchid |-> "orchid", AzureBluet |-> "houstonia",
   RedTulip |-> "tulip_red", OrangeTulip |-> "tulip_orange",
   WhiteTulip |-> "tulip_white", PinkTulip |-> "tulip_pink",
   OxeyeDaisy |-> "oxeye", Poppy |-> "poppy", Allium |-> "allium",
   Cornflower |-> "cornflower", LilyOfTheValley |-> "lily_of_the_valley"]

JavaNameFromRedFlower ==
  [BlueOrchid |-> "blue_orchid", AzureBluet |-> "azure_bluet",
   RedTulip |-> "red_tulip", OrangeTulip |-> "orange_tulip",
   WhiteTulip |-> "white_tulip", PinkTulip |-> "pink_tulip",
   OxeyeDaisy |-> "oxeye_daisy", Poppy |-> "poppy", Allium |-> "allium",
   Cornflower |-> "cornflower", LilyOfTheValley |-> "lily_of_the_valley"]

RedFlowerFromBedrockName(n) == Decode(BedrockNameFromRedFlower, n, None)

RedFlowerFromJavaName(n) == Decode(JavaNameFromRedFlower, n, None)

JavaNameFromSkullType ==
  [Player |-> "player_head", Zombie |-> "zombie_head",
   Creeper |-> "creeper_head", Dragon |-> "dragon_head",
   Skeleton |-> "skeleton_skull", WitherSkeleton |-> "wither_skeleton_skull",
   Piglin |-> "piglin_head"]

SkullType ==
  [Skeleton |-> 0, WitherSkeleton |-> 1, Zombie |-> 2, Player |-> 3,
   Creeper |-> 4, Dragon |-> 5, Piglin |-> 6]

SkullTypeFromJavaName(n) == Decode(JavaNameFromSkullType, n, None)

-----------------------------------------------------------------------------
(* GameMode, VillagerType, VillagerProfession *)

JavaFromGameMode ==
  [Survival |-> 0, Creative |-> 1, Adventure |-> 2, Spectator |-> 3]

BedrockFromGameMode == [JavaFromGameMode EXCEPT !.Spectator = 6]

GameModeFromJava(v) == Decode(JavaFromGameMode, v, None)

(* 5, "same as the world", is no mode. *)
GameModeFromBedrock(v) == Decode(BedrockFromGameMode, v, None)

VillagerTypeVariant ==
  [plains |-> 0, desert |-> 1, jungle |-> 2, savanna |-> 3, snow |-> 4,
   swamp |-> 5, taiga |-> 6]

VillagerTypeFromJavaType(t) == IF t \in DOMAIN VillagerTypeVariant THEN t ELSE None

VillagerProfessionVariant ==
  [farmer |-> 1, fisherman |-> 2, shepherd |-> 3, fletcher |-> 4,
   librarian |-> 5, cartographer |-> 6, cleric |-> 7, armorer |-> 8,
   weaponsmith |-> 9, toolsmith |-> 10, butcher |-> 11, leatherworker |-> 12,
   mason |-> 13, nitwit |-> 14]

VillagerProfessionFromJavaProfession(p) ==
  IF p \in DOMAIN VillagerProfessionVariant THEN p ELSE None

(* Every profession but the nitwit has a table of trades. *)
TradeTable(p) == IF p = "nitwit" THEN None ELSE p
=============================================================================
