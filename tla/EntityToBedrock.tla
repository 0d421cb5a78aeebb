--------------------------- MODULE EntityToBedrock ---------------------------
(***************************************************************************)
(* tobe::Entity (src/src/tobe-entity.cpp): the Bedrock entity of a Java    *)
(* entity.  Every entity has its UUID, so that none is dropped for want of *)
(* one; the fields and definitions of Bedrock that the way back does not   *)
(* read are left out.                                                      *)
(***************************************************************************)
EXTENDS EntityTables

CONSTANTS
  ItemFrom,      \* Item::From, of the items that the entity has
  BlockFrom,     \* BlockData::From, of the block it carries or is
  GameTick,      \* Context::fGameTick
  Difficulty     \* Context::fDifficultyBedrock

-----------------------------------------------------------------------------
(* Utilities *)

Copied(e, tags) == [t \in tags \cap DOMAIN e |-> e[t]]

When(condition, fields) == IF condition THEN fields ELSE <<>>

(* Java's empty slots are compounds without an id. *)
ItemOf(i) == IF i = <<>> THEN Null ELSE ItemFrom[i]

ItemOrEmpty(i) == LET b == ItemOf(i) IN IF b = Null THEN EmptyItem ELSE b

InSlot(slot, item) == [Slot |-> slot] @@ item

At(list, i) == IF i \in DOMAIN list THEN list[i] ELSE <<>>

GetArmor(e) ==
  [i \in 1..4 |-> ItemOrEmpty(At(Field(e, "ArmorItems", <<>>), 5 - i))]

HandItem(e, index) == ItemOrEmpty(At(Field(e, "HandItems", <<>>), index))

GetOwner(e) == Field(e, "Owner", Nobody)

IsOwned(e) == GetOwner(e) # Nobody

CustomName(e) ==
  LET name == Field(e, "CustomName", Null)
  IN When(name # Null /\ name.json = "object" /\ Has(name, "text"),
          [CustomName |-> name.text])

-----------------------------------------------------------------------------
(* Converters *)

BaseProperties(e) ==
  CustomName(e)
    @@ [identifier |-> e.id, Pos |-> e.Pos, Rotation |-> e.Rotation,
        FallDistance |-> Field(e, "FallDistance", 0),
        Invulnerable |-> Field(e, "Invulnerable", FALSE),
        OnGround |-> Field(e, "OnGround", TRUE),
        PortalCooldown |-> Field(e, "PortalCooldown", 0),
        OwnerNew |-> Nobody, Variant |-> 0, MarkVariant |-> 0, Color |-> 0,
        Color2 |-> 0, Strength |-> 0, Chested |-> FALSE, IsBaby |-> FALSE,
        IsTamed |-> FALSE, IsIllagerCaptain |-> FALSE, Sheared |-> FALSE,
        Sitting |-> FALSE, ShowBottom |-> FALSE]

LivingEntity(e) ==
  [Armor |-> GetArmor(e), Mainhand |-> HandItem(e, 1), Offhand |-> HandItem(e, 2),
   Air |-> Field(e, "Air", 300), canPickupItems |-> Field(e, "CanPickUpLoot", FALSE),
   DeathTime |-> Field(e, "DeathTime", 0), HurtTime |-> Field(e, "HurtTime", 0),
   InLove |-> FALSE, NaturalSpawn |-> FALSE, LeasherID |-> Nobody,
   TargetID |-> Nobody, TradeExperience |-> 0, TradeTier |-> 0, AttackTime |-> 0]
    @@ BaseProperties(e)

Animals ==
  {"bee", "cat", "chicken", "cow", "dolphin", "donkey", "fox", "hoglin", "horse",
   "llama", "mooshroom", "mule", "ocelot", "panda", "parrot", "pig", "polar_bear",
   "rabbit", "sheep", "skeleton_horse", "squid", "strider", "trader_llama", "turtle",
   "villager", "wandering_trader", "wolf", "zombie_villager", "glow_squid", "axolotl",
   "goat", "frog", "allay", "tadpole", "camel"}

Monsters ==
  {"blaze", "cave_spider", "creeper", "drowned", "elder_guardian", "enderman",
   "endermite", "evoker", "ghast", "guardian", "husk", "magma_cube", "phantom",
   "piglin", "piglin_brute", "pillager", "ravager", "shulker", "silverfish",
   "skeleton", "slime", "spider", "stray", "vex", "vindicator", "witch",
   "wither_skeleton", "zoglin", "zombie", "zombie_horse", "zombified_piglin",
   "warden", "ender_dragon"}

AnyMob ==
  Animals \cup Monsters
    \cup {"bat", "cod", "pufferfish", "salmon", "tropical_fish", "snow_golem",
          "iron_golem", "wither"}

LivingEntities == AnyMob \cup {"armor_stand", "experience_orb"}

(* A horse has its own speed, strength and health. *)
AnyHorseFromJava(e) ==
  LET own == Field(e, "Attributes", <<>>)
  IN [health |-> UpTo(Field(own, "max_health", 15), e),
      movement |-> Field(own, "movement_speed", 1125),
      jump_strength |-> Field(own, "jump_strength", 4000)]

Byte(v) == ((v + 128) % 256) - 128

BedrockSize(e) == Field(e, "Size", 0) + 1

SlimeHealth(e) == IF BedrockSize(e) > 1 THEN BedrockSize(e) ^ 2 ELSE 1

(* In halves of a point, as the easiest wither has as much as Java's.      *)
WitherHealth(e) ==
  LET factor == WitherHealthFactor(Difficulty)
      max == 300 * factor
  IN [current |-> Least(Field(e, "Health", 300) * factor, max), max |-> max]

Attributes(e) ==
  CASE e.id \in Horses -> [Attributes |-> AnyHorseFromJava(e)]
    [] e.id \in {"slime", "magma_cube"} ->
         [Attributes |-> [health |-> UpTo(SlimeHealth(e), e)]]
    [] e.id = "wolf" ->
         [Attributes |-> [health |-> UpTo(IF IsOwned(e) THEN 20 ELSE 8, e)]]
    [] e.id = "wither" -> [Attributes |-> [health |-> WitherHealth(e)]]
    [] e.id \in (AnyMob \cup {"armor_stand"}) \ {"wither", "wolf"} /\ HasTableHealth(e.id) ->
         [Attributes |-> [health |-> UpTo(TableHealth(e.id), e)]]
    [] OTHER -> <<>>

(* The leash of an animal, tied to a fence - then it gets a knot of its    *)
(* own - or held by someone.                                               *)
Leash(e) ==
  LET leash == Field(e, "Leash", <<>>)
  IN CASE e.id \notin Animals \/ leash = <<>> -> <<>>
       [] Has(leash, "at") -> [LeasherID |-> "knot"]
       [] OTHER -> [LeasherID |-> leash.by]

Knot(e) ==
  IF e.id \in Animals /\ Has(Field(e, "Leash", <<>>), "at") THEN {e.Leash.at} ELSE {}

-----------------------------------------------------------------------------
(* Behaviours of several kinds *)

AgeableA ==
  {"bee", "cat", "chicken", "cow", "hoglin", "horse", "husk", "llama", "mooshroom",
   "panda", "pig", "sheep", "strider", "trader_llama", "axolotl", "goat", "camel"}

AgeableC == {"rabbit"}

(* AgeableB and AgeableD, which differ in a definition. *)
AgeableByFlag == {"piglin", "zombie", "zombified_piglin", "drowned"}

MaxBabyAge == 24000

Ageing(e) ==
  LET young == Field(e, "Age", 0) < 0
      age == When(young, [Age |-> Field(e, "Age", 0)])
  IN CASE e.id \in AgeableA \cup AgeableC -> [IsBaby |-> young] @@ age
       [] e.id \in AgeableByFlag -> [IsBaby |-> Field(e, "IsBaby", FALSE)]
       [] e.id \in {"villager", "zombie_villager"} -> age
       [] e.id = "tadpole" -> When(Has(e, "Age"), [Age |-> e.Age - MaxBabyAge])
       [] OTHER -> <<>>

(* TameableA and TameableB *)
Tameable == {"cat", "parrot", "wolf", "donkey", "horse", "llama", "mule"}

Taming(e) ==
  When(e.id \in Tameable /\ IsOwned(e), [OwnerNew |-> GetOwner(e), IsTamed |-> TRUE])

CollarColorable(e) ==
  When(e.id \in {"cat", "wolf"} /\ IsOwned(e) /\ Has(e, "CollarColor"),
       [Color |-> e.CollarColor])

Sittable(e) == When(e.id \in {"cat", "parrot", "wolf"}, Copied(e, {"Sitting"}))

Temper(e) == When(e.id \in {"donkey", "horse", "mule"}, Copied(e, {"Temper"}))

AttackTime(e) == When(e.id = "ravager", [AttackTime |-> Field(e, "AttackTick", 0)])

PersistentFromFromBucket(e) ==
  When(e.id \in BucketFish, [NaturalSpawn |-> ~Field(e, "FromBucket", FALSE)])

(* An item of an inventory without a Bedrock form leaves its slot empty,   *)
(* an item of a chest is dropped.                                          *)
ChestItemsFromInventory(e) ==
  LET items == Field(e, "Inventory", <<>>)
  IN [i \in DOMAIN items |-> InSlot(i - 1, ItemOrEmpty(items[i]))]

ChestItemsFromItems(e) ==
  LET there == SelectSeq(Field(e, "Items", <<>>),
                         LAMBDA i : Has(i, "Slot") /\ ItemOf(i) # Null)
  IN Each(LAMBDA i : InSlot(i.Slot, ItemFrom[i]), there)

Saddled(e) ==
  When(e.id \in Steerables /\ Has(e, "SaddleItem"),
       0 :> [Name |-> <<"saddle">>, Damage |-> 0, Count |-> 1])

HorseArmor(e) ==
  When(e.id = "horse" /\ ItemOf(Field(e, "ArmorItem", <<>>)) # Null,
       1 :> [ItemOf(Field(e, "ArmorItem", <<>>)) EXCEPT !.Count = 1])

(* Java numbers the slots of a chest on a beast from 2. *)
ChestedHorse(e) ==
  LET chested == e.id \in Chested /\ Field(e, "ChestedHorse", FALSE)
      items == IF chested THEN Field(e, "Items", <<>>) ELSE <<>>
      kept == {i \in DOMAIN items : /\ Has(items[i], "Slot") /\ items[i].Slot - 1 \in 0..15
                                    /\ ItemOf(items[i]) # Null}
  IN [slot \in {items[i].Slot - 1 : i \in kept} |->
        ItemFrom[items[Max({i \in kept : items[i].Slot - 1 = slot})]]]

IsCarpet(i) == i # <<>> /\ Last(i.id) = "carpet"

LlamaCarpet(i) ==
  LET color == BedrockNameFromColorCodeJava[ColorCodeJavaFromJavaName(i.id[1])]
  IN [Name |-> <<"carpet">>, Damage |-> 0, Count |-> 1,
      Block |-> [name |-> <<"carpet">>, color |-> color]]

Llama == {"llama", "trader_llama"}

HasCarpet(e) == e.id \in Llama /\ IsCarpet(Field(e, "DecorItem", <<>>))

LlamaDecor(e) == When(HasCarpet(e), 0 :> LlamaCarpet(Field(e, "DecorItem", <<>>)))

(* AddChestItem makes the list of sixteen slots for the first item.        *)
AddChestItems(added) ==
  When(DOMAIN added # {},
       [ChestItems |-> [i \in 1..16 |->
          InSlot(i - 1, IF i - 1 \in DOMAIN added THEN added[i - 1] ELSE EmptyItem)]])

ChestItems(e) ==
  CASE e.id \in WithInventory -> [ChestItems |-> ChestItemsFromInventory(e)]
    [] e.id \in WithItems -> [ChestItems |-> ChestItemsFromItems(e)]
    [] OTHER -> AddChestItems(HorseArmor(e) @@ Saddled(e) @@ LlamaDecor(e) @@ ChestedHorse(e))

-----------------------------------------------------------------------------
(* Trades *)

Amount(i) == Field(i, "Count", 0)

IsSold(i) == i # <<>> /\ Amount(i) > 0 /\ ItemOf(i) # Null

IsRecipe(r) == IsSold(Field(r, "buy", <<>>)) /\ IsSold(Field(r, "sell", <<>>))

BedrockRecipieFromJava(r) ==
  LET second == Field(r, "buyB", <<>>)
      bought == IsSold(second) /\ second.id # <<"air">>
  IN [buyA |-> ItemFrom[r.buy], buyCountA |-> r.buy.Count, sell |-> ItemFrom[r.sell],
      buyCountB |-> IF bought THEN second.Count ELSE 0]
       @@ When(bought, [buyB |-> ItemFrom[second]])
       @@ Renamed(r, [demand |-> "demand", maxUses |-> "maxUses", uses |-> "uses",
                      traderExp |-> "xp", rewardExp |-> "rewardExp",
                      priceMultiplierA |-> "priceMultiplier"])

Offers(e) ==
  LET recipes == Each(BedrockRecipieFromJava, SelectSeq(Field(e, "Offers", <<>>), IsRecipe))
  IN CASE recipes = <<>> -> <<>>
       [] e.id \in {"villager", "wandering_trader"} -> [Offers |-> recipes]
       [] e.id = "zombie_villager" -> [persistingOffers |-> recipes]
       [] OTHER -> <<>>

-----------------------------------------------------------------------------
(* Dedicated behaviours: the fields, then the definitions *)

Hulls == {"boat", "chest_boat"}

BoatPos(e) ==
  IF Field(e, "OnGround", FALSE) THEN [e.Pos EXCEPT ![2] = FloorOf(@) + 60] ELSE e.Pos

MinecartPos(e) ==
  LET dy == e.Pos[2] - FloorOf(e.Pos[2])
  IN CASE ~Has(e, "OnGround") -> e.Pos
       [] Has(e, "OnGround") /\ e.OnGround -> [e.Pos EXCEPT ![2] = FloorOf(@) + 56]
       [] Has(e, "OnGround") /\ ~e.OnGround /\ 10 <= dy /\ dy < 20 ->
            [e.Pos EXCEPT ![2] = FloorOf(@) + 80]
       [] OTHER -> e.Pos

RoundedToHalf(y) == ((y + 40) \div 80) * 80

(* The pose of straight limbs is only taken over with arms to see. *)
ArmorStandPose(e) ==
  LET poses == IF Has(e, "Pose") THEN BedrockMostSimilarPoseIndexFromJava(e.Pose) ELSE {}
      seen == {i \in poses : i # Straight \/ Field(e, "ShowArms", FALSE)}
  IN When(seen # {}, [Pose |-> CHOOSE i \in seen : TRUE])

TradeTier(xp) ==
  Cardinality({limit \in {10, 70, 150, 250} : xp >= limit})

Profession(e) ==
  VillagerProfessionFromJavaProfession(Field(Field(e, "VillagerData", <<>>), "profession", None))

VillagerType(e) ==
  VillagerTypeFromJavaType(Field(Field(e, "VillagerData", <<>>), "type", None))

(* The UniqueID, which decides the skin, is not modelled; toje does not    *)
(* read the skin.                                                          *)
Villager(e) ==
  [TradeExperience |-> Field(e, "Xp", 0), TradeTier |-> TradeTier(Field(e, "Xp", 0))]
    @@ When(Profession(e) # None, [Variant |-> VillagerProfessionVariant[Profession(e)]])
    @@ When(VillagerType(e) # None, [MarkVariant |-> VillagerTypeVariant[VillagerType(e)]])

Home(e) ==
  LET home == Field(Field(e, "Brain", <<>>), "home", <<>>)
  IN When(home # <<>>, [HomeDimensionId |-> home.dimension, HomePos |-> home.pos])

TrustedPlayers(e) == When(Has(e, "Trusted"), [TrustedPlayers |-> e.Trusted])

HornCount(e) ==
  Cardinality({h \in {"HasLeftHorn", "HasRightHorn"} : Field(e, h, FALSE)})

RabbitVariant(type) ==
  CASE type \in 0..5 -> type [] type = 99 -> 1 [] OTHER -> 0

(* Looks: what kind of its kind. *)
Looks(e) ==
  CASE e.id = "axolotl" -> [Variant |-> VariantFromJava(Field(e, "Variant", 0))]
    [] e.id \in Hulls -> [Variant |-> Forward(Boat, Field(e, "Type", "oak"), 0)]
    [] e.id = "cat" -> [Variant |-> Forward(Cat, Field(e, "variant", "tabby"), 8)]
    [] e.id = "fox" -> [Variant |-> IF Field(e, "Type", "red") = "snow" THEN 1 ELSE 0]
    [] e.id = "frog" -> [Variant |-> Forward(Frog, Field(e, "variant", ""), 0)]
    [] e.id = "horse" ->
         [Variant |-> Nibble(Field(e, "Variant", 0), 0),
          MarkVariant |-> Nibble(Field(e, "Variant", 0), 8)]
    [] e.id = "llama" -> [Variant |-> Field(e, "Variant", 0)] @@ Copied(e, {"Strength"})
    [] e.id = "trader_llama" ->
         [Variant |-> Field(e, "Variant", 0), MarkVariant |-> 1, IsTamed |-> TRUE]
           @@ Copied(e, {"Strength"})
    [] e.id = "mooshroom" ->
         [Variant |-> IF Field(e, "Type", "red") = "brown" THEN 1 ELSE 0]
    [] e.id = "parrot" -> Copied(e, {"Variant"})
    [] e.id = "rabbit" ->
         [Variant |-> RabbitVariant(Field(e, "RabbitType", 0))]
           @@ When(Field(e, "RabbitType", 0) = 99, [CustomName |-> "The Killer Bunny"])
           @@ Copied(e, {"MoreCarrotTicks"})
    [] e.id = "sheep" ->
         [Color |-> Field(e, "Color", 0), Sheared |-> Field(e, "Sheared", FALSE)]
    [] e.id = "shulker" -> [Variant |-> Field(e, "Color", 16)]
    [] e.id \in {"slime", "magma_cube"} -> [Size |-> Byte(BedrockSize(e))]
    [] e.id = "tropical_fish" ->
         ToBedrockBucketTag(TropicalFishFromJavaVariant(Field(e, "Variant", 0)))
    [] e.id \in {"villager", "zombie_villager"} -> Villager(e)
    [] e.id = "panda" ->
         [MainAllele |-> Forward(PandaAllele, Field(e, "MainGene", "normal"), 10),
          HiddenAllele |-> Forward(PandaAllele, Field(e, "HiddenGene", "normal"), 10)]
    [] OTHER -> <<>>

(* A carried or falling block is made of its name: it has no property.     *)
NameOnly(block) == [name |-> block.name]

(* Ties: whom it obeys, trusts, hates, and what it holds. *)
Ties(e) ==
  CASE e.id = "allay" ->
         Renamed(Field(e, "Brain", <<>>), [OwnerNew |-> "liked_player"])
           @@ Renamed(e, [AllayDuplicationCooldown |-> "DuplicationCooldown"])
    [] e.id = "arrow" -> Renamed(e, [OwnerNew |-> "Owner"])
    [] e.id = "fox" -> TrustedPlayers(e)
    [] e.id \in {"iron_golem", "zombified_piglin"} -> Renamed(e, [TargetID |-> "AngryAt"])
    [] e.id = "piglin_brute" -> Home(e)
    [] e.id = "turtle" -> Copied(e, {"HomePos"})
    [] e.id = "enderman" ->
         When(Has(e, "carriedBlockState"),
              [carriedBlock |-> BlockFrom[NameOnly(e.carriedBlockState)]])
    [] e.id = "falling_block" ->
         When(Has(e, "BlockState"), [FallingBlock |-> BlockFrom[NameOnly(e.BlockState)]])
    [] e.id = "chest_minecart" -> LootTableJavaToBedrock(e)
    [] e.id = "end_crystal" ->
         Copied(e, {"ShowBottom"}) @@ Renamed(e, [BlockTarget |-> "BeamTarget"])
    [] e.id = "item" -> [Item |-> ItemOf(Field(e, "Item", <<>>))] @@ Copied(e, {"Health", "Age"})
    [] OTHER -> <<>>

(* Clocks, counters and postures. *)
States(e) ==
  CASE e.id = "armor_stand" -> ArmorStandPose(e) @@ [Pos |-> [e.Pos EXCEPT ![2] = RoundedToHalf(@)]]
    [] e.id \in Hulls ->
         [Pos |-> BoatPos(e), Rotation |-> (e.Rotation + 2) % 8]
    [] e.id \in Minecarts ->
         [Pos |-> MinecartPos(e)]
           @@ When(e.id = "tnt_minecart" /\ Field(e, "TNTFuse", -1) >= 0,
                   [Fuse |-> Byte(Field(e, "TNTFuse", -1))])
    [] e.id = "bat" -> Copied(e, {"BatFlags"})
    [] e.id = "camel" -> [Sitting |-> Field(e, "IsSitting", FALSE), IsTamed |-> TRUE]
    [] e.id = "chicken" -> Renamed(e, [SpawnTimer |-> "EggLayTime"])
    [] e.id = "endermite" -> Copied(e, {"Lifetime"})
    [] e.id = "ender_dragon" ->
         When(Field(e, "DragonDeathTime", 0) > 0, [IntDeathTime |-> Field(e, "DragonDeathTime", 0)])
    [] e.id = "goat" -> [GoatHornCount |-> HornCount(e)]
    [] e.id = "wandering_trader" ->
         When(Has(e, "DespawnDelay"), [TimeStamp |-> GameTick + Field(e, "DespawnDelay", 0)])
    [] OTHER -> <<>>

(* Of the definitions those that the way back reads. *)
Definitions(e) ==
  LET if(condition, definition) == IF condition THEN {definition} ELSE {}
      is(kind, field) == e.id = kind /\ Field(e, field, FALSE)
  IN {}
       \cup if(is("bee", "HasNectar"), "+has_nectar")
       \cup if(is("creeper", "powered"), "+charged_creeper")
       \cup if(is("fox", "Sleeping"), "+fox_ambient_sleep")
       \cup if(is("goat", "IsScreamingGoat"), "+goat_screamer")
       \cup if(is("hoglin", "CannotBeHunted"), "-angry_hoglin")
       \cup if(e.id = "hopper_minecart" /\ Field(e, "Enabled", TRUE), "+hopper_active")
       \cup if(is("iron_golem", "PlayerCreated"), "+player_created")
       \cup if(is("piglin", "CannotHunt"), "+not_hunter")
       \cup if(e.id = "pufferfish" /\ Field(e, "PuffState", 0) = 1, "+half_puff_primary")
       \cup if(e.id = "pufferfish" /\ Field(e, "PuffState", 0) = 2, "+full_puff")
       \cup if(is("skeleton_horse", "SkeletonTrap"), "+skeleton_trap")
       \cup if(e.id = "snow_golem" /\ ~Field(e, "Pumpkin", TRUE), "+snowman_sheared")
       \cup if(e.id = "trader_llama", "+llama_wandering_trader")
       \cup if(is("turtle", "HasEgg"), "-wants_to_lay_egg")
       \cup if(e.id \in Raiders /\ Field(e, "CanJoinRaid", FALSE), "+raid_configuration")
       \cup if(e.id \in Steerables /\ (Field(e, "Saddle", FALSE) \/ Has(e, "SaddleItem")),
               "+saddled")

-----------------------------------------------------------------------------
(* The dying dragon counts in an Int, which is no DeathTime of the others. *)
Living(e) ==
  IF e.id \notin LivingEntities THEN BaseProperties(e)
  ELSE Without(LivingEntity(e),
               IF e.id = "ender_dragon" /\ Field(e, "DragonDeathTime", 0) > 0
               THEN {"DeathTime"} ELSE {})

Decorated(e) ==
  When(HasCarpet(e), [Armor |-> [GetArmor(e) EXCEPT ![2] = LlamaCarpet(e.DecorItem)]])

Entity(e) ==
  When(e.id \in DOMAIN BedrockNames, [identifier |-> Forward(BedrockNames, e.id, e.id)])
    @@ Looks(e) @@ Ties(e) @@ States(e) @@ Offers(e) @@ ChestItems(e) @@ Decorated(e)
    @@ Temper(e) @@ Sittable(e) @@ CollarColorable(e) @@ AttackTime(e)
    @@ PersistentFromFromBucket(e) @@ Taming(e) @@ Ageing(e)
    @@ When(e.id \in Chested, [Chested |-> Field(e, "ChestedHorse", FALSE)])
    @@ Leash(e) @@ Attributes(e) @@ [definitions |-> Definitions(e)] @@ Living(e)

Painting(e) ==
  LET direction == Facing4FromBedrockDirection(Field(e, "facing", 0))
      motive == Motive(Field(e, "variant", "aztec"))
  IN [Pos |-> BedrockPosFromJavaTilePos(e.Tile, direction, motive), Motive |-> motive,
      Direction |-> Field(e, "facing", 0),
      Rotation |-> Eighth(YawFromFacing4[direction]), definitions |-> {}]
       @@ BaseProperties(e)

Frames == [item_frame |-> <<"frame">>, glow_item_frame |-> <<"glow_frame">>]

(* Frames are block entities, an item is nothing without the item. *)
From(e) ==
  CASE e.id \in DOMAIN Frames -> Null
    [] e.id = "painting" -> Painting(e)
    [] e.id = "item" /\ ItemOf(Field(e, "Item", <<>>)) = Null -> Null
    [] OTHER -> Entity(e)

(* Whoever rides a vehicle is converted without its own riders and knots.  *)
Passengers(e) ==
  IF e.id \notin Vehicles THEN <<>>
  ELSE SelectSeq(Each(From, Field(e, "Passengers", <<>>)), LAMBDA p : p # Null)

-----------------------------------------------------------------------------
(* Item frames *)

FacingOf(rotation) ==
  LET looking == {f \in DOMAIN FrameRotation : FrameRotation[f] = rotation}
  IN IF looking = {} THEN 0
     ELSE BedrockFacingDirectionAFromFacing6[CHOOSE f \in looking : TRUE]

IsMap(i) == i # <<>> /\ i.id = <<"filled_map">>

ToItemFrameTileEntityBlock(e) ==
  [name |-> Frames[e.id], facing_direction |-> FacingOf(e.Rotation),
   item_frame_map_bit |-> IsMap(Field(e, "Item", <<>>))]

ToItemFrameTileEntityData(e) ==
  LET item == ItemOf(Field(e, "Item", <<>>))
  IN [id |-> IF e.id = "item_frame" THEN "ItemFrame" ELSE "GlowItemFrame", at |-> e.Tile]
       @@ When(item # Null,
               [Item |-> item, ItemRotation |-> Field(e, "ItemRotation", 0) * 45,
                ItemDropChance |-> Field(e, "ItemDropChance", 1)])
=============================================================================
