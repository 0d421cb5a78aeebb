---------------------------- MODULE EntityToJava ----------------------------
(***************************************************************************)
(* toje::Entity (src/src/toje-entity.cpp): the Java entity of a Bedrock    *)
(* entity, and the leashes and passengers that Chunk (src/src/             *)
(* toje-chunk.cpp) joins them by.  Entities are the records of             *)
(* EntityToBedrock; what the comparison of test/j2b2j.hpp passes over for  *)
(* every kind is not written.                                              *)
(***************************************************************************)
EXTENDS EntityTables

CONSTANTS
  ItemFrom,      \* Item::From, of the items that the entity has
  BlockFrom,     \* BlockData::From, of the block it carries or is
  GameTick       \* Context::fGameTick

-----------------------------------------------------------------------------
(* Utilities *)

Copied(b, tags) == [t \in tags \cap DOMAIN b |-> b[t]]

When(condition, fields) == IF condition THEN fields ELSE <<>>

Constant(kinds, kind, fields) == When(kind \in kinds, fields)

HasDefinition(b, definition) == definition \in b.definitions

Unslotted(i) == Without(i, {"Slot"})

Current(b, attribute, field) ==
  IF Has(Field(b, "Attributes", <<>>), attribute)
  THEN [f \in {field} |-> b.Attributes[attribute]] ELSE <<>>

-----------------------------------------------------------------------------
(* Converters *)

Base(b) ==
  [Air |-> Field(b, "Air", 300)]
    @@ Copied(b, {"OnGround", "Pos", "Rotation", "PortalCooldown", "FallDistance",
                  "Invulnerable"})

ArmorItems(b) == [i \in 1..4 |-> ItemFrom[b.Armor[5 - i]]]

HandItems(b) == <<ItemFrom[b.Mainhand], ItemFrom[b.Offhand]>>

Health(b) == When(Has(b, "Attributes"), [Health |-> b.Attributes.health.current])

(* What an armor stand has of these is all but the two. *)
Body(b) ==
  [AbsorptionAmount |-> 0, ArmorItems |-> ArmorItems(b), Brain |-> <<>>,
   FallFlying |-> FALSE, HandItems |-> HandItems(b)]
    @@ Copied(b, {"DeathTime", "HurtTime"}) @@ Health(b)

CustomName(b) == When(Has(b, "CustomName"), [CustomName |-> Text(b.CustomName)])

LivingEntity(b) ==
  Body(b) @@ Renamed(b, [CanPickUpLoot |-> "canPickupItems"]) @@ CustomName(b) @@ Base(b)

Owner(b) == When(b.OwnerNew # Nobody, [Owner |-> b.OwnerNew])

(* Love is a Byte in Bedrock, which the Int that is asked for never is.    *)
Animal(b) == [Age |-> Field(b, "Age", 0), InLove |-> 0] @@ Owner(b) @@ LivingEntity(b)

-----------------------------------------------------------------------------
(* The kinds and the behaviours they share *)

Kinds == OfBase \cup OfAnimal \cup OfLiving

Converted(kind, b) ==
  CASE kind \in OfAnimal -> Animal(b)
    [] kind \in OfLiving -> LivingEntity(b)
    [] kind = "armor_stand" -> Body(b) @@ Base(b)
    [] OTHER -> Base(b)

Zombies ==
  {"zombie", "zombified_piglin", "husk", "drowned", "zombie_villager"}

(* What Bedrock does not have starts anew. *)
Anew(kind) ==
  Constant(Zombies, kind,
           [DrownedConversionTime |-> -1, CanBreakDoors |-> FALSE, InWaterTime |-> -1])
    @@ Constant({"skeleton"}, kind, [StrayConversionTime |-> -1])
    @@ Constant({"creeper"}, kind, [ExplosionRadius |-> 3, Fuse |-> 30, ignited |-> FALSE])
    @@ Constant({"item"}, kind, [PickupDelay |-> 0])
    @@ Constant({"armor_stand"}, kind,
                [DisabledSlots |-> 0, Invisible |-> FALSE, NoBasePlate |-> FALSE, Small |-> FALSE])
    @@ Constant({"hopper_minecart"}, kind, [TransferCooldown |-> 0])
    @@ Constant({"enderman", "zombified_piglin", "bee", "polar_bear", "wolf", "iron_golem"},
                kind, [AngerTime |-> 0])
    @@ Constant({"bee", "vex", "allay"}, kind, [NoGravity |-> TRUE])
    @@ Constant({"bee"}, kind,
                [CannotEnterHiveTicks |-> 0, CropsGrownSincePollination |-> 0, HasStung |-> FALSE])
    @@ Constant({"fox"}, kind, [Crouching |-> FALSE])
    @@ Constant(Horses \cup Chested \cup {"trader_llama", "camel"}, kind, [Bred |-> FALSE])
    @@ Constant(Raiders, kind, [Patrolling |-> FALSE, Wave |-> 0])
    @@ Constant({"evoker"}, kind, [SpellTicks |-> 0])
    @@ Constant({"phantom"}, kind, [Size |-> 0])
    @@ Constant({"ghast"}, kind, [ExplosionPower |-> 1])
    @@ Constant({"ravager"}, kind, [RoarTick |-> 0, StunTick |-> 0])
    @@ Constant({"skeleton_horse"}, kind, [SkeletonTrapTime |-> 0])
    @@ Constant({"glow_squid"}, kind, [DarkTicksRemaining |-> 0])
    @@ Constant({"villager"}, kind, [FoodLevel |-> 0])
    @@ Constant({"zombie_villager"}, kind, [ConversionTime |-> -1])
    @@ Constant({"wither"}, kind, [Invul |-> 0])
    @@ Constant({"allay"}, kind, [CanDuplicate |-> TRUE])
    @@ Constant({"chicken"}, kind, [IsChickenJockey |-> FALSE])
    @@ Constant({"camel"}, kind, [Temper |-> 0])

Growing(kind, b) ==
  CASE kind \in Zombies \cup {"piglin"} -> Copied(b, {"IsBaby"})
    [] kind = "wandering_trader" -> [Age |-> Field(b, "Age", 0)]
    [] kind = "tadpole" /\ Has(b, "Age") -> [Age |-> Field(b, "Age", 0) + 24000]
    [] OTHER -> <<>>

Tame(kind, b) ==
  CASE kind = "trader_llama" -> [Tame |-> b.OwnerNew # Nobody]
    [] kind \in Horses \cup {"llama", "camel"} -> [Tame |-> b.IsTamed]
    [] OTHER -> <<>>

Tempered == Horses \cup {"llama", "trader_llama"}

Sitters == {"parrot", "fox", "cat", "wolf"}

Bearing(kind, b) ==
  Constant(Tempered, kind, [Temper |-> Field(b, "Temper", 0)])
    @@ Constant(Sitters, kind, [Sitting |-> b.Sitting])
    @@ Constant({"cat", "wolf"}, kind,
                [CollarColor |-> IF b.OwnerNew = Nobody THEN 14 ELSE b.Color])
    @@ Constant(BucketFish \cup {"axolotl"}, kind,
                [FromBucket |-> ~Field(b, "NaturalSpawn", TRUE)])
    @@ Constant(Raiders, kind,
                [CanJoinRaid |-> HasDefinition(b, "+raid_configuration"),
                 PatrolLeader |-> b.IsIllagerCaptain])
    @@ Constant({"slime", "magma_cube"}, kind, [Size |-> Field(b, "Size", 1) - 1])

(* HealthWithCustomizedMax, JumpStrength, MovementSpeed *)
Customized(kind, b) ==
  LET max == When(kind \in {"horse", "donkey", "mule"},
                  [max_health |-> b.Attributes.health.max])
      jump == When(kind \in {"horse", "skeleton_horse", "zombie_horse"},
                   Current(b, "jump_strength", "jump_strength"))
  IN When(kind \in Horses,
          [Attributes |-> max @@ jump @@ Current(b, "movement", "movement_speed")])

-----------------------------------------------------------------------------
(* Items: an empty one has no slot in Java. *)

ChestItems(b) == Each(LAMBDA i : ItemFrom[i], Field(b, "ChestItems", <<>>))

IsEmpty(i) == i = <<>>

InSlots(b, slots) ==
  SelectSeq(ChestItems(b), LAMBDA i : ~IsEmpty(i) /\ i.Slot \in slots)

Inventory(kind, b) ==
  When(kind \in WithInventory /\ Has(b, "ChestItems"),
       [Inventory |-> Each(Unslotted, ChestItems(b))])

ItemsFromChestItems(kind, b) ==
  When(kind \in WithItems /\ Has(b, "ChestItems")
         /\ ~(kind = "chest_minecart" /\ LootTableBedrockToJava(b) # <<>>),
       [Items |-> ChestItems(b)])

(* The item of a slot, if any, as a field of its own. *)
ItemOfSlot(b, slot, field) ==
  LET there == InSlots(b, {slot})
  IN When(there # <<>>, [f \in {field} |-> Unslotted(Last(there))])

\* Mutant: the slots keep the numbers they have in Bedrock.
Unshifted(i) == i

(* Java counts the slots of a beast with its armor, which Bedrock does not. *)
Shifted(i) == [i EXCEPT !.Slot = @ + 1]

(* The saddle and the carpet of a beast are found only below its chest.    *)
Items(kind, b) ==
  When(kind \in Chested \cup {"trader_llama"},
       [ChestedHorse |-> b.Chested]
         @@ When(b.Chested,
                 ItemOfSlot(b, 0, IF kind \in {"donkey", "mule"} THEN "SaddleItem" ELSE "DecorItem")
                   @@ [Items |-> Each(Shifted, InSlots(b, 1..127))]))

SaddleItem(kind, b) ==
  CASE kind = "horse" -> ItemOfSlot(b, 0, "SaddleItem") @@ ItemOfSlot(b, 1, "ArmorItem")
    [] kind = "camel" -> ItemOfSlot(b, 0, "SaddleItem")
    [] kind \in {"pig", "strider"} -> [Saddle |-> HasDefinition(b, "+saddled")]
    [] OTHER -> <<>>

(* Not the armor: the carpet that Bedrock has there. *)
LlamaArmor(kind, b) ==
  When(kind \in {"llama", "trader_llama"},
       [ArmorItems |-> [ArmorItems(b) EXCEPT ![3] = <<>>]])

-----------------------------------------------------------------------------
(* Trades *)

Bought(item, count) == [ItemFrom[item] EXCEPT !.Count = count]

Recipe(r) ==
  [sell |-> ItemFrom[r.sell], buy |-> Bought(r.buyA, r.buyCountA), specialPrice |-> 0,
   buyB |-> IF Has(r, "buyB") THEN Bought(r.buyB, r.buyCountB)
            ELSE [id |-> <<"air">>, Count |-> 1]]
    @@ Renamed(r, [demand |-> "demand", maxUses |-> "maxUses", uses |-> "uses",
                   xp |-> "traderExp", rewardExp |-> "rewardExp",
                   priceMultiplier |-> "priceMultiplierA"])

Offers(kind, b) ==
  LET offers == Renamed(b, [Offers |-> "persistingOffers"]) @@ Copied(b, {"Offers"})
  IN When(kind \in {"villager", "wandering_trader", "zombie_villager"} /\ offers # <<>>,
          [Offers |-> Each(Recipe, Field(offers, "Offers", <<>>))])

-----------------------------------------------------------------------------
(* Dedicated behaviours *)

VillagerData(b) ==
  [profession |-> Decode(VillagerProfessionVariant, b.Variant, "none"),
   type |-> Decode(VillagerTypeVariant, b.MarkVariant, "plains"),
   level |-> b.TradeTier + 1]

Villager(b) == [Xp |-> b.TradeExperience, VillagerData |-> VillagerData(b)]

PuffState(b) ==
  CASE HasDefinition(b, "+half_puff_primary") -> 1
    [] HasDefinition(b, "+full_puff") -> 2
    [] OTHER -> 0

ArmorStand(b) ==
  [ShowArms |-> Has(b, "Pose")]
    @@ When(Has(b, "Pose") /\ Field(b, "Pose", 0) # Straight, Copied(b, {"Pose"}))

Painting(b) ==
  LET motive == Motive(b.Motive)
      direction == Facing4FromBedrockDirection(b.Direction)
  IN [Tile |-> JavaTilePosFromBedrockPos(b.Pos, direction, motive), facing |-> b.Direction,
      variant |-> motive]

(* Grass is carried without the snow. *)
Carried(b) ==
  LET block == BlockFrom[b]
  IN IF block.name = <<"grass_block">> THEN [block EXCEPT !.snowy = FALSE] ELSE block

Looks(kind, b) ==
  CASE kind = "axolotl" -> [Variant |-> JavaVariantFromBedrockVariant(b.Variant)]
    [] kind \in {"boat", "chest_boat"} -> [Type |-> Decode(Boat, b.Variant, "oak")]
    [] kind = "cat" -> [variant |-> Decode(Cat, b.Variant, "tabby")]
    [] kind = "fox" -> [Type |-> IF b.Variant = 1 THEN "snow" ELSE "red"]
    [] kind = "frog" -> [variant |-> Decode(Frog, b.Variant, "temperate")]
    [] kind = "goat" ->
         [IsScreamingGoat |-> HasDefinition(b, "+goat_screamer"),
          HasRightHorn |-> b.GoatHornCount = 2, HasLeftHorn |-> b.GoatHornCount > 0]
    [] kind = "horse" ->
         [Variant |-> Nibble(b.Variant, 0) + Nibble(b.MarkVariant, 0) * 256]
    [] kind \in {"llama", "trader_llama"} -> Copied(b, {"Variant", "Strength"})
    [] kind = "mooshroom" -> [Type |-> IF b.Variant = 1 THEN "brown" ELSE "red"]
    [] kind = "painting" -> Painting(b)
    [] kind = "panda" ->
         [MainGene |-> PandaGene(b.MainAllele), HiddenGene |-> PandaGene(b.HiddenAllele)]
    [] kind = "parrot" -> Copied(b, {"Variant"})
    [] kind = "pufferfish" -> [PuffState |-> PuffState(b)]
    [] kind = "rabbit" -> [RabbitType |-> b.Variant] @@ Copied(b, {"MoreCarrotTicks"})
    [] kind = "sheep" -> Copied(b, {"Sheared", "Color"})
    [] kind = "shulker" -> [Color |-> b.Variant]
    [] kind = "snow_golem" -> [Pumpkin |-> ~HasDefinition(b, "+snowman_sheared")]
    [] kind = "tropical_fish" ->
         [Variant |-> ToJavaVariant(TropicalFishFromBedrockBucketTag(b))]
    [] kind \in {"villager", "zombie_villager"} -> Villager(b)
    [] OTHER -> <<>>

Ties(kind, b) ==
  CASE kind = "allay" ->
         [Brain |-> [liked_player |-> b.OwnerNew]]
           @@ Renamed(b, [DuplicationCooldown |-> "AllayDuplicationCooldown"])
    [] kind = "arrow" -> Owner(b)
    [] kind = "chest_minecart" -> LootTableBedrockToJava(b)
    [] kind = "end_crystal" ->
         Copied(b, {"ShowBottom"}) @@ Renamed(b, [BeamTarget |-> "BlockTarget"])
    [] kind = "enderman" ->
         When(Has(b, "carriedBlock"),
              [carriedBlockState |-> Carried(Field(b, "carriedBlock", <<>>))])
    [] kind = "falling_block" ->
         When(Has(b, "FallingBlock"), [BlockState |-> BlockFrom[b.FallingBlock]])
    [] kind = "fox" -> [Trusted |-> Field(b, "TrustedPlayers", <<>>)]
    [] kind \in {"iron_golem", "zombified_piglin"} ->
         When(b.TargetID # Nobody, [AngryAt |-> GenWithI64Seed(b.TargetID)])
    [] kind = "item" -> [Item |-> ItemFrom[b.Item]] @@ Copied(b, {"Age", "Health"})
    [] kind = "piglin_brute" ->
         When(Has(b, "HomePos"),
              [Brain |-> [home |-> [dimension |-> Field(b, "HomeDimensionId", 0),
                                    pos |-> Field(b, "HomePos", <<>>)]]])
    [] kind = "turtle" -> Copied(b, {"HomePos"})
    [] OTHER -> <<>>

DespawnDelay(b) ==
  IF Has(b, "TimeStamp") THEN Max({0, b.TimeStamp - GameTick}) ELSE 0

BoatPos(b) ==
  IF b.OnGround THEN [b.Pos EXCEPT ![2] = Rounded(@ - 60) * Block] ELSE b.Pos

MinecartPos(b) ==
  CASE b.OnGround -> [b.Pos EXCEPT ![2] = @ - 56]
    [] ~b.OnGround /\ b.Pos[2] % Block = 80 -> [b.Pos EXCEPT ![2] = @ - 80 + 10]
    [] OTHER -> b.Pos

States(kind, b) ==
  CASE kind = "armor_stand" -> ArmorStand(b)
    [] kind = "bat" -> Copied(b, {"BatFlags"})
    [] kind = "bee" -> [HasNectar |-> HasDefinition(b, "+has_nectar")]
    [] kind \in {"boat", "chest_boat"} ->
         [Pos |-> BoatPos(b), Rotation |-> (b.Rotation - 2) % 8]
    [] kind = "camel" -> [IsSitting |-> b.Sitting]
    [] kind = "chicken" -> Renamed(b, [EggLayTime |-> "SpawnTimer"])
    [] kind = "creeper" -> When(HasDefinition(b, "+charged_creeper"), [powered |-> TRUE])
    [] kind = "ender_dragon" ->
         [DragonDeathTime |-> Field(b, "IntDeathTime", 0),
          DragonPhase |-> IF Field(b, "IntDeathTime", 0) > 0 THEN 9 ELSE 0]
    [] kind = "endermite" -> Copied(b, {"Lifetime"})
    [] kind = "fox" -> [Sleeping |-> HasDefinition(b, "+fox_ambient_sleep")]
    [] kind = "hoglin" -> When(HasDefinition(b, "-angry_hoglin"), [CannotBeHunted |-> TRUE])
    [] kind = "iron_golem" -> [PlayerCreated |-> HasDefinition(b, "+player_created")]
    [] kind \in Minecarts ->
         [Pos |-> MinecartPos(b)]
           @@ When(kind = "tnt_minecart", [TNTFuse |-> Field(b, "Fuse", -1)])
           @@ When(kind = "hopper_minecart", [Enabled |-> HasDefinition(b, "+hopper_active")])
    [] kind = "piglin" -> When(HasDefinition(b, "+not_hunter"), [CannotHunt |-> TRUE])
    [] kind = "ravager" -> [AttackTick |-> b.AttackTime]
    [] kind = "skeleton_horse" -> [SkeletonTrap |-> HasDefinition(b, "+skeleton_trap")]
    [] kind = "turtle" -> [HasEgg |-> HasDefinition(b, "-wants_to_lay_egg")]
    [] kind = "wandering_trader" -> [DespawnDelay |-> DespawnDelay(b)]
    [] kind = "wither" ->
         [Health |-> (300 * b.Attributes.health.current) \div b.Attributes.health.max]
    [] OTHER -> <<>>

-----------------------------------------------------------------------------
NameOf(kind) == Forward(JavaNames, kind, kind)

(* A llama of a trader is told by a definition. *)
LlamaName(kind, b) ==
  IF kind = "llama" /\ HasDefinition(b, "+llama_wandering_trader") THEN "trader_llama" ELSE kind

(* An infant villager is not in love, nor any other. *)
Completed(kind, b) ==
  Without([id |-> kind]
            @@ Looks(kind, b) @@ Ties(kind, b) @@ States(kind, b) @@ Offers(kind, b)
            @@ Inventory(kind, b) @@ ItemsFromChestItems(kind, b) @@ Items(kind, b)
            @@ SaddleItem(kind, b) @@ LlamaArmor(kind, b) @@ Customized(kind, b)
            @@ Bearing(kind, b) @@ Tame(kind, b) @@ Growing(kind, b) @@ Anew(kind)
            @@ Converted(kind, b),
          IF kind = "villager" THEN {"InLove"} ELSE {})

From(b) ==
  LET named == {k \in Kinds : NameOf(k) = b.identifier}
  IN IF named = {} THEN Null
     ELSE Completed(LlamaName(CHOOSE k \in named : TRUE, b), b)

(* The leash, from its holder or from a knot that is found. *)
AttachLeash(b, knot) ==
  CASE Field(b, "LeasherID", Nobody) = Nobody -> <<>>
    [] b.LeasherID = "knot" /\ knot # {} -> [Leash |-> [at |-> CHOOSE pos \in knot : TRUE]]
    [] OTHER -> [Leash |-> [by |-> GenWithI64Seed(b.LeasherID)]]

(* The passengers of Bedrock that are entities of Java. *)
AttachPassengers(e, passengers) ==
  When(passengers # <<>>,
       [Passengers |-> SelectSeq(passengers, LAMBDA p : p # Null)]
         @@ When(e.id = "chicken", [IsChickenJockey |-> TRUE]))
    @@ e

-----------------------------------------------------------------------------
FacingOf(block) == Facing6FromBedrockFacingDirectionA(Field(block, "facing_direction", 0))

ItemFrameFromBedrock(block, tile) ==
  LET facing == FacingOf(block)
      item == IF Has(tile, "Item") THEN ItemFrom[tile.Item] ELSE Null
  IN [id |-> IF block.name = <<"glow_frame">> THEN "glow_item_frame" ELSE "item_frame",
      Rotation |-> FrameRotation[facing], Facing |-> Field(block, "facing_direction", 0),
      Tile |-> tile.at, Pos |-> FramePos(tile.at, facing), Air |-> 300, FallDistance |-> 0,
      Fixed |-> FALSE, Invisible |-> FALSE, Invulnerable |-> FALSE, OnGround |-> FALSE,
      PortalCooldown |-> 0]
       @@ When(item # Null, [Item |-> item])
       @@ When(Has(tile, "ItemRotation"), [ItemRotation |-> Field(tile, "ItemRotation", 0) \div 45])
       @@ Copied(tile, {"ItemDropChance"})
=============================================================================
