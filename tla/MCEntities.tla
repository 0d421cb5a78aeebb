----------------------------- MODULE MCEntities -----------------------------
(***************************************************************************)
(* The Java entities the runs convert: every kind with all values of the   *)
(* tags that are its own, and every kind with one of the common tags at a  *)
(* time.  A set holds entities of one shape.                               *)
(***************************************************************************)
EXTENDS EntityTables, TLC

Item(name) == [id |-> <<name>>, Count |-> 1]

In(slot, name) == [Slot |-> slot] @@ Item(name)

Base(kind) ==
  [id |-> kind, Pos |-> <<168, 10240, -72>>, Rotation |-> 3, Air |-> 300, OnGround |-> TRUE,
   PortalCooldown |-> 0, FallDistance |-> 0, Invulnerable |-> FALSE]

Body ==
  [AbsorptionAmount |-> 0, ArmorItems |-> <<<<>>, <<>>, <<>>, <<>>>>, Brain |-> <<>>,
   DeathTime |-> 0, FallFlying |-> FALSE, HandItems |-> <<<<>>, <<>>>>, Health |-> 1,
   HurtTime |-> 0]

Living(kind) == [CanPickUpLoot |-> FALSE] @@ Body @@ Base(kind)

Animal(kind) == [Age |-> 0, InLove |-> 0] @@ Living(kind)

Kinds ==
  OfBase \cup OfAnimal \cup OfLiving
    \cup {"experience_orb", "ocelot", "dolphin", "vindicator"}

Plain(kind) ==
  CASE kind \in OfAnimal \ {"villager"} -> Animal(kind)
    [] kind = "villager" -> [Age |-> 0] @@ Living(kind)
    [] kind = "wandering_trader" -> [Age |-> 0] @@ Living(kind)
    [] kind = "armor_stand" -> Body @@ Base(kind)
    [] kind \in OfBase -> Base(kind)
    [] OTHER -> Living(kind)

-----------------------------------------------------------------------------
(* The tags of a kind *)

Zombie == [DrownedConversionTime : {-1, 5}, CanBreakDoors : BOOLEAN, InWaterTime : {-1, 5}]

Raider == [CanJoinRaid : BOOLEAN, PatrolLeader : BOOLEAN, Patrolling : BOOLEAN, Wave : {0, 3}]

Bred == [Bred : BOOLEAN, Tame : BOOLEAN, Temper : {0, 30}]

(* Every field of one with every field of another. *)
And(r, s) == {x @@ y : x \in r, y \in s}

Tile == <<5, 70, -3>>

Paintings ==
  {LET direction == Facing4FromBedrockDirection(f)
   IN [Tile |-> Tile, facing |-> f, variant |-> m,
       Pos |-> BedrockPosFromJavaTilePos(Tile, direction, m),
       Rotation |-> Eighth(YawFromFacing4[direction])] : f \in 0..3, m \in Motives}

OwnOf(kind) ==
  CASE kind = "skeleton" -> [StrayConversionTime : {-1, 20}]
    [] kind = "creeper" -> [ExplosionRadius : {3, 5}, Fuse : {30, 10}, ignited : BOOLEAN]
    [] kind = "painting" -> Paintings
    [] kind = "bat" -> [BatFlags : BOOLEAN]
    [] kind = "zombie" -> And(Zombie, [IsBaby : BOOLEAN])
    [] kind = "zombified_piglin" -> And(Zombie, [IsBaby : BOOLEAN, AngerTime : {0, 5}])
    [] kind = "husk" -> And(Zombie, [IsBaby : BOOLEAN])
    [] kind = "drowned" -> And(Zombie, [IsBaby : BOOLEAN])
    [] kind = "zombie_villager" ->
           And(Zombie, [IsBaby : BOOLEAN, ConversionTime : {-1, 9}, Xp : {0},
                        VillagerData : [profession : {"farmer"}, type : {"swamp"}, level : {1}]])
    [] kind = "chicken" -> [IsChickenJockey : BOOLEAN, EggLayTime : {77}]
    [] kind = "item" ->
           [PickupDelay : {0, 5}, Age : {0, 99}, Health : {5},
            Item : {Item("stick"), Item("filled_map")}]
    [] kind = "armor_stand" ->
           [DisabledSlots : {0, 7}, Invisible : BOOLEAN, NoBasePlate : BOOLEAN,
            Small : BOOLEAN, ShowArms : BOOLEAN]
    [] kind = "end_crystal" -> [ShowBottom : BOOLEAN]
    [] kind = "hopper_minecart" -> [Enabled : BOOLEAN, TransferCooldown : {0, 4}, Items : {<<>>}]
    [] kind = "boat" -> [Type : DOMAIN Boat]
    [] kind = "chest_boat" -> [Type : DOMAIN Boat, Items : {<<>>, <<In(5, "stick")>>}]
    [] kind = "slime" -> [Size : {0, 1, 3, 126, 127}]
    [] kind = "magma_cube" -> [Size : {0, 1, 3, 126, 127}]
    [] kind = "salmon" -> [FromBucket : BOOLEAN]
    [] kind = "cod" -> [FromBucket : BOOLEAN]
    [] kind = "pufferfish" -> [FromBucket : BOOLEAN, PuffState : 0..2]
    [] kind = "tropical_fish" ->
           [FromBucket : BOOLEAN, Variant : {0, 65536 + 256 + 1, 33554432 + 65536}]
    [] kind = "tadpole" -> [FromBucket : BOOLEAN, Age : {0, 7}]
    [] kind = "parrot" -> [Sitting : BOOLEAN, Variant : 0..4]
    [] kind = "enderman" -> [AngerTime : {0, 5}]
    [] kind = "bee" ->
           [AngerTime : {0}, NoGravity : {TRUE}, CannotEnterHiveTicks : {0, 3},
            CropsGrownSincePollination : {0, 2}, HasNectar : BOOLEAN, HasStung : BOOLEAN]
    [] kind = "fox" ->
           [Sitting : BOOLEAN, Type : {"red", "snow"}, Sleeping : BOOLEAN,
            Crouching : BOOLEAN, Trusted : {<<>>, <<"player", "ares">>}]
    [] kind = "pig" -> [Saddle : BOOLEAN]
    [] kind = "strider" -> [Saddle : BOOLEAN]
    [] kind = "horse" ->
           And(Bred, [Variant : {0, 3, 256, 4 * 256 + 6},
                      Attributes : [max_health : {15, 30}, jump_strength : {4000}]])
    [] kind = "donkey" -> And(Bred, [ChestedHorse : {FALSE}, Attributes : [max_health : {15, 30}]])
    [] kind = "mule" -> And(Bred, [ChestedHorse : {FALSE}])
    [] kind = "skeleton_horse" -> And(Bred, [SkeletonTrap : BOOLEAN, SkeletonTrapTime : {0, 9}])
    [] kind = "zombie_horse" -> Bred
    [] kind = "llama" -> And(Bred, [ChestedHorse : {FALSE}, Strength : {2, 5}, Variant : 0..3])
    [] kind = "trader_llama" ->
           And(Bred, [ChestedHorse : {FALSE}, Strength : {2, 5}, Variant : 0..3])
    [] kind = "camel" -> [Bred : BOOLEAN, Tame : BOOLEAN, Temper : {0, 8}, IsSitting : BOOLEAN]
    [] kind = "sheep" -> [Sheared : BOOLEAN, Color : 0..15]
    [] kind = "endermite" -> [Lifetime : {0, 9}]
    [] kind = "evoker" -> And(Raider, [SpellTicks : {0, 4}])
    [] kind = "pillager" -> And(Raider, [Inventory : {<<>>, <<Item("stick")>>}])
    [] kind = "ravager" -> And(Raider, [AttackTick : {0, 4}, RoarTick : {0, 4}, StunTick : {0}])
    [] kind = "witch" -> Raider
    [] kind = "cat" -> [CollarColor : {14, 3}, Sitting : BOOLEAN, variant : DOMAIN Cat]
    [] kind = "wolf" -> [AngerTime : {0, 5}, CollarColor : {14, 3}, Sitting : BOOLEAN]
    [] kind = "mooshroom" -> [Type : {"red", "brown"}]
    [] kind = "panda" -> [MainGene : DOMAIN PandaAllele, HiddenGene : DOMAIN PandaAllele]
    [] kind = "phantom" -> [Size : {0, 3}]
    [] kind = "ghast" -> [ExplosionPower : {1, 4}]
    [] kind = "rabbit" -> [MoreCarrotTicks : {0, 3}, RabbitType : {0, 1, 5, 99}]
    [] kind = "polar_bear" -> [AngerTime : {0, 5}]
    [] kind = "glow_squid" -> [DarkTicksRemaining : {0, 5}]
    [] kind = "turtle" -> [HomePos : {<<1, 2, 3>>}, HasEgg : BOOLEAN]
    [] kind = "vex" -> [NoGravity : {TRUE}]
    [] kind = "villager" ->
           [FoodLevel : {0, 5}, Inventory : {<<>>, <<Item("bread"), <<>>>>},
            Xp : {0, 9, 10, 100, 250},
            VillagerData : [profession : {"none", "nitwit", "mason", "wizard"},
                            type : {"plains", "taiga"},
                            level : 1..5]]
    [] kind = "wandering_trader" -> [Inventory : {<<>>}, DespawnDelay : {0, 40}]
    [] kind = "snow_golem" -> [Pumpkin : BOOLEAN]
    [] kind = "shulker" -> [Color : {0, 15, 16}]
    [] kind = "iron_golem" -> [AngerTime : {0, 5}, PlayerCreated : BOOLEAN]
    [] kind = "tnt_minecart" -> [TNTFuse : {-1, 0, 127, 128}]
    [] kind = "goat" -> [IsScreamingGoat : BOOLEAN, HasRightHorn : BOOLEAN, HasLeftHorn : BOOLEAN]
    [] kind = "axolotl" -> [FromBucket : BOOLEAN, Variant : 0..4]
    [] kind = "wither" -> [Invul : {0, 20}, Health : {1, 77, 300}]
    [] kind = "piglin" -> [IsBaby : BOOLEAN, Inventory : {<<>>, <<Item("stick")>>}]
    [] kind = "ender_dragon" -> [DragonDeathTime : {0, 4}, DragonPhase : {0, 2, 9}]
    [] kind = "frog" -> [variant : DOMAIN Frog]
    [] kind = "allay" ->
           [NoGravity : {TRUE}, CanDuplicate : BOOLEAN, DuplicationCooldown : {0, 6},
            Inventory : {<<>>}, Brain : [liked_player : {"player", "ares"}]]
    [] kind = "chest_minecart" -> [Items : {<<>>, <<In(26, "stick")>>}]
    [] OTHER -> {<<>>}

(* One of the kind, if possible one that keeps all. *)
Usual ==
  [axolotl |-> [FromBucket |-> TRUE], allay |-> [CanDuplicate |-> TRUE],
   creeper |-> [Fuse |-> 30], villager |-> [Xp |-> 0, VillagerData |->
     [profession |-> "mason", type |-> "taiga", level |-> 1]]]

Typical(kind) ==
  (IF kind \in DOMAIN Usual THEN Usual[kind] ELSE <<>>)
    @@ (CHOOSE o \in OwnOf(kind) : TRUE) @@ Plain(kind)

-----------------------------------------------------------------------------
(* One tag at a time *)

Worn == <<Item("leather"), <<>>, Item("stick"), <<>>>>

(* For all that have it. *)
Common ==
  <<[Air |-> 17], [OnGround |-> FALSE], [PortalCooldown |-> 5], [FallDistance |-> 3],
    [Invulnerable |-> TRUE], [AbsorptionAmount |-> 4], [ArmorItems |-> Worn],
    [ArmorItems |-> <<<<>>, Item("stick"), <<>>, Item("bread")>>],
    [CanPickUpLoot |-> TRUE], [DeathTime |-> 3], [FallFlying |-> TRUE],
    [HandItems |-> <<Item("stick"), Item("shield")>>], [HandItems |-> <<<<>>, Item("filled_map")>>],
    [HurtTime |-> 3], [Health |-> 600], [Health |-> 4], [Age |-> -100], [Age |-> 100],
    [InLove |-> 7], [Rotation |-> 7], [Pos |-> <<168, 10253, -72>>]>>

Rider == Typical("skeleton")

LeashedRider == [Leash |-> [at |-> <<1, 2, 3>>]] @@ Typical("wolf")

Rode == [IsChickenJockey |-> TRUE, Passengers |-> <<Rider>>] @@ Typical("chicken")

(* For any. *)
Optional ==
  <<[CustomName |-> Text("Ares")], [CustomName |-> [json |-> "value"]],
    [Leash |-> [at |-> <<1, 2, 3>>]], [Leash |-> [by |-> "player"]],
    [Passengers |-> <<Rider, Rider>>], [Passengers |-> <<Rider, Typical("ocelot")>>],
    [Passengers |-> <<Typical("experience_orb")>>], [Passengers |-> <<LeashedRider>>],
    [Passengers |-> <<Rode>>]>>

Sale(buyB) ==
  [buy |-> Item("emerald"), buyB |-> buyB, sell |-> Item("bread"), demand |-> 2,
   maxUses |-> 16, uses |-> 1, xp |-> 3, rewardExp |-> TRUE, priceMultiplier |-> 5,
   specialPrice |-> 0]

Offers == [Offers |-> <<Sale(Item("stick")), Sale(Item("air"))>>]

Rails == {10240, 10250, 10255, 10260, 10320}

Saddle == Item("saddle")

Chest == [ChestedHorse |-> TRUE, Items |-> <<In(2, "stick"), In(16, "bread")>>]

(* What an enderman takes away, and what falls. *)
Carried ==
  [name : {<<"grass_block">>, <<"mycelium">>, <<"podzol">>}, snowy : BOOLEAN]
    \cup [name : {<<"cactus">>}, age : {0, 7}]
    \cup [name : {<<"carved_pumpkin">>}, facing : {"north", "south", "west", "east"}]
    \cup [name : {<<"tnt">>}, unstable : BOOLEAN]
    \cup [name : {<<"melon">>}]

Falling ==
  [name : {<<"sand">>}]
    \cup [name : {<<"anvil">>, <<"chipped", "anvil">>, <<"damaged", "anvil">>},
          facing : {"north", "south", "west", "east"}]
    \cup [name : {<<"pointed_dripstone">>}, waterlogged : BOOLEAN,
          thickness : {"tip", "base"}, vertical_direction : {"up", "down"}]

(* For one. *)
Special ==
  <<<<"creeper", [powered : {TRUE}]>>, <<"hoglin", [CannotBeHunted : {TRUE}]>>,
    <<"piglin", [CannotHunt : {TRUE}]>>,
    <<"armor_stand", [Pose : 0..13, ShowArms : BOOLEAN]>>,
    <<"end_crystal", [BeamTarget : {<<1, 2, 3>>}]>>,
    <<"piglin_brute", [Brain : {[home |-> [dimension |-> 1, pos |-> <<1, 2, 3>>]]}]>>,
    <<"zombified_piglin", [AngryAt : {"player", "ares"}]>>,
    <<"iron_golem", [AngryAt : {"player", "ares"}]>>,
    <<"enderman", [carriedBlockState : Carried]>>,
    <<"falling_block", [BlockState : Falling]>>,
    <<"arrow", [Owner : {"player", "ares"}]>>,
    <<"cat", [Owner : {"player"}, CollarColor : {14, 3}]>>,
    <<"wolf", [Owner : {"ares"}, CollarColor : {14, 3}, Health : {4, 15, 21}]>>,
    <<"parrot", [Owner : {"ares"}, Age : {0, -100}]>>,
    <<"horse", [Owner : {"ares"}, Tame : BOOLEAN, SaddleItem : {Saddle},
                ArmorItem : {Item("stick"), Item("filled_map")}]>>,
    <<"horse", [ArmorItem : {Item("stick")}]>>,
    <<"donkey", And({Chest}, [Owner : {"ares"}, Tame : BOOLEAN, SaddleItem : {Saddle}])>>,
    <<"donkey", [SaddleItem : {Saddle}]>>,
    <<"mule", {Chest}>>,
    <<"llama", And({Chest}, [DecorItem : {[id |-> <<"red", "carpet">>, Count |-> 1]}])>>,
    <<"llama", [DecorItem : {[id |-> <<"red", "carpet">>, Count |-> 1]}]>>,
    <<"trader_llama", [DecorItem : {[id |-> <<"red", "carpet">>, Count |-> 1]}]>>,
    <<"trader_llama", [Owner : {"ares"}, Tame : BOOLEAN]>>,
    <<"camel", [SaddleItem : {Saddle}]>>, <<"strider", [Owner : {"ares"}]>>,
    <<"villager", {Offers}>>, <<"zombie_villager", {Offers}>>, <<"wandering_trader", {Offers}>>,
    <<"allay", [Brain : {<<>>}]>>,
    <<"boat", [Pos : {<<168, y, -72>> : y \in Rails}, OnGround : BOOLEAN]>>,
    <<"minecart", [Pos : {<<168, y, -72>> : y \in Rails}, OnGround : BOOLEAN]>>,
    <<"chest_minecart", [Pos : {<<168, y, -72>> : y \in Rails}, OnGround : BOOLEAN]>>,
    <<"item", [Item : {Item("stick")}, Thrower : {"ares"}]>>>>

(* A chest that no one has opened yet has no items. *)
Unopened ==
  And({Plain("chest_minecart")},
      [LootTable : {<<"minecraft", "shipwreck_map">>, <<"mod", "shipwreck_map">>},
       LootTableSeed : {3, 9}])

Frame(rotation, facing) ==
  [Rotation |-> rotation, Facing |-> facing, Tile |-> Tile, Air |-> 300, FallDistance |-> 0,
   Fixed |-> FALSE, Invisible |-> FALSE, Invulnerable |-> FALSE, OnGround |-> FALSE,
   PortalCooldown |-> 0]

Frames ==
  {Frame(FrameRotation[f], BedrockFacingDirectionAFromFacing6[f])
     @@ [Pos |-> FramePos(Tile, f)] : f \in DOMAIN FrameRotation}

FrameKinds == [id : {"item_frame", "glow_item_frame"}]

Held == [Item : {Item("stick"), Item("filled_map")}, ItemRotation : 0..7, ItemDropChance : {0, 1}]

-----------------------------------------------------------------------------
Changes == Common \o Optional

Changed ==
  {<<kind, i>> \in Kinds \X (1..Len(Changes)) :
     /\ kind = "painting" => DOMAIN Changes[i] \cap {"Pos", "Rotation"} = {}
     /\ i > Len(Common) \/ DOMAIN Changes[i] \subseteq DOMAIN Typical(kind)}

AllEntities ==
  [c \in Kinds \X {0} |-> {o @@ Plain(c[1]) : o \in OwnOf(c[1])}]
    @@ [c \in Changed |-> {Changes[c[2]] @@ Typical(c[1])}]
    @@ [c \in {<<Special[i][1], -i>> : i \in DOMAIN Special} |->
          {o @@ Typical(c[1]) : o \in Special[-c[2]][2]}]
    @@ <<"chest_minecart", 31>> :> Unopened
    @@ <<"item_frame", 1>> :> And(FrameKinds, Frames)
    @@ <<"item_frame", 2>> :> And(And(FrameKinds, Frames), Held)
=============================================================================
