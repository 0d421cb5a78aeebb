------------------------------ MODULE EntityTrip ------------------------------
(***************************************************************************)
(* What a Java entity, with its riders and its leash, must keep when a     *)
(* world goes to Bedrock and back: CheckEntity of test/j2b2j.hpp.          *)
(***************************************************************************)
EXTENDS EntityTables

I == INSTANCE ItemTrip

B == INSTANCE BlockTrip

(* The world that is converted. *)
GameTick == 1000

Difficulty == 2

TB(items, blocks) == INSTANCE EntityToBedrock WITH ItemFrom <- items, BlockFrom <- blocks
TJ(items, blocks) == INSTANCE EntityToJava WITH ItemFrom <- items, BlockFrom <- blocks

(* The kinds of entities, whatever they hold. *)
K == INSTANCE EntityToBedrock WITH ItemFrom <- <<>>, BlockFrom <- <<>>

Fields(r, names) == {r[f] : f \in names \cap DOMAIN r}

Listed(r, names) == UNION {{r[f][k] : k \in DOMAIN r[f]} : f \in names \cap DOMAIN r}

(* What an entity, or the block entity of a frame, holds and trades.       *)
HeldItems(e) ==
  (Listed(e, {"ArmorItems", "HandItems", "Inventory", "Items"})
     \cup Fields(e, {"SaddleItem", "ArmorItem", "DecorItem", "Item"})) \ {<<>>}

ItemsInJava(e) ==
  HeldItems(e)
    \cup UNION {Fields(offer, {"buy", "buyB", "sell"}) : offer \in Listed(e, {"Offers"})}

ItemsInBedrock(b) ==
  Fields(b, {"Mainhand", "Offhand", "Item"}) \cup Listed(b, {"Armor", "ChestItems"})
    \cup UNION {Fields(offer, {"buyA", "buyB", "sell"}) :
                  offer \in Listed(b, {"Offers", "persistingOffers"})}

HeldBlocks(entities) ==
  UNION {Fields(one, {"carriedBlockState", "BlockState"}) : one \in entities}

(* A frame becomes a block with a block entity, an entity comes with those *)
(* that ride it and the knot it is tied to.                                *)
BedrockOf(e, items, blocks) ==
  LET b == TB(items, blocks)!From(e)
  IN CASE e.id \in DOMAIN K!Frames ->
            [block |-> K!ToItemFrameTileEntityBlock(e),
             tile |-> TB(items, blocks)!ToItemFrameTileEntityData(e)]
       [] e.id \notin DOMAIN K!Frames /\ b # Null ->
            [entity |-> b, passengers |-> TB(items, blocks)!Passengers(e), knot |-> K!Knot(e)]
       [] OTHER -> Null

JavaOf(b, items, blocks) ==
  LET leashed(one, knot) ==
        LET e == TJ(items, blocks)!From(one)
        IN IF e = Null THEN Null ELSE TJ(items, blocks)!AttachLeash(one, knot) @@ e
  IN IF Has(b, "tile") THEN TJ(items, blocks)!ItemFrameFromBedrock(b.block, b.tile)
     ELSE LET e == leashed(b.entity, b.knot)
          IN IF e = Null THEN Null
             ELSE TJ(items, blocks)!AttachPassengers(
                    e, Each(LAMBDA p : leashed(p, {}), b.passengers))

EntityToBedrock(e) ==
  LET all == {e} \cup Listed(e, {"Passengers"})
  IN BedrockOf(e,
       [i \in UNION {ItemsInJava(one) : one \in all} |-> I!ItemToBedrock(i)],
       [s \in {K!NameOnly(held) : held \in HeldBlocks(all)} |-> B!ToBedrock(s)])

EntityToJava(b) ==
  LET all == Fields(b, {"tile", "entity"}) \cup Listed(b, {"passengers"})
  IN JavaOf(b,
       [i \in UNION {ItemsInBedrock(one) : one \in all} |-> I!ItemToJava(i)],
       [s \in UNION {Fields(one, {"carriedBlock", "FallingBlock"}) : one \in all} |->
          B!ToJava(s)])

-----------------------------------------------------------------------------
(* What CheckEntity passes over, or compares on its own. *)
UncheckedIn(e) ==
  {"Pos", "Attributes", "Owner", "Item", "Passengers", "Brain", "Inventory", "Leash"}
    \cup CASE e.id = "armor_stand" -> {"Pose", "Health"}
           [] e.id = "llama" -> {"Temper"}
           [] e.id = "iron_golem" -> {"AngerTime", "AngryAt"}
           [] e.id = "zombified_piglin" -> {"AngerTime", "AngryAt", "CanBreakDoors"}
           [] e.id = "zombie_villager" -> {"InWaterTime", "IsBaby"}
           [] e.id = "piglin" -> {"IsBaby"}
           [] e.id = "chest_minecart" -> {"LootTableSeed"}
           [] e.id = "zombie" -> {"CanBreakDoors", "InWaterTime"}
           [] e.id = "falling_block" -> {"FallDistance"}
           [] e.id = "item" -> {"PickupDelay"}
           [] OTHER -> {}

PlaceSurvives(e, back) ==
  \A i \in 1..3 : e.Pos[i] = back.Pos[i] \/ (i = 2 /\ e.id \in {"armor_stand", "chest_minecart"})

SameFields(e, back, fields) == \A f \in fields : Has(e, f) <=> Has(back, f)

ItemsSurvive(s, back) ==
  Len(s) = Len(back) /\ \A k \in DOMAIN s : I!ItemSurvives(s[k], back[k])

(* Of a brain, whether someone is liked; of a leash, the post.             *)
BoundAlike(e, back) ==
  /\ SameFields(e, back, {"Brain", "Leash"})
  /\ SameFields(Field(e, "Brain", <<>>), Field(back, "Brain", <<>>), {"liked_player"})
  /\ Without(Field(e, "Leash", <<>>), {"by"}) = Without(Field(back, "Leash", <<>>), {"by"})
  /\ e.id = "zombified_piglin" => SameFields(e, back, {"AngryAt"})
  /\ e.id = "piglin" => Field(e, "IsBaby", FALSE) = Field(back, "IsBaby", FALSE)

HoldsAlike(e, back) ==
  LET items(r) == Field(r, "Inventory", <<>>)
                    \o (IF Has(e, "Item") /\ Has(r, "Item") THEN <<r.Item>> ELSE <<>>)
  IN SameFields(e, back, {"Inventory"}) /\ ItemsSurvive(items(e), items(back))

RECURSIVE EntitySurvives(_, _)

EntitySurvives(e, back) ==
  /\ e.id = back.id
  /\ PlaceSurvives(e, back)
  /\ Without(e, UncheckedIn(e)) = Without(back, UncheckedIn(e))
  /\ BoundAlike(e, back)
  /\ HoldsAlike(e, back)
  /\ SameFields(e, back, {"Passengers"})
  /\ Has(e, "Passengers") =>
       /\ Len(e.Passengers) = Len(back.Passengers)
       /\ \A k \in DOMAIN e.Passengers : EntitySurvives(e.Passengers[k], back.Passengers[k])

-----------------------------------------------------------------------------
(* The entities that do change, by what the code does not keep. *)

(* What toje writes whatever the Bedrock entity says. *)
Fresh ==
  [AbsorptionAmount |-> 0, FallFlying |-> FALSE, InLove |-> 0,
   DrownedConversionTime |-> -1, CanBreakDoors |-> FALSE, InWaterTime |-> -1,
   StrayConversionTime |-> -1, ExplosionRadius |-> 3, ignited |-> FALSE,
   DisabledSlots |-> 0, Invisible |-> FALSE, NoBasePlate |-> FALSE, Small |-> FALSE,
   TransferCooldown |-> 0, AngerTime |-> 0, NoGravity |-> TRUE,
   CannotEnterHiveTicks |-> 0, CropsGrownSincePollination |-> 0, HasStung |-> FALSE,
   Crouching |-> FALSE, Bred |-> FALSE, PatrolLeader |-> FALSE, Patrolling |-> FALSE,
   Wave |-> 0, SpellTicks |-> 0, ExplosionPower |-> 1, RoarTick |-> 0, StunTick |-> 0,
   SkeletonTrapTime |-> 0, DarkTicksRemaining |-> 0, FoodLevel |-> 0,
   ConversionTime |-> -1, Invul |-> 0, CanDuplicate |-> TRUE, Fixed |-> FALSE]

StartsAnew(e) ==
  \/ \E f \in (DOMAIN Fresh \cap DOMAIN e) \ UncheckedIn(e) : e[f] # Fresh[f]
  \/ e.id = "phantom" /\ e.Size # 0
  \/ e.id = "creeper" /\ e.Fuse # 30
  \/ e.id = "camel" /\ e.Temper # 0
  \/ e.id = "axolotl" /\ ~e.FromBucket
  \/ e.id = "chicken" /\ (e.IsChickenJockey <=> ~Has(e, "Passengers"))

(* Kinds that toje does not know, and an item that is none. *)
HasNoForm(e) ==
  \/ e.id \in {"experience_orb", "ocelot", "dolphin", "vindicator"}
  \/ e.id = "item" /\ (~Has(e, "Item") \/ I!IsDropped(e.Item))

(* The entities of blocks have neither a name nor a leash. *)
OfBlocks == OfBase

LosesName(e) ==
  /\ Has(e, "CustomName")
  /\ e.id \in OfBlocks \cup DOMAIN K!Frames \/ ~I!IsName(e.CustomName)

LosesLeash(e) == Has(e, "Leash") /\ e.id \notin K!Animals

(* Bedrock has its maximum; the health of the wither is a proportion.      *)
MaxHealth(e) ==
  CASE e.id \in {"horse", "donkey", "mule", "skeleton_horse", "zombie_horse"} ->
         Field(Field(e, "Attributes", <<>>), "max_health", 15)
    [] e.id \in {"slime", "magma_cube"} -> (e.Size + 1) ^ 2
    [] e.id = "wolf" -> IF Has(e, "Owner") THEN 20 ELSE 8
    [] e.id = "wither" -> 300
    [] OTHER -> TableHealth(e.id)

LosesHealth(e) ==
  /\ Has(e, "Health")
  /\ e.id \notin OfBlocks
  /\ e.Health > MaxHealth(e)

(* Only the young have an age in Bedrock, and not of every kind.           *)
LosesAge(e) ==
  \/ Has(e, "Age") /\ e.id \notin {"item", "tadpole"}
       /\ \/ e.Age > 0
          \/ e.Age < 0 /\ e.id \notin K!AgeableA \cup K!AgeableC \cup {"villager"}
  \/ Has(e, "IsBaby") /\ e.IsBaby /\ e.id = "husk"

LosesHeld(e) == \E i \in HeldItems(e) : I!IsDropped(i) \/ I!LosesItem(i)

(* Without a chest a beast of burden loses what it wears, and a llama its  *)
(* armor in any case; the saddle is always the same.                       *)
LosesGear(e) ==
  \/ e.id \in {"donkey", "mule", "llama", "trader_llama"} /\ Has(e, "ChestedHorse")
       /\ ~e.ChestedHorse /\ \E f \in {"SaddleItem", "DecorItem"} : Has(e, f)
  \/ e.id = "trader_llama" /\ (e.ChestedHorse \/ Has(e, "Items"))
  \/ e.id \in {"llama", "trader_llama"} /\ e.ArmorItems[3] # <<>>

(* Boats and minecarts lie on the block below them, or hang on a rail.     *)
LosesHeight(e) ==
  LET dy == e.Pos[2] - FloorOf(e.Pos[2])
  IN \/ e.id \in K!Hulls \cup {"minecart", "tnt_minecart", "hopper_minecart"}
          /\ e.OnGround /\ dy # 0
     \/ e.id \in {"minecart", "tnt_minecart", "hopper_minecart"} /\ ~e.OnGround
          /\ dy \in 11..19 \cup {80}

(* A Bedrock armor stand shows its arms when it has a pose.                *)
LosesArms(e) ==
  /\ e.id = "armor_stand"
  /\ LET posed == Has(e, "Pose") /\ e.Pose \in Poses
     IN IF e.ShowArms THEN ~posed ELSE posed /\ e.Pose # Straight

(* A Byte is too small for these. *)
LosesByte(e) ==
  \/ e.id \in {"slime", "magma_cube"} /\ e.Size > 126
  \/ e.id = "tnt_minecart" /\ e.TNTFuse > 127

(* Bedrock tells the horns by their number, the level of a villager by his *)
(* experience, a collar by the owner; a dragon that dies loses its phase   *)
(* and the time that other entities have.                                  *)
LosesLooks(e) ==
  \/ e.id = "goat" /\ e.HasRightHorn /\ ~e.HasLeftHorn
  \/ e.id \in {"villager", "zombie_villager"}
       /\ \/ e.VillagerData.level # K!TradeTier(e.Xp) + 1
          \/ e.VillagerData.profession \notin DOMAIN VillagerProfessionVariant \cup {"none"}
  \/ e.id \in {"cat", "wolf"} /\ ~Has(e, "Owner") /\ e.CollarColor # 14
  \/ e.id = "rabbit" /\ e.RabbitType = 99
  \/ e.id = "fox" /\ e.Sitting
  \/ e.id = "ender_dragon" /\ (e.DragonPhase # 0 \/ e.DragonDeathTime > 0)

(* Only the living breathe in Bedrock. *)
LosesAir(e) == e.id \in OfBlocks \ {"armor_stand"} /\ e.Air # 300

(* How a block is that Java is told no more of than the name.              *)
NewlyPlaced ==
  [facing |-> "south", age |-> 0, snowy |-> FALSE, unstable |-> FALSE,
   waterlogged |-> FALSE, thickness |-> "tip", vertical_direction |-> "down"]

LosesState(block) ==
  \E p \in DOMAIN block \ {"name"} : block[p] # NewlyPlaced[p]

(* Who dropped an item is not told; an allay that likes no one is said to  *)
(* like somebody; of a carried or falling block only the name is told, so  *)
(* that it is as one newly placed; a loot table is one of the game's own.  *)
LosesTies(e) ==
  \/ e.id = "item" /\ Has(e, "Thrower")
  \/ e.id = "allay" /\ ~Has(e.Brain, "liked_player")
  \/ \E held \in HeldBlocks({e}) : LosesState(held)
  \/ Has(e, "LootTable") /\ e.LootTable[1] # "minecraft"

(* Who tames, Bedrock knows by the owner, and of some not at all.          *)
LosesTaming(e) ==
  /\ Has(e, "Tame")
  /\ e.Tame # CASE e.id = "camel" -> TRUE
               [] e.id \in {"skeleton_horse", "zombie_horse", "trader_llama"} -> FALSE
               [] OTHER -> Has(e, "Owner")

LosesTemper(e) ==
  /\ e.id \in {"skeleton_horse", "zombie_horse", "trader_llama"} /\ e.Temper # 0

LosesOwn(e) ==
  \/ HasNoForm(e) \/ StartsAnew(e) \/ LosesName(e) \/ LosesLeash(e) \/ LosesHealth(e)
  \/ LosesAge(e) \/ LosesHeld(e) \/ LosesGear(e) \/ LosesHeight(e) \/ LosesArms(e)
  \/ LosesByte(e) \/ LosesAir(e) \/ LosesTies(e) \/ LosesLooks(e) \/ LosesTaming(e)
  \/ LosesTemper(e)

(* Only some kinds are ridden in Bedrock, the knot of a rider is not made, *)
(* nor are those who ride the rider.                                       *)
LosesRiders(e) ==
  LET riders == Listed(e, {"Passengers"})
  IN \/ riders # {} /\ e.id \notin Vehicles
     \/ \E rider \in riders : K!Knot(rider) # {} \/ Has(rider, "Passengers")

LosesEntity(e) ==
  \/ \E one \in {e} \cup Listed(e, {"Passengers"}) : LosesOwn(one)
  \/ LosesRiders(e)

(* What is lost in two steps: the list of riders none of whom toje knows,  *)
(* before that they themselves; a fuse that is too long for a Byte, which  *)
(* is negative first and none then; arms in the pose without a tag.        *)
DriftsEntity(e) ==
  \/ /\ e.id \in Vehicles /\ Has(e, "Passengers")
     /\ \A k \in DOMAIN e.Passengers : HasNoForm(e.Passengers[k])
  \/ e.id = "tnt_minecart" /\ e.TNTFuse > 127
  \/ e.id = "armor_stand" /\ e.ShowArms /\ Field(e, "Pose", 0) = Straight
=============================================================================
