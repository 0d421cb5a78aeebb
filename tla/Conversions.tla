---------------------------- MODULE Conversions ----------------------------
(***************************************************************************)
(* One thing of a world - job says what kind of thing - is converted from  *)
(* Java to Bedrock and back, twice: trip is its history, its odd entries   *)
(* in the Java form, its even ones in the Bedrock form.                    *)
(***************************************************************************)
EXTENDS Naturals, Sequences, SequencesExt, BlockTrip, TLC

CONSTANTS
  JavaBlocks,  \* the Java blocks: a sequence of sets, each of records of one shape
  JavaItems,   \* the Java items
  JavaTiles,   \* and the Java blocks with their block entities
  JavaEntities \* the Java entities, with their riders

E == INSTANCE EntityTrip
I == INSTANCE ItemTrip

-----------------------------------------------------------------------------
(* A Java block together with its block entity, tile, on the way to        *)
(* Bedrock and back: what the block alone does not say (BlockTrip) the     *)
(* block entity does - the plant in a pot, the mob of a skull, the colour  *)
(* of a bed.                                                               *)

Null == <<>>

Tiled(block, tile) == [block |-> block, tile |-> tile]

(* A spawner is no block to Bedrock but a block entity of its own.         *)
IsStandaloneTileEntity(tile) == tile # Null /\ tile.id = <<"mob_spawner">>

TileBlockToBedrock(t) ==
  Tiled(IF IsStandaloneTileEntity(t.tile) THEN [name |-> <<"mob_spawner">>]
        ELSE BB!From(t.block, t.tile),
        I!TB!From(t.block, t.tile))

Changed(blockJ, result) ==
  Tiled(IF result.block = Null THEN blockJ ELSE result.block, result.tile)

WithBlock(t, blockJ) ==
  IF t.tile = Null THEN Tiled(blockJ, Null)
  ELSE Changed(blockJ, I!TJ!FromBlockAndBlockEntity(t.block, t.tile, blockJ))

TileBlockToJava(t) == WithBlock(t, BJ!From(t.block))

-----------------------------------------------------------------------------
(* What even the block entity does not say: the neighbours do, or nothing. *)
SetByNeighbours ==
  [campfire |-> {"signal_fire"}, soul_campfire |-> {"signal_fire"},
   note_block |-> {"instrument"}, sculk_sensor |-> {"power", "sculk_sensor_phase"}]

BlockOfTileSurvives(b, back) ==
  LET compared == DOMAIN b \ ({"waterlogged"} \cup Of(Unchecked, b) \cup Of(SetByNeighbours, b))
  IN back.name = b.name /\ \A p \in compared : p \in DOMAIN back /\ back[p] = b[p]

(* CheckBlock, and CheckTileEntity if there is a block entity: a note block*)
(* and a pot have none in Java.                                            *)
TiledSurvives(t, back) ==
  /\ BlockOfTileSurvives(t.block, back.block)
  /\ IF t.tile = Null THEN back.tile = Null
     ELSE back.tile # Null /\ I!TileSurvives(t.tile, back.tile)

(* With its block entity a chiseled bookshelf loses nothing. *)
LosesTiled(t) ==
  \/ Loses(t.block) /\ Kind(t.block) # "chiseled_bookshelf"
  \/ t.tile # Null /\ I!LosesTile(t.tile)

-----------------------------------------------------------------------------
VARIABLES job, trip

vars == <<job, trip>>

Init ==
  \/ job = "block" /\ \E i \in DOMAIN JavaBlocks : \E b \in JavaBlocks[i] : trip = <<b>>
  \/ job = "item" /\ \E i \in DOMAIN JavaItems : \E b \in JavaItems[i] : trip = <<b>>
  \/ job = "tile" /\ \E i \in DOMAIN JavaTiles : \E b \in JavaTiles[i] : trip = <<b>>
  \/ job = "entity" /\ \E i \in DOMAIN JavaEntities : \E e \in JavaEntities[i] : trip = <<e>>

Leg(n) == Len(trip) = n

BlockToBedrock ==
  /\ job = "block"
  /\ Leg(1) \/ Leg(3)
  /\ trip' = Append(trip, ToBedrock(Last(trip)))
  /\ UNCHANGED job

BlockToJava ==
  /\ job = "block"
  /\ Leg(2) \/ Leg(4)
  /\ trip' = Append(trip, ToJava(Last(trip)))
  /\ UNCHANGED job

(* An item that has no Bedrock form, a map without a file, is dropped.     *)
ItemToBedrock ==
  /\ job = "item"
  /\ Leg(1) \/ Leg(3)
  /\ \E b \in {I!ItemToBedrock(Last(trip))} \ {I!Null} : trip' = Append(trip, b)
  /\ UNCHANGED job

ItemToJava ==
  /\ job = "item"
  /\ Leg(2) \/ Leg(4)
  /\ trip' = Append(trip, I!ItemToJava(Last(trip)))
  /\ UNCHANGED job

TileToBedrock ==
  /\ job = "tile"
  /\ Leg(1) \/ Leg(3)
  /\ \E t \in {TileBlockToBedrock(Last(trip))} : trip' = Append(trip, t)
  /\ UNCHANGED job

TileToJava ==
  /\ job = "tile"
  /\ Leg(2) \/ Leg(4)
  /\ \E t \in {TileBlockToJava(Last(trip))} : trip' = Append(trip, t)
  /\ UNCHANGED job

(* An entity that the other edition does not have is lost.                 *)
EntityToBedrock ==
  /\ job = "entity"
  /\ (Leg(1) \/ Leg(3)) /\ Last(trip) # E!Null
  /\ \E b \in {E!EntityToBedrock(Last(trip))} : trip' = Append(trip, b)
  /\ UNCHANGED job

EntityToJava ==
  /\ job = "entity"
  /\ (Leg(2) \/ Leg(4)) /\ Last(trip) # E!Null
  /\ \E e \in {E!EntityToJava(Last(trip))} : trip' = Append(trip, e)
  /\ UNCHANGED job

Next ==
  \/ BlockToBedrock \/ BlockToJava
  \/ ItemToBedrock \/ ItemToJava
  \/ TileToBedrock \/ TileToJava
  \/ EntityToBedrock \/ EntityToJava

Spec == Init /\ [][Next]_vars

-----------------------------------------------------------------------------
(* A block that has been to Bedrock and back is the block it was, in every *)
(* property that CheckBlock of test/j2b2j.hpp compares and the block data  *)
(* decides, unless it is one of those that Loses names; and it names no    *)
(* other.                                                                  *)
BlockKept ==
  job = "block" /\ Len(trip) >= 3 /\ ~NamedElsewhere(trip[1])
    => (Survives(trip[1], trip[3]) <=> ~Loses(trip[1]))

(* An item that has been to Bedrock and back passes CheckItem of           *)
(* test/j2b2j.hpp unless it is one of those that LosesItem names.          *)
ItemKept ==
  job = "item" /\ Len(trip) >= 3
    => (I!ItemSurvives(trip[1], trip[3]) <=> ~I!LosesItem(trip[1]))

(* A block entity that has been to Bedrock and back passes CheckTileEntity,*)
(* and its block, which may be named by it, CheckBlock, unless it is one   *)
(* of those that LosesTiled names.                                         *)
TileKept ==
  job = "tile" /\ Len(trip) >= 3
    => (TiledSurvives(trip[1], trip[3]) <=> ~LosesTiled(trip[1]))

(* An entity that has been to Bedrock and back passes CheckEntity of       *)
(* test/j2b2j.hpp, with all who ride it and the leash it is tied by, unless*)
(* it is one of those that LosesEntity names: those that are dropped on    *)
(* the way among them.                                                     *)
EntityKept ==
  job = "entity" /\ (Leg(3) \/ Last(trip) = E!Null)
    => (Last(trip) # E!Null /\ E!EntitySurvives(trip[1], Last(trip))
          <=> ~E!LosesEntity(trip[1]))

(* What the first trip changes, the second changes further: scaffolding,   *)
(* whose bottom is read from the distance that toje does not write; bees,  *)
(* which only the second trip drops; the banner without patterns, which    *)
(* gets a block entity first and a list of patterns then; the entities that*)
(* DriftsEntity names.                                                     *)
Drifts(t) ==
  \/ job = "block" /\ Kind(t) = "scaffolding"
  \/ job = "tile" /\ t.tile # <<>> /\ I!Field(t.tile, "Bees", <<>>) # <<>>
  \/ job = "item" /\ I!Kind(t) = "banner" /\ I!GainsHeld(t)
  \/ job = "entity" /\ E!DriftsEntity(t)

(* What the first trip changes, the second does not change further, but    *)
(* for what Drifts: worlds that are converted back and forth stay the same.*)
Settles == Leg(5) /\ ~Drifts(trip[1]) => trip[5] = trip[3]
=============================================================================
