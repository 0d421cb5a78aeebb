----------------------------- MODULE BlockTrip -----------------------------
(***************************************************************************)
(* What a Java block must keep when a world goes to Bedrock and back: the  *)
(* comparison of test/j2b2j.hpp (CheckBlock), less what the block data     *)
(* alone cannot decide because a later pass over the chunk does.           *)
(***************************************************************************)
EXTENDS Sequences, SequencesExt, FiniteSets

BB == INSTANCE BlockToBedrock
BJ == INSTANCE BlockToJava

(* No block entity comes with the block. *)
NoTile == [last_interacted_slot |-> 0]

ToBedrock(b) == BB!From(b, NoTile)

ToJava(b) == BJ!From(b)

-----------------------------------------------------------------------------
Kind(b) == Last(b.name)

Sides == {"north", "east", "south", "west"}

(* Properties that depend on the neighbours (stairs, leaves, fences, wire),*)
(* on the second layer (waterlogged) or on the block entity.               *)
SetByLaterPass ==
  [stairs |-> {"shape"}, leaves |-> {"distance"}, fence |-> Sides,
   stained_glass_pane |-> Sides, glass_pane |-> Sides, iron_bars |-> Sides,
   redstone_wire |-> Sides, tripwire |-> Sides, chest |-> {"type"},
   trapped_chest |-> {"type"}, piston |-> {"extended"},
   sticky_piston |-> {"extended"}, piston_head |-> {"short"},
   campfire |-> {"signal_fire"}, soul_campfire |-> {"signal_fire"},
   grass_block |-> {"snowy"}, mycelium |-> {"snowy"}, podzol |-> {"snowy"},
   jukebox |-> {"has_record"}, lectern |-> {"has_book"},
   note_block |-> {"note", "instrument"}, shulker_box |-> {"facing"},
   pumpkin_stem |-> {"facing"}, melon_stem |-> {"facing"}]

(* Properties CheckBlock passes over. *)
Unchecked ==
  [scaffolding |-> {"distance"}, repeater |-> {"locked"}, note_block |-> {"powered"},
   trapdoor |-> {"powered"}, fence_gate |-> {"powered"}, lectern |-> {"powered"},
   door |-> {"powered"}, lightning_rod |-> {"powered"},
   button |-> {"facing", "powered"}, fire |-> Sides \cup {"up"}, vine |-> {"up"},
   mangrove_propagule |-> {"stage"}]

Of(table, b) == IF Kind(b) \in DOMAIN table THEN table[Kind(b)] ELSE {}

(* Blocks whose Java name is in their block entity or their neighbours. *)
NamedElsewhere(b) ==
  \/ Kind(b) \in {"bed", "banner", "wall_banner", "skull", "head", "wall_skull",
                  "wall_head", "vines_plant", "kelp_plant", "cave_vines_plant",
                  "attached_pumpkin_stem", "attached_melon_stem", "spawner",
                  "moving_piston", "void_air"}
  \/ b.name[1] = "potted"

Compared(b) == DOMAIN b \ ({"waterlogged"} \cup Of(SetByLaterPass, b) \cup Of(Unchecked, b))

(* What CheckBlock asks of a block that went to Bedrock and back. *)
Survives(b, back) ==
  CASE b.name = <<"petrified_oak", "slab">> -> back.name = <<"oak", "slab">>
    [] b.name = <<"cave_air">> -> back.name = <<"air">>
    [] Kind(b) \in {"red_mushroom_block", "brown_mushroom_block", "sculk_sensor"} ->
         back.name = b.name
    [] OTHER ->
         /\ back.name = b.name
         /\ Compared(b) = Compared(back)
         /\ \A p \in Compared(b) : back[p] = b[p]

(* The state that no pass restores: a pressed oak plate is read from the   *)
(* misspelled restone_signal, those of mangrove and bamboo are written     *)
(* without it; an observer is written as powered_bit and read as powered;  *)
(* a weighted plate is written from powered, which it has not, and the     *)
(* target always reads 0.  Bedrock has no bottom, orientation or bare stem.*)
Loses(b) ==
  \/ /\ b.name \in {<<w, "pressure_plate">> : w \in {"oak", "mangrove", "bamboo"}}
                     \cup {<<"observer">>}
     /\ b.powered
  \/ /\ b.name \in {<<w, "weighted", "pressure_plate">> : w \in {"light", "heavy"}}
                     \cup {<<"target">>}
     /\ b.power > 0
  \/ b.name = <<"lever">> /\ b.face # "wall" /\ b.facing \in {"east", "south"}
  \/ b.name = <<"scaffolding">> /\ b.bottom # (b.distance > 0)
  \/ b.name \in {<<"jigsaw">>, <<"chorus_plant">>, <<"chiseled_bookshelf">>}
  \/ b.name = <<"mushroom_stem">> /\ {f \in BB!Faces : b[f]} \notin {BB!Faces, Sides}
=============================================================================
