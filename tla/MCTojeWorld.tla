---------------------------- MODULE MCTojeWorld ----------------------------
(***************************************************************************)
(* The instance of TojeWorld that TLC checks: a dimension of two regions,  *)
(* one of them with two chunks, and a second dimension of one chunk; a     *)
(* boat, the player and a chicken that may ride it, a zombie that may ride *)
(* the chicken, a llama on a lead, and a parrot on the shoulder.           *)
(***************************************************************************)
EXTENDS TojeWorld

MCDims == << << <<"a1", "a2">>, <<"b1">> >>, << <<"n1">> >> >>

Seats(boat, hen) ==
  [e \in Entities |-> IF e = "boat" THEN boat ELSE IF e = "hen" THEN hen ELSE <<>>]

Positions(boat, hen, zombie, parrot) ==
  [boat |-> boat, hen |-> hen, zombie |-> zombie, llama |-> "a1", parrot |-> parrot]

MCWorlds ==
  {[at |-> Positions(boat, hen, zombie, parrot), links |-> Seats(deck, back),
    leashed |-> {"llama"}, knot |-> knot, shoulder |-> shoulder, reaches |-> reaches] :
     boat \in {"a1", "n1"}, hen \in {"a1", "b1", "n1"}, zombie \in {"a1", "a2"},
     parrot \in {"a2"}, knot \in {"a1", "a2", "b1"}, shoulder \in {"parrot", None},
     deck \in {<<>>, <<Player>>, <<"hen", Player>>, <<"hen", "zombie">>, <<Player, "llama">>},
     back \in {<<>>, <<"zombie">>, <<Player>>}, reaches \in BOOLEAN}

\* Who rides, rides once.
MCLegal ==
  {v \in MCWorlds : Range(v.links["boat"]) \cap Range(v.links["hen"]) = {}}
=============================================================================
