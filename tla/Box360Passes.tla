---------------------------- MODULE Box360Passes ----------------------------
(***************************************************************************)
(* box360::Terraform::DoChunk (src/src/box360-terraform.cpp) and the       *)
(* passes of src/src/terraform/box360/: a chunk of a world that came from  *)
(* an Xbox 360 is rewritten in place, one pass after the other, and a pass *)
(* sees what the earlier passes, and earlier chunks, have written.         *)
(***************************************************************************)
EXTENDS TerraformPasses

\* Mutant: a chest looks for a partner that has none yet.
DoChestFirstCome(out, cache, p) ==
  LET b == out.blocks[p]
      IsPair(v) ==
        LET n == BlockAt(cache, At(p, v))
        IN n.name = b.name /\ n.facing = b.facing /\ Get(n, "type", "single") = "single"
      type == IF IsPair(Right90(FacingVec(b))) THEN "left"
              ELSE IF IsPair(Left90(FacingVec(b))) THEN "right" ELSE "single"
  IN IF Get(b, "type", "single") \in {"left", "right"} THEN out
     ELSE Replace(out, p, Applying(b, [type |-> type]))

(* The chest on its right decides last. *)
DoChest(out, cache, p) ==
  LET b == out.blocks[p]
      IsPair(v) ==
        LET n == BlockAt(cache, At(p, v)) IN n.name = b.name /\ n.facing = b.facing
      type == IF IsPair(Right90(FacingVec(b))) THEN "left"
              ELSE IF IsPair(Left90(FacingVec(b))) THEN "right" ELSE "single"
  IN IF Get(b, "type", "single") \in {"left", "right"} THEN out
     ELSE Replace(out, p, Applying(b, [type |-> type]))

(* The kelp of the console is all stem: the top of a column is its tip.    *)
DoKelp(start, out, p) ==
  IF HasProperty(start, Above(p), "KELP") THEN out
  ELSE SetBlockAt(out, p, [name |-> <<"kelp">>])

AttachedStem ==
  [melon |-> <<"attached_melon_stem">>, pumpkin |-> <<"attached_pumpkin_stem">>]

(* A stem holds the first crop it finds, clockwise from the north.         *)
DoAttachedStem(crop, out, p) ==
  LET Holds(d) == BlockAt(out.blocks, At(p, Nesw[d])).name = <<crop>>
      held == SelectSeq(<<"north", "east", "south", "west">>, Holds)
  IN IF held = <<>> THEN out
     ELSE SetBlockAt(out, p, [name |-> AttachedStem[crop], facing |-> Head(held)])

Passes ==
  <<"STAIRS", "FENCE", "GLASS_PANE_OR_IRON_BARS", "REDSTONE_WIRE", "CHORUS_PLANT", "WALL",
    "KELP", "SNOWY", "MELON_STEM", "PUMPKIN_STEM", "LEAVES", "CHEST", "NOTE_BLOCK">>

(* What a pass does to one of its blocks. *)
DoBlock(pass, start, out, p) ==
  CASE pass = "STAIRS" -> DoShapeOfStairs(out, out.blocks, p)
    [] pass = "FENCE" -> DoFence(out, out.blocks, p)
    [] pass = "GLASS_PANE_OR_IRON_BARS" -> DoGlassPaneOrIronBars(out, out.blocks, p)
    [] pass = "REDSTONE_WIRE" -> DoRedstoneWire(out, out.blocks, p)
    [] pass = "CHORUS_PLANT" -> DoChorusPlant(out, out.blocks, p)
    [] pass = "WALL" -> DoWall(out, out.blocks, p)
    [] pass = "KELP" -> DoKelp(start, out, p)
    [] pass = "SNOWY" -> DoSnowy(out, out.blocks, p)
    [] pass = "MELON_STEM" -> DoAttachedStem("melon", out, p)
    [] pass = "PUMPKIN_STEM" -> DoAttachedStem("pumpkin", out, p)
    [] pass = "CHEST" -> DoChest(out, out.blocks, p)
    [] pass = "NOTE_BLOCK" -> DoNoteBlock(out, p)

(* Its blocks are those of the chunk (mine), by the properties at the start.*)
DoPass(pass, start, out, mine) ==
  LET its == Having(pass, start, mine)
  IN IF pass = "LEAVES" THEN DoLeaves(out, out.blocks, its)
     ELSE Scan(LAMBDA o, p : DoBlock(pass, start, o, p), out, its)

DoChunk(w, mine) ==
  FoldLeft(LAMBDA out, pass : DoPass(pass, w.blocks, out, mine), w, Passes)
=============================================================================
