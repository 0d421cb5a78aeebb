--------------------------- MODULE MCConversions ---------------------------
(* The Java blocks of MCBlocks, the items and block entities of MCItems    *)
(* and the entities of MCEntities.                                         *)
EXTENDS Conversions

B == INSTANCE MCBlocks

MCJavaBlocks == B!AllBlocks

MCI == INSTANCE MCItems

MCJavaItems == MCI!AllItems

MCJavaTiles == MCI!AllTiles

MCE == INSTANCE MCEntities

MCJavaEntities == MCE!AllEntities
=============================================================================
