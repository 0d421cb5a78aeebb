CONSTANTS
  JavaBlocks <- MCJavaBlocks
  JavaItems <- MCJavaItems
  JavaTiles <- MCJavaTiles
  JavaEntities <- MCJavaEntities
SPECIFICATION Spec
INVARIANTS
  BlockKept
  ItemKept
  TileKept
  EntityKept
  Settles
CHECK_DEADLOCK FALSE
