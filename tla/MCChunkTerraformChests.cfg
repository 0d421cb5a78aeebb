CONSTANTS
  XboxWorlds <- NoWorlds
  BedrockWorlds <- MCBedrockChests
  ChunkWidth = 2
  JavaWorlds <- NoWorlds
  LitWidth = 3
  RegionWidth = 3
  Height = 3
  Brightest = 3
SPECIFICATION Spec
INVARIANT ChestsKeepItems
CHECK_DEADLOCK FALSE
