CONSTANTS
  XboxWorlds <- MCXboxWorlds
  BedrockWorlds <- MCBedrockWorlds
  ChunkWidth = 2
  JavaWorlds <- MCJavaWorlds
  LitWidth = 3
  RegionWidth = 3
  Height = 3
  Brightest = 3
SPECIFICATION Spec
INVARIANTS
  OrderIrrelevant
  NeighboursAgree
  LeavesAtShortestDistance
  LightIsBrightest
CHECK_DEADLOCK FALSE
