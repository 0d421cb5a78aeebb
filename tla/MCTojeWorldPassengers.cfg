CONSTANTS
  Workers = {w1, w2}
  Dims <- MCDims
  Entities = {"boat", "hen", "zombie", "llama", "parrot"}
  Player = "player"
  Worlds <- MCLegal
  Faults = {"cancel", "region", "attach", "terraform"}
  None = "none"
SPECIFICATION Spec
INVARIANTS
  PlayerStillRides
