CONSTANTS
  Workers = {w1, w2}
  Dims = {0, 1}
  ChunksIn <- MCChunksIn
  Faults = {"open", "chunk", "write", "cancel"}
  None = None
SPECIFICATION Spec
INVARIANTS
  OneWorkerPerRegion
  AllTerraformed
PROPERTIES
  WrittenOnce
  StepsUsedUp
  Termination
