CONSTANTS
  Workers = {w1, w2}
  Dims = {0, 1}
  ChunksIn <- MCChunksIn
  Faults = {"open", "chunk"}
  None = None
SPECIFICATION Spec
INVARIANT OkMeansTerraformed
