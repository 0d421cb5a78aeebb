CONSTANTS
  c1 = c1  c2 = c2  c3 = c3  c4 = c4  c5 = c5
  r1 = r1  r2 = r2  r3 = r3
  a1 = a1  a2 = a2  a3 = a3
  Dims <- MCDims
  Regions <- MCRegions
  DimOf <- MCDimOf
  ChunksOf <- MCChunksOf
  Absent <- MCAbsent
  Actors <- MCActors
  HeldBy <- MCHeldBy
  StandsIn <- MCStandsIn
  Concurrency = 2
  Faults = {"throw"}
  Missing = Missing
SPECIFICATION Spec
INVARIANT OkMeansAllConverted
