\* In a grid of 4 x 2 two 3 x 3 neighbourhoods fit side by side (x = 0 and x = 3)
\* while most pairs of chunks exclude one another: the two workers meet both a
\* second chunk to take and nothing left that is unlocked.
CONSTANTS
  Workers = {w1, w2}
  Width = 4
  Height = 2
  MaxUnread = 2
  None = None
SPECIFICATION Spec
INVARIANTS
  NoTornRead
  LocksAreHeld
  NoStrandedChunk
  OkMeansTerraformed
PROPERTIES
  RewrittenOnce
  StepsUsedUp
  Termination
