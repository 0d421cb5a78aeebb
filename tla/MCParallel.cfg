CONSTANTS
  NWorks = 3
  Helpers = {h1, h2}
  Caller = c
  NoResult = NoResult
SPECIFICATION Spec
INVARIANTS
  TypeOK
  AtMostOnce
  ResultsConserved
  CompleteOnReturn
  NoUseAfterReturn
PROPERTIES
  Termination
  ImplementsPool
