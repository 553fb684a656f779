SPECIFICATION Spec
CONSTANTS
  CorePaths <- MCCorePaths
  ProductPaths <- MCProductPaths
  MaxRoutes = 3
  MaxPages = 1
  Capacity = 1
  MaxLength = 3
  MaxCalls = 3
  Recycles = TRUE
INVARIANT TableServed
PROPERTIES ExchangesClean StopReturns
CHECK_DEADLOCK FALSE
