\* Three requests for up to three stores, one of them spelled in two ways.
CONSTANTS
  Requests = {r1, r2, r3}
  Sites = {"a", "b", "c"}
  Urls <- ThreeStores
  MaxConcurrent = 2
  Stages = 2
  Free = Free
  Reserved = Reserved
SYMMETRY RequestSymmetry
SPECIFICATION SafeSpec
INVARIANTS
  OneRunPerStore
  RegistryExact
  CapRespected
