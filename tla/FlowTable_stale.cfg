SPECIFICATION Spec
CONSTANTS
  k1 = k1
  k2 = k2
  k3 = k3
  Keys <- Keys3
  Hash <- HashWrap
  NoKey = NoKey
  Capacity = 2
  ProbeLimit = 2
  WeakCas = FALSE
  StaleKeys = TRUE
INVARIANT OwnFlow
