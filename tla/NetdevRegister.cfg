SPECIFICATION Spec
CONSTANTS
  PoolSizes = {1}
  Weight = 1
  UseNapi = {TRUE, FALSE}
  RegisterFails = {1}
  MaxFrames <- TwoAndOne
  MaxLinks = 2
INVARIANTS NoUseAfterFree
