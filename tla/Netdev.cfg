SPECIFICATION Spec
CONSTANTS
  PoolSizes = {1, 2}
  Weight = 1
  UseNapi = {TRUE, FALSE}
  RegisterFails = {0}
  MaxFrames <- TwoAndOne
  MaxLinks = 2
INVARIANTS Conserved PassedInOrder NoUseAfterFree FrameHasTaker WakeComing
