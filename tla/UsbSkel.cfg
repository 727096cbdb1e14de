SPECIFICATION Spec
CONSTANTS
  MaxTicks = 2
  Files = {f1, f2}
  MaxOpens = 3
  MaxWrites = 1
SYMMETRY Symmetry
INVARIANTS NoUseAfterFree PollsOnlyOpen ReadCurrent
