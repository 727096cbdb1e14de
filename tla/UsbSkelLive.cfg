SPECIFICATION FairSpec
CONSTANTS
  MaxTicks = 1
  Files = {f1, f2}
  MaxOpens = 2
  MaxWrites = 1
PROPERTIES ReaderWoken DisconnectEnds
