CONSTANTS
    Modes = {"MSIX", "MSI", "INTX"}
    MaxRaise = 3
    Leftover = {"DONE", "ERROR", "SOFT"}
SPECIFICATION FairSpec
INVARIANTS CountedOnce NotSwallowed QuietRemove
PROPERTIES EventCounted
