\* Two staging slots, each used twice; a destroyed source stops.
CONSTANTS
    f = f
    g = g
    Fields <- MCFields
    Regions <- MCRegions
    SlotCount = 2
    Options <- MicrotaskOrPaced
    MaxSchedules = 4
SPECIFICATION FairSpec
INVARIANTS JobsOwnTheirSlots FrameIsNewest
PROPERTIES SlotRecycles
CHECK_DEADLOCK FALSE
