SPECIFICATION FairSpec
CONSTANTS
    o1 = o1
    o2 = o2
    o3 = o3
    o4 = o4
    Null = Null
    Obj <- Obj2
    MaxStack = 2
    Kinds = {"list", "udata"}
    HiddenSlots = {}
    GcMethods = {TRUE}
    BodyRuns = TRUE
CONSTRAINT BeforeUseAfterFree
INVARIANTS QueueSound
PROPERTIES FinalizedBeforeFreed CloseTerminates
