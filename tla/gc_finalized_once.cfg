SPECIFICATION Spec
CONSTANTS
    o1 = o1
    o2 = o2
    o3 = o3
    o4 = o4
    Null = Null
    Obj <- Obj3
    MaxStack = 1
    Kinds = {"udata"}
    HiddenSlots = {}
    GcMethods = {TRUE}
    BodyRuns = FALSE
INVARIANT FinalizedOnce
