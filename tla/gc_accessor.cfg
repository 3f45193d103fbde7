SPECIFICATION Spec
CONSTANTS
    o1 = o1
    o2 = o2
    o3 = o3
    o4 = o4
    Null = Null
    Obj <- Obj4
    MaxStack = 2
    Kinds = {"list", "class"}
    HiddenSlots = {"class"}
    GcMethods = {FALSE}
    BodyRuns = FALSE
INVARIANT HeapSafe
