SPECIFICATION Spec
CONSTANTS
    x = x
    y = y
    Names = {x, y}
    Infos = {"getter"}
    Consts = {0}
    Exprs <- CountedExprs
    Weight <- ClassesOnly
    MaxWeight = 3
    MaxDepth = 1
    MaxCases = 2
    MaxList = 2
SYMMETRY Symmetry
INVARIANTS FetchesCode
CHECK_DEADLOCK FALSE
