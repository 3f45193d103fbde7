SPECIFICATION Spec
CONSTANTS
    x = x
    y = y
    Names = {x, y}
    Infos = {"method"}
    Consts <- EndNames
    Exprs <- CountedExprs
    Weight <- ImportsOnly
    MaxWeight = 3
    MaxDepth = 1
    MaxCases = 2
    MaxList = 2
SYMMETRY Symmetry
INVARIANTS FetchesCode StackIsScope
CHECK_DEADLOCK FALSE
