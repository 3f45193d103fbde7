SPECIFICATION Spec
CONSTANTS
    x = x
    y = y
    Names = {x, y}
    Infos = {"method"}
    Consts = {0}
    Exprs <- AllExprs
    Weight <- Weights
    MaxWeight = 1
    MaxDepth = 1
    MaxCases = 2
    MaxList = 2
SYMMETRY Symmetry
INVARIANTS StackIsScope
CHECK_DEADLOCK FALSE
