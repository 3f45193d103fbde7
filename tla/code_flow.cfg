SPECIFICATION Spec
CONSTANTS
    x = x
    y = y
    Names = {x, y}
    Infos = {"method", "init"}
    Consts = {0}
    Exprs <- CountedExprs
    Weight <- Weights
    MaxWeight = 6
    MaxDepth = 1
    MaxCases = 2
    MaxList = 2
SYMMETRY Symmetry
INVARIANTS CodeSound StackIsScope
PROPERTIES FlowAsWritten
CHECK_DEADLOCK FALSE
