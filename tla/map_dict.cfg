SPECIFICATION Spec
CONSTANTS
    k1 = k1
    k2 = k2
    k3 = k3
    k4 = k4
    k5 = k5
    k6 = k6
    k7 = k7
    Nil = Nil
    Key <- Keys7
    Hash <- Hash7
    Value = {1}
    MinSize = 2
    MaxLoad = 3
    MinLoad = 1
    LoopSize = 4
SYMMETRY Symmetry
INVARIANTS ProbingFinds NextVisitsAll
PROPERTIES MapIsDictionary LoopComplete
