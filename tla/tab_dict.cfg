SPECIFICATION Spec
CONSTANTS
    k1 = k1
    k2 = k2
    k3 = k3
    k4 = k4
    Nil = Nil
    MMGetattr = k3
    MMSetattr = k2
    Number = 1
    Key <- Keys4
    Hash <- Hash4
    Values <- ValuesByKind
    MinSize = 2
    MaxLoad = 3
    Setups <- SetupsAll
INVARIANTS SearchEnds InvokeIsGetThenCall
PROPERTIES TabIsDictionary ReadsWhatWasSet
