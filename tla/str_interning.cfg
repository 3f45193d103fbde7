SPECIFICATION StrSpec
CONSTANTS
    s1 = s1
    s2 = s2
    s3 = s3
    s4 = s4
    s5 = s5
    s6 = s6
    c1 = c1
    c2 = c2
    c3 = c3
    c4 = c4
    c5 = c5
    Null = Null
    Str <- Str6
    Content <- Content5
    Hash <- Hash5
    MinSize = 1
    GcMethods = FALSE
    GrowCollects = FALSE
SYMMETRY Symmetry
INVARIANTS TableSound Interned
