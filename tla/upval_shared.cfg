SPECIFICATION Spec
CONSTANTS
    u1 = u1
    u2 = u2
    u3 = u3
    c1 = c1
    c2 = c2
    c3 = c3
    v1 = v1
    v2 = v2
    None = None
    Nil = v1
    Upval = {u1, u2, u3}
    Closure = {c1, c2, c3}
    Value = {v1, v2}
    MaxStack = 3
    MaxFrames = 2
    GcMoves = FALSE
SYMMETRY Symmetry
INVARIANTS OpenListSound
PROPERTIES SharedVariables
