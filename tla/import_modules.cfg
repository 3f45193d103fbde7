SPECIFICATION Spec
CONSTANTS
    main = main
    f1 = f1
    f2 = f2
    math = math
    s1 = s1
    s2 = s2
    m = m
    None = None
    Main = main
    Path = {f1, f2}
    Resolve <- Libraries
    Chunk = {s1, s2}
    MaxFrames = 4
    MaxRuns = 2
SYMMETRY Symmetry
INVARIANTS TypeOK BodyRunsOnce ImportGetsNamed
CHECK_DEADLOCK FALSE
