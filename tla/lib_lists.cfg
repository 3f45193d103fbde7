SPECIFICATION Spec
CONSTANTS
    l1 = l1
    l2 = l2
    New = New
    Fn = Fn
    Str = Str
    Iter = Iter
    Nil = Nil
    True = True
    False = False
    NoValue = NoValue
    List = {l1, l2, New}
    Num <- Numbers
    Item <- Items3
    Other <- Inner
    Arg <- Args
    Answer <- Answers
    Key = {0, 1, 2}
    MaxLen = 3
    MaxSort = 5
    MaxChange = 2
    MaxLies = 1
INVARIANTS ApiKept MethodsAreSequenceOps LoopResults SortWorks
PROPERTIES CalledWithItems
