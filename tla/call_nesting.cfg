SPECIFICATION Spec
CONSTANTS
    MaxCalls = 4
    MaxCCalls = 3
    CiMin = 3
    StackStart = 3
    Extra = 5
    Slots = {3, 9}
    MetaArgs = 3
    NativeVias = {"call", "pcall"}
    MaxHeight = 4
INVARIANTS CallsAgree OperatorRoomBeforeErrors
PROPERTIES NestedCalls
