SPECIFICATION LoadSpec
CONSTANTS
    GroupBits = 3
    WordBits = 8
    HeadSize = 2
    Root <- Roots
    Names <- NameLists
    Piece = {1, 4, 1000}
    Texts <- MCTexts
    Blocks = {2, 100}
    Junk <- JunkChars
INVARIANTS LoadsWhatWasDumped StackMatches StaysInInput DumpReported TokensCoverText StringsNest LinesCounted
