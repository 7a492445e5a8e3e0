CONSTANTS
    Bits8 = 4
    Bits16 = 6
    Bits32 = 8
    Bits64 = 10
    FRAMES_MAX = 4
    MaxSteps = 120
    Programs <- MCPrograms
    Expected <- MCExpected
    Cuttable <- MCCuttable
    NumberText <- MCNumberText
    StringText <- MCStringText
    AddressText <- MCAddressText
SPECIFICATION LanguageSpec
INVARIANTS
    TreeIsSource
    LoadedIsCompiled
    StackMatchesScopes
    OpenUpvaluesLive
    TypedCellsHold
    OutputIsExpected
PROPERTY
    ArithmeticExact
