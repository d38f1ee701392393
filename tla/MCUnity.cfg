CONSTANTS
    ByteBits = 2
    Printable = {1}
    MaxFloat = 4
    Precision = 2
    Values <- MCValues
    Masks <- MCMasks
    Deltas = {0, 1, 3}
    Cells <- MCCells
    Strings <- MCStrings
    Floats <- MCFloats
    FloatCells <- MCFloatCells
    Elements = 2
    MaxTests = 2
    MaxCalls = 1
    CounterSize = 65536
SPECIFICATION Spec
INVARIANTS
    NumbersAreCompared
    ArraysAreCompared
    ReportShowsTheNumbers
    StringsAreCompared
    FloatsAreCompared
    SummaryIsTheOutput
    VerdictStopsTheTest
    TearDownOnce
