SPECIFICATION Spec
CONSTANTS
    ByteBits = 4
    HllBits = 3
    HllRegisters = 4
    HllP = 2
    HllQ = 4
    Levels = 2
    StepBits = 3
    FloatBits = 7
    MaxInt = 4500
    MaxValue = 4
    MaxLen = 2
    MaxBound = 4
    ByteSamples = {0, 1, 6, 15}
    Arguments = 5
    HashSamples = {0, 3, 4, 9, 18, 32, 39, 63}
    MaxTokens = 2
    Letters = {93, 97, 98}
INVARIANTS RangesMean RanksAgree IntervalsAgree StoresAgree NearestShown BitsAgree FieldsAgree
    OverflowKept LogsAgree CellsAgree PatternsMean LimitsKept
