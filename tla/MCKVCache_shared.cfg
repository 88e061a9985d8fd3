\* A token of two sequences whose ubatch fails: is it taken out again?
CONSTANTS
    NCells = 3
    Seqs = {0, 1}
    MaxPos = 2
    Tokens = {"x"}
    Words <- Shared
    NBatch = 2
    NUbatch = 2
    Offsets = {0}
    SwaType = "none"
    NSwa = 1
    MaxMoves = 3
    UserOps = {"clear", "rm"}
    Ranges <- Spans
    Shifts <- Steps
    MaxShift = 1
    MayFail = {"ubatch"}
SPECIFICATION SpecCache
PROPERTY FailureIsClean
