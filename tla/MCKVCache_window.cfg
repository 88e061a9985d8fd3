\* A sliding window of two positions in as many cells as
\* llama_kv_cache_unified_iswa gives one sequence: the window and a ubatch.
CONSTANTS
    NCells = 5
    Seqs = {0}
    MaxPos = 10
    Tokens = {"x"}
    Words <- Single
    NBatch = 3
    NUbatch = 3
    Offsets = {0, 1}
    SwaType = "standard"
    NSwa = 2
    MaxMoves = 4
    UserOps = {"clear", "rm", "div"}
    Ranges <- Spans
    Shifts <- Steps
    MaxShift = 1
    MayFail = {"shift", "ubatch"}
SPECIFICATION SpecCache
INVARIANT Consecutive
PROPERTY OnlyMaskedLost
