\* A sliding window as in MCKVCache_window.cfg, and batches of two ubatches: what
\* has prepare left of the window?
CONSTANTS
    NCells = 5
    Seqs = {0}
    MaxPos = 8
    Tokens = {"x"}
    Words <- Single
    NBatch = 4
    NUbatch = 2
    Offsets = {0}
    SwaType = "standard"
    NSwa = 3
    MaxMoves = 4
    UserOps = {"clear", "rm"}
    Ranges <- Spans
    Shifts <- Steps
    MaxShift = 1
    MayFail = {}
SPECIFICATION SpecCache
PROPERTY TrialRestored
