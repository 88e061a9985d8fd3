\* Two sequences, every operation but division, and ubatches that fail.
CONSTANTS
    NCells = 3
    Seqs = {0, 1}
    MaxPos = 2
    Tokens = {"x", "y"}
    Words <- Apart
    NBatch = 3
    NUbatch = 2
    Offsets = {0}
    SwaType = "none"
    NSwa = 1
    MaxMoves = 3
    UserOps = {"clear", "rm", "cp", "keep", "add", "defrag"}
    Ranges <- Spans
    Shifts <- Steps
    MaxShift = 1
    MayFail = {"ubatch"}
SPECIFICATION SpecCache
INVARIANTS CacheTypeOK CellsOK KeysRotated FindsASlot SlotIfItFits
PROPERTIES FailureIsClean IsStore
