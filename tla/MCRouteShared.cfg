CONSTANTS
    Tiles = {t1, t2}
    Works = {w1, w2}
    NoWork = NoWork
    NoKey = NoKey
    SegmentKeys = {seg}
    TreeKeys = {}
    SampleKeys = {}
    JournalLimit = 1
    MaxChanges = 2
SYMMETRY Symmetry
SPECIFICATION Spec
INVARIANTS CacheIsFresh
