CONSTANTS
    Tiles = {t1, t2}
    Works = {w1}
    NoWork = NoWork
    NoKey = NoKey
    SegmentKeys = {seg}
    TreeKeys = {tree}
    SampleKeys = {sample}
    JournalLimit = 1
    MaxChanges = 2
SYMMETRY Symmetry
SPECIFICATION Spec
INVARIANTS TypeOK CacheIsFresh EvidenceIsFresh TurnIsFresh ScopesNest CacheIsPrecise
