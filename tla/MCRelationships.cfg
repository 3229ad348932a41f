CONSTANTS
    Requests = {r1, r2}
    SourceRows = {s1, s2}
    A = A
    B = B
    Asset = Asset
    Empty = Empty
    None = None
    Blank <- Empty
    Keys <- BothKeys
    Cells <- PlainAndAsset
    Writable <- PlainCells
    AssetRefs <- Assets
    Strip <- PlainAndAssetStrip
    Trim <- PlainAndAssetStrip
SYMMETRY Interchangeable
SPECIFICATION Spec
INVARIANTS
    IntegrityWithoutOverlap
PROPERTY
    SettledReferencesSurvive
