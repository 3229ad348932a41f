CONSTANTS
    Key = Key
    A = A
    B = B
    Empty = Empty
    Lower = Lower
    Upper = Upper
    Other = Other
    None = None
    Names <- AllNames
    Rows = {r1}
    Cells <- AllCells
    Blank <- Empty
    IndexCells <- JustLower
    Orders <- OneOrder
    MatchKey <- Spelling
    ChoiceSets <- Lists
    RefSets <- OneReference
    Rels = {k1}
    FirstHeaders <- TwoHeaders
    IndexGenerated = FALSE
    Sources <- JustA
    MaxIds = 3
    FirstIds <- TwoIds
SPECIFICATION Spec
INVARIANTS
    FormulasResolve
    ChoiceCellsAllowed
    CountsHaveRelationship
    RelationshipsNameColumns
PROPERTY
    ImplementsGrid
