SPECIFICATION Spec
CONSTANTS
    Datasets = {business, generated}
    Generated = {generated}
    Requests = {p1, p2}
    Cells <- Keys
    Texts <- TwoTexts
    Blank = ""
    Strip <- StripSpace
    Str <- Numeral
    Unset = Unset
    None = None
    MaxRowId = 3
    MaxInitialRows = 1
    MaxEntries = 4
    MaxDatasets = 1
SYMMETRY RequestSymmetry
CHECK_DEADLOCK FALSE
INVARIANTS
    RowCountExact
    NoIntegrityError
    IndexFaithful
    HistoryExplainsRows
PROPERTIES
    ArchivedStaysFrozen
    ImplementsTable
