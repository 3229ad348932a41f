SPECIFICATION Spec
CONSTANTS
    Values = {v1, v2}
    Labels = {l1, l2}
    Requests = {q1}
    Workers = {w1, w2}
    None = None
    MaxRows = 2
    MaxTasks = 2
    BatchSize = 1
SYMMETRY Interchangeable
INVARIANTS TypeOK IndexFresh LiveRowsIndexed
CHECK_DEADLOCK FALSE
