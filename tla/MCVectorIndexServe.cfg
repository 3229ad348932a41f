SPECIFICATION FairSpec
CONSTANTS
    Values = {v1}
    Labels = {l1}
    Requests = {q1}
    Workers = {w1, w2}
    None = None
    MaxRows = 2
    MaxTasks = 2
    BatchSize = 2
PROPERTIES WorkersCatchUp
CHECK_DEADLOCK FALSE
