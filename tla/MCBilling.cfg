SPECIFICATION Spec
CONSTANTS
    Subscriptions = {a, b}
    Statuses = {"active"}
    Servers = {s1, s2}
    Workers = {w1, w2}
    None = None
    Ordered = FALSE
    Exclusive = TRUE
    Crashes = TRUE
    MaxEvents = 3
    MaxTasks = 2
CONSTRAINTS NotUpset TwoChanges OneRepeat
SYMMETRY Interchangeable
INVARIANTS IdFollowsStripe MarkedAreTracked StateFollowsStripe
CHECK_DEADLOCK FALSE
