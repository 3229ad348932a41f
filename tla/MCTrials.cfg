CONSTANTS
    Requests = {p1, p2}
    Editors = {e1}
    Rewards = {star, join}
    Duration = 1
    RewardDays = 1
    None = None
    MaxTime = 2
    MaxGranted = 1
SPECIFICATION Spec
SYMMETRY Interchangeable
CONSTRAINT NotClobbered
INVARIANTS
    EveryRewardCounted
PROPERTIES
    DaysAddedOnce
    RefusedOnlyAfterTrial
