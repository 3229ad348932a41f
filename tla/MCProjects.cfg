SPECIFICATION Spec
CONSTANTS
    Projects = {p1, p2}
    Sections = {s1, s2}
    Datasets = {d1, d2}
    Clients = {c1, c2}
    GroupNames = {g1, g2}
    Names = {n1}
    None = None
    MaxGroups = 3
SYMMETRY Interchangeable
CHECK_DEADLOCK FALSE
INVARIANTS
    TypeOK
    PagesAddUp
    ArchivedSectionsEmpty
    GuardedNamesUnique
