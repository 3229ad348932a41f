SPECIFICATION AccessSpec
CONSTANTS
    Keys = {k1, k2}
    Names = {n1}
    Agents = {c1}
    Visitors = {c1}
    Passwords = {p1, p2}
    Nothing = Nothing
    MaxSalts = 2
SYMMETRY Interchangeable
INVARIANTS
    AccessTypeOK
    AnswersWereEntitled
    RefusalsWereDue
