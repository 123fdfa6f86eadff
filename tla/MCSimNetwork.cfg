SPECIFICATION Spec
CONSTANTS
    n1 = n1
    n2 = n2
    n3 = n3
    Node = {n1, n2, n3}
    Message = {m1}
    Rule <- AllRules
    MaxRules = 2
    MaxReturned = 3
    MaxEdits = 1
SYMMETRY Symmetry
INVARIANTS
    Inv
    NothingUnaccounted
    FateFollowsRules
