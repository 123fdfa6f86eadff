CONSTANTS
    n1 = n1
    n2 = n2
    n3 = n3
    w1 = w1
    w2 = w2
    w3 = w3
    Node = {n1, n2, n3}
    Leader = n1
    Write = {w1, w2, w3}
    Fates = {"kept"}
SYMMETRY Symmetry
SPECIFICATION Spec
INVARIANTS
    LogsAgree
    AppliedOnce
    NothingForgotten
    SettledMeansApplied
    RetryArmed
    Inv
PROPERTY ImplementsBroadcast
