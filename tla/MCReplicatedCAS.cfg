SPECIFICATION CASSpec
CONSTANTS
    Node = {1, 2}
    Write = {"a", "b", "c", "d"}
    Value = {"None", "tuple", "list", "x"}
    None = "None"
    Operation <- RacingOperations
    Wire <- AsSent
CONSTRAINTS
    ReceiptsLate
    TwoOperations
INVARIANTS
    CASInv
    ResultsFollowOrder
    NothingForgotten
PROPERTY ImplementsLamportOrder
