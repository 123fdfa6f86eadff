SPECIFICATION CASSpec
CONSTANTS
    Node = {1, 2}
    Write = {"a", "b"}
    Value = {"None", "tuple", "list", "x"}
    None = "None"
    Operation <- PutCASOfList
    Wire <- TuplesBecomeLists
CONSTRAINT ReceiptsLate
INVARIANT ReplicasAgree
