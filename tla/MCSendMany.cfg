SPECIFICATION Spec
CONSTANTS
    Node = {n1, n2, n3}
    LeaderId = n1
    NumMessages <- Writes
    MaxFaults <- Faults
    None = None
SYMMETRY Symmetry
CHECK_DEADLOCK FALSE
INVARIANTS
    ClassGuarantee
    ConvergesWhenSpacedOut
    TraceTellsState
