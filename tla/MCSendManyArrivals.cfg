SPECIFICATION ArrivalSpec
CONSTANTS
    Node = {n1, n2, n3}
    LeaderId = n1
    NumMessages <- Writes
    MaxFaults <- Faults
    None = None
CHECK_DEADLOCK FALSE
INVARIANT AppliedInOrderOfArrival
