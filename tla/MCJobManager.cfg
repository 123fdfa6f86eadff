SPECIFICATION Spec
CONSTANTS
    Node = {1, 2}
    Job = {"j"}
    Definition = {"one", "two"}
    Tasks <- OneAndTwo
    Failing <- SecondOfTwo
    Calls <- CallsMade
    MaxCalls = 4
CHECK_DEADLOCK FALSE
INVARIANTS
    Inv
    RunAtMostOnce
    OneDefinitionAccepted
    CompleteMeansRun
    CompleteStaysComplete
    QuietMeansProcessed
