SPECIFICATION Spec
CONSTANTS
    Programs <- MCScripts
    Code <- MCCode
    Meant <- MCMeant
    Ancestors <- MCAncestors
    Throwable <- MCThrowable
    MaxDepth <- MCMaxDepth
    Guard = 16
INVARIANTS
    RunsAsWritten
    NothingLeft
PROPERTY
    Terminates
CHECK_DEADLOCK FALSE
