SPECIFICATION Spec
CONSTANTS
    Ids = {"m", "o", "r1", "r2", "r3"}
    Subagents = {}
    StepNames = {}
    None = None
    Unset = Unset
    FreshIds <- MCFreshIds
    Definitions <- MCDefinitions
    NewerDefinitions <- MCNewerDefinitions
    Order <- MCOrder
    Pointers = {"/a", "/b"}
    Document <- MCDocument
    Plans <- MCPlans
    Reads = {1, 4, 100}
CHECK_DEADLOCK FALSE
INVARIANT ReceivedIsSent
INVARIANT RefusedOnlyForCause
INVARIANT CancelledBeforeDropped
PROPERTY GoneIsCancelled
