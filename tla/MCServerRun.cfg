CONSTANTS
    Ids = {m1}
    Messages = {m1}
    Subagents = {s1}
    StepNames = {}
    None = None
    Values = {v1, v2}
    Unknown = Unknown
    Unbounded = Unbounded
    Capacity = 2
    Rewrites = TRUE
    MaxEmits = 4
SPECIFICATION FairSpec
INVARIANTS WithinCapacity StateAgrees
PROPERTIES KeepsPromise NothingAfterCancel TerminalDelivered StreamEnds
