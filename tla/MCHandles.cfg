CONSTANTS
    Ids = {m1}
    Subagents = {s1, s2}
    StepNames = {n1}
    None = None
    Values = {}
    Unknown = Unknown
    Unbounded = Unbounded
    Capacity = Unbounded
    Rewrites = FALSE
    MaxDepth = 4
SPECIFICATION Spec
INVARIANTS NeverRefused OpenIsAlive AttributionIsInnermost
