CONSTANTS
    i1 = i1
    i2 = i2
    i3 = i3
    s1 = s1
    s2 = s2
    s3 = s3
    Ids = {i1, i2, i3}
    Subagents = {s1, s2, s3}
    StepNames = {n1}
    None = None
    Agents = {"text", "thinking", "scopes", "text chunks", "thinking chunks"}
    Emits <- EmitsOf
    Replays <- ReplaysOf
SPECIFICATION Spec
INVARIANTS ClientAccepts SameOwners SameOpen
