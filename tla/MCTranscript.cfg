CONSTANTS
    i1 = i1
    i2 = i2
    i3 = i3
    i4 = i4
    s1 = s1
    s2 = s2
    t1 = t1
    t2 = t2
    Ids = {i1, i2, i3, i4}
    Subagents = {s1, s2}
    StepNames = {n1}
    Tools = {t1, t2}
    None = None
    Agents <- Settings
    Emits <- EmitsOf
    Replays <- ReplaysOf
    ChainOf <- ChainsOf
SPECIFICATION TranscriptSpec
INVARIANTS VerifiedIsApplied FilteredIsAccepted OwnersAgree ShownIsVisible RawAssembles
