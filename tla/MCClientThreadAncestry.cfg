CONSTANTS
    i1 = i1
    i2 = i2
    c1 = c1
    c2 = c2
    m1 = m1
    t1 = t1
    s1 = s1
    s2 = s2
    None = None
    Ids = {c1, c2, t1, m1}
    StepNames = {}
    Subagents = {s1, s2}
    Calls = {c1, c2}
    Answers = {t1}
    Interrupts = {i1, i2}
    ApprovalOf <- AsksAboutCall
    Runs = {1, 2, 3, 4}
    Settings <- Regrouping
SPECIFICATION Spec
INVARIANTS SnapshotRestores
