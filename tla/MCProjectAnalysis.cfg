SPECIFICATION MCSpec
CONSTANTS
    p = p
    q = q
    good = good
    bad = bad
    TempAttempts = 2
    Pids = {p, q}
    Files = {1, 2, 3}
    CSharpFiles = {1, 2}
    JsTsFiles = {3}
    Contents = {good, bad}
    Broken = {bad}
    Unreadable = unreadable
    CommandLines <- MCCommandLines
    Parallelism = 3
    MaxRetained = 2
    MaxEdits = 1
    MaxFaults = 1
    None = none
INVARIANTS ReportIsFresh  OneOutcomeEach
