SPECIFICATION FairSpec
CONSTANTS
    Jobs = {j1}
    JobInputs <- Submitted
    Absent = Absent
    Editors = {e1}
    Sched = {s1, s2}
    Manual = {m1}
    MaxEdits = 2
    MaxFaults = 2
INVARIANTS
    RunsExclusive
    EnabledScheduled
    EditsKept
PROPERTY KeepsRunning
CHECK_DEADLOCK FALSE
