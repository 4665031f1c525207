SPECIFICATION Spec
CONSTANTS
    MaxInvocations = 3
INVARIANTS
    OnlyARunLeavesATrace
    ReportIsNewest
    DoneIsWhole
CHECK_DEADLOCK FALSE
