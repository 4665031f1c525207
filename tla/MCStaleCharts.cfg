SPECIFICATION Spec
CONSTANTS
    MaxInvocations = 2
INVARIANTS
    FilesAreOfThisRun
CHECK_DEADLOCK FALSE
