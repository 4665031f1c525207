SPECIFICATION Spec
CONSTANTS
    Prices = {2, 5}
    Sizes = {1, 2, 3}
    Mids = {3, 4}
    MaxSnapshots = 4
INVARIANTS
    TotalIsCashPlusStock
    EntryIsAnAverage
    TrackersAgree
    DrawdownIsLargestDrop
CHECK_DEADLOCK FALSE
