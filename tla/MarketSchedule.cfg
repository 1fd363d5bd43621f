SPECIFICATION Spec
CONSTANTS
    Day = 12
    Starts = {0, 3, 8, 10}
    Timelines <- Trading
    Days = 2
    Interval = 5
    Retry = {2, 3}
    MaxFetch = 2
INVARIANTS TypeOK WalkKeepsTime CacheHeals
PROPERTIES OutageKeepsView
