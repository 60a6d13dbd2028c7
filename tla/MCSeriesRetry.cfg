CONSTANTS
    FailCap = 1
    MaxRows = 3
SPECIFICATION SeriesSpec
INVARIANTS UnarmedIsRetried
CHECK_DEADLOCK FALSE
