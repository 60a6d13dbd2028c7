CONSTANTS
    FailCap = 1
    MaxRows = 3
SPECIFICATION SeriesSpec
INVARIANTS NoPhantomSeries
CHECK_DEADLOCK FALSE
