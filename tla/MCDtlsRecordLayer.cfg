SPECIFICATION FairSpec
CONSTANTS
    Sent <- MCSent
    WINDOW = 3
    QUEUE_LIMIT = 2
    MAX_EPOCH = 2
    MAX_LEFT = 1
    NoRecord = NoRecord
INVARIANTS
    RecordLayerInvariant
    BitmapIsExact
    HandedUpOnce
    BufferedAreCurrent
    DataAfterFinished
PROPERTY
    BufferedAreProcessed
CHECK_DEADLOCK FALSE
