SPECIFICATION Spec
CONSTANTS
    Sent <- MCSent
    WINDOW = 3
    QUEUE_LIMIT = 2
    MAX_EPOCH = 2
    MAX_LEFT = 1
    NoRecord = NoRecord
PROPERTIES
    NothingAfterFatal
CHECK_DEADLOCK FALSE
