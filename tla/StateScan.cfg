SPECIFICATION FairSpec
CONSTANTS
    ItemCount = 3
    ChunkSize = 2
    MaxCalls = 5
INVARIANTS TypeOK CursorDiscipline EndedScanIsClosed
PROPERTIES ItemsInOrder FailureNotHidden Implements EveryCallAnswered ReturnCloses
