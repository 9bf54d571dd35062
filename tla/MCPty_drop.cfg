SPECIFICATION FairSpec
CONSTANTS
    BufferBytes = 2
    ChunkBytes = 1
    PipeChunks = 2
    MaxChunks = 5
    Markers = {2}
CHECK_DEADLOCK FALSE
PROPERTY DropReturns
