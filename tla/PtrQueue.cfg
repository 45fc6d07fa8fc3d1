SPECIFICATION FairSpec
CONSTANTS
    BufThreads = {t1, t2}
    PipeSlots = 1
    ChunkPtrs = 2
    BasicMsgs = 4
    MaxSent = 9
INVARIANTS
    Fifo
    OneBufThread
    BufFits
PROPERTIES
    ImplementsLossyFifo EveryPtrHandled
CHECK_DEADLOCK FALSE
