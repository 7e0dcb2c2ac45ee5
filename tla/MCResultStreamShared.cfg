SPECIFICATION FairSpec
CONSTANTS
    t1 = t1
    t2 = t2
    t3 = t3
    Tasks = {t1, t2, t3}
    RowCounts = {3}
    ChunkSizes = {0, 2}
INVARIANTS
    TypeOK
    ChunksCoverRows
    OwnersAreInside
PROPERTIES
    NoChunkAfterCancel
    EndIsHonest
    DispensesRows
    EveryCallReturns
