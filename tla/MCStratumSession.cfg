SPECIFICATION Spec
CONSTANTS
    pool1 = pool1
    pool2 = pool2
    elsewhere = elsewhere
    Pool <- MCPool
    FirstPool = pool1
    Elsewhere = elsewhere
    Diff = {1, 2}
    NetDiff = 2
    MaxShare = 2
    MaxSet = 1
    MaxLine = 1
INVARIANTS
    TypeOK
    RefusalMissedOnlyByShift
    AcceptedByPool
    ReportsAddUp
    UrlIsCurrent
PROPERTIES
    SlotIsOfLaterShare
    SeturlTakesEffect
