SPECIFICATION Spec
CONSTANTS
    Threads = {t1, t2}
    Classes = {c1}
    Regions = {r1, r2}
    MaxBlocks = 2
    DefaultNextCapacity = 2
    ReleaseEmpty = FALSE
    Oversized = Oversized
    Null = Null
INVARIANTS TypeOK ChoiceIsFresh
PROPERTIES SinglePool MutexComesFree
