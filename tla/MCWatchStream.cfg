CONSTANT
    MaxFrames = 4
SPECIFICATION FairSpec
INVARIANTS
    TypeOK
    Backpressure
    NeverStuck
PROPERTIES
    KeepsPromise
    Released
    ReaderWoken
\* Every watch may end.
CHECK_DEADLOCK FALSE
