SPECIFICATION Spec
CONSTANTS
    Threads = {t1, t2, t3}
SYMMETRY Symmetry
INVARIANTS
    TypeOK
    TargetSound
    NoNeedlessDownload
    StagingCleared
    HandleStaysGood
    NoErrorAlone
