SPECIFICATION Spec
CONSTANTS
    Workers = {w1, w2}
    Profiles = {four_stem, six_stem}
    Stems = {vocals, drums}
    Dirs = {d1}
    None = None
    MaxSessions = 5
SYMMETRY Symmetry
INVARIANTS
    TypeOK
    SessionsAccounted
    SessionsBounded
    OutputWritten
