\* Two processes that share a log, in files of one or two lines.
SPECIFICATION Spec
CONSTANTS
    Writers = {w1, w2}
    Files = {f1, f2, f3, f4, f5, f6}
    NoFile = NoFile
    Limits = {0, 1, 2}
    Keeps = {0, 1, 2, 3}
    MaxCalls = 9
SYMMETRY Symmetry
CHECK_DEADLOCK FALSE
INVARIANTS
    TypeOK
    KeepsRecent
    Bounded
