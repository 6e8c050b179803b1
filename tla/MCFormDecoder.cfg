SPECIFICATION Spec
CONSTANTS
    f1 = f1
    f2 = f2
    f3 = f3
    Files = {f1, f2, f3}
    Bytes = {a, b}
    NoFile = NoFile
    NoData = NoData
    MaxFields = 3
    MaxBody = 2
    MaxSize = 3
SYMMETRY Symmetry
CHECK_DEADLOCK FALSE
INVARIANTS TypeOK NothingLeftBehind OwnsWhatItCloses FormsAreWhole
