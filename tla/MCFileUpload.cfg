SPECIFICATION Spec
CONSTANTS
    s1 = s1
    p1 = p1
    p2 = p2
    Whole = Whole
    m1 = m1
    m2 = m2
    f1 = f1
    f2 = f2
    i1 = i1
    i2 = i2
    NoOne = NoOne
    NoId = NoId
    Singles = {s1}
    Clients = {m1, m2}
    Files = {f1, f2}
    Parts = {p1, p2}
    UploadIds = {i1, i2}
    FreshIds = TRUE
    Resumes = FALSE
    SlowCleanups = FALSE
    StaleLookups = FALSE
    ReusesPath = FALSE
    MaxTroubles = 2
CHECK_DEADLOCK FALSE
SYMMETRY Symmetry
INVARIANTS TypeOK OneWriter MultipartIsWhole ReadableHasObject HeldHasHolder
