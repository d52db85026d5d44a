CONSTANTS
    f1 = f1
    f2 = f2
    d1 = d1
    v1 = v1
    Absent = Absent
    Files = {f1, f2}
    Dirs = {d1}
    Under <- MCUnder
    Versions = {v1}
    MaxChanges = 3
    MaxFailures = 1
SPECIFICATION FairSpec
INVARIANTS
    ChangesAccounted
    CacheIInv
PROPERTY Converges
CHECK_DEADLOCK FALSE
