\* Four values: DM null and a value with the same hash, a NaN, and a modified
\* type path, which has no hash.
CONSTANTS
    nul = nul
    a = a
    nan = nan
    path = path
    Keys = {nul, a, nan, path}
    Items = {1}
    NaNs = {nan}
    Unhashed = {path}
    NullKey = nul
    Absent = Absent
    MaxLen = 3
    HashOf <- Hashes
    IndexThreshold = 2
    RemoveThreshold = 2
SPECIFICATION Spec
VIEW Storage
INVARIANT IndexAgrees
INVARIANT ReadersAgree
INVARIANT CopyIsFaithful
INVARIANT OperatorsAgree
PROPERTY ImplementsList
CHECK_DEADLOCK FALSE
