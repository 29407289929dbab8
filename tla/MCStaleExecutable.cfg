\* One release of the compiler after another, on one source file.
CONSTANTS
    NFiles = 1
    Contents <- TwoDeclarations
    Defines = {plain}
    MaxEdits = 0
    MaxEngine = 1
    MaxBuilds = 2
    Absent = Absent
    Torn = Torn
SPECIFICATION Spec
INVARIANT ExecutableIsFresh
CHECK_DEADLOCK FALSE
