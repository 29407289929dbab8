\* Two files, one edit, builds with and without a define, a new release.
CONSTANTS
    NFiles = 2
    Contents <- TwoSources
    Defines = {plain, flag}
    MaxEdits = 1
    MaxEngine = 1
    MaxBuilds = 3
    Absent = Absent
    Torn = Torn
SPECIFICATION Spec
SYMMETRY Symmetric
INVARIANT ProjectIsCurrent
INVARIANT FrontEndFresh
INVARIANT ExecutableFits
PROPERTY IdsStable
CHECK_DEADLOCK FALSE
