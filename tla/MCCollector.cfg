\* Two objects that can form every graph; two continuations, of which one can
\* be nested in the other, in the same round, asleep or behind a prompt.
CONSTANTS
    Obj = {o1, o2}
    Thread = {t1, t2}
    MaxRoots = 3
SPECIFICATION Spec
SYMMETRY Symmetry
INVARIANT NothingDangles
INVARIANT RootsBalanced
PROPERTY CollectionTransparent
CHECK_DEADLOCK FALSE
