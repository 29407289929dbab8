CONSTANTS
    Payload = {p1, p2}
    Vacant = Vacant
    MaxSlots = 2
    MaxGen = 2
SPECIFICATION Spec
SYMMETRY Symmetry
INVARIANT HandleIdentity
INVARIANT LiveCount
INVARIANT NeverCorrupt
PROPERTY RestoreIsExact
