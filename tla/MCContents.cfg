SPECIFICATION Spec
CONSTANTS
  Area = {space, room}
  Turf = {t1, t2, t3}
  Movable = {m1, m2}
  None = None
  SpaceArea = space
  MaxX = 2
SYMMETRY Symmetric
INVARIANT ContentsMirrorLoc
INVARIANT AreasAgree
INVARIANT NeverInsideItself
