CONSTANT N = 9
SPECIFICATION RbSpec
INVARIANTS TreeInOrder RedBlack NeighboursRight
PROPERTY RoundsClimb
