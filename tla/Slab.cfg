CONSTANTS
    CACHES = 2
    OBJS = 3
    Pool = {p1, p2, p3}
    Thread = {t1, t2}
    Size <- MCSize
    Alignment = {1, 8, 64}
    Null = Null
    Wild = Wild
SYMMETRY SlabSymmetry
SPECIFICATION LinkedSpec
INVARIANTS ObjectsExact ListsExact TagsRight LayoutFits LinksExact
CHECK_DEADLOCK FALSE
