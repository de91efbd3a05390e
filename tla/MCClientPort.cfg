SPECIFICATION FairSpec
CONSTANTS
    Conns = {c1, c2}
    None = None
    MaxData = 1
INVARIANTS TypeOK PipesClosedOnce
PROPERTIES EndNoticed
CHECK_DEADLOCK FALSE
