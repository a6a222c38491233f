SPECIFICATION Spec
CONSTANTS
    Helper = {h1, h2, h3, h4}
    None = None
SYMMETRY HelperSymmetry
INVARIANTS
    ExclusiveUnlessRaced
    OwnSocket
    NothingLeft
CHECK_DEADLOCK FALSE
