SPECIFICATION Spec
CONSTANTS
    Helper = {h1, h2, h3}
    None = None
SYMMETRY HelperSymmetry
INVARIANTS
    Exclusive
CHECK_DEADLOCK FALSE
