SPECIFICATION Spec
CONSTANTS
    Blocks = {b1, b2, b3, b4, b5}
    None = None
INVARIANT WellLinked
PROPERTY ImplementsList
