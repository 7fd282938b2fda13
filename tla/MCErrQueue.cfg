CONSTANTS
    Codes = {1, 2}
    Texts = {"x"}
    N = 3
SPECIFICATION Spec
CHECK_DEADLOCK FALSE
INVARIANTS
    PointerValid
PROPERTIES
    Refines
    MarkReverts
