SPECIFICATION Spec
CONSTANTS
    Code <- AllCode
INVARIANTS
    RulesKept
