SPECIFICATION Spec
CONSTANTS
    Code <- DepartingCode
INVARIANTS
    RulesKept
