SPECIFICATION Spec
INVARIANTS
    HonestSucceeds
    Agreement
    
    SessionsMatch
    StreamIntact
CHECK_DEADLOCK FALSE
