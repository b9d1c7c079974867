SPECIFICATION Spec
CONSTANTS
    Scripts <- MCScripts
    Addressed <- MCAddressed
    MaxOutputs = 2
INVARIANTS
    ExtractorsAgree
    
    
CHECK_DEADLOCK FALSE
