\* One result at a time is read, from its first row; steps fail at any time.
SPECIFICATION Spec
CONSTANTS
    Results = {r1, r2}
    MaxRows = 2
    Params = 2
    Values = {v1, v2}
    NoValue = NoValue
    Faults = {"row", "call"}
    Liberties = {"outlive"}
SYMMETRY Symmetry
CHECK_DEADLOCK FALSE
INVARIANTS
    TypeOK
    ArgumentsLand
    
PROPERTIES
    ImplementsForwardCursor
