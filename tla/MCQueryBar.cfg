SPECIFICATION Spec
CONSTANTS
    Keys = {"robot", "speed"}
    Numbers = {"1", "2"}
    Words = {"arm", "cart"}
    Rows <- MCRows
    Pieces <- MCPieces
    MaxEdits = 5
    MaxMoves = 3
INVARIANTS
    OneMeaning

    
    
CHECK_DEADLOCK FALSE
