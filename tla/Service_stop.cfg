SPECIFICATION Spec
CONSTANTS
    NumAmf = 2
    Cap = 1
    Bounds <- Scenarios
 
PROPERTY Terminates
CHECK_DEADLOCK FALSE
