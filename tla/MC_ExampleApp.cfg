CONSTANTS
    MaxGossip = 20
SPECIFICATION Spec
PROPERTY SigintExits
CHECK_DEADLOCK FALSE
