\* One call, nothing is lost.
CONSTANTS
    u1 = u1
    u2 = u2
    u3 = u3
    Users = {u1, u2}
    Diallers = {u1}
    MaxPcs = 2
    Reliable = TRUE
    Nobody = Nobody
SPECIFICATION Spec
PROPERTY CalleeAppliesIce
CHECK_DEADLOCK FALSE
