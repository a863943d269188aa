\* One call.
CONSTANTS
    u1 = u1
    u2 = u2
    u3 = u3
    Users = {u1, u2}
    Diallers = {u1}
    MaxPcs = 2
    Reliable = FALSE
    Nobody = Nobody
SPECIFICATION Spec
INVARIANT EstablishedIsMonitored
CHECK_DEADLOCK FALSE
