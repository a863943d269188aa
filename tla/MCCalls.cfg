\* Lossy relay: one user dials either of two others, and one of them dials back.
CONSTANTS
    u1 = u1
    u2 = u2
    u3 = u3
    Users = {u1, u2, u3}
    Diallers = {u1, u2}
    MaxPcs = 3
    Reliable = FALSE
    Nobody = Nobody
SPECIFICATION Spec
INVARIANTS TypeOK ConnectedIsReal MonitorEndsWithCall
PROPERTIES ImplementsPairing OfferKeptUntilAnswered
\* Every call may be over, and no more connections are made.
CHECK_DEADLOCK FALSE
