\* Nothing is lost: two users who may both dial, three connections.
CONSTANTS
    u1 = u1
    u2 = u2
    u3 = u3
    Users = {u1, u2}
    Diallers = {u1, u2}
    MaxPcs = 3
    Reliable = TRUE
    Nobody = Nobody
SPECIFICATION FairSpec
PROPERTY AcceptedConnects
\* Every call may be over, and no more connections are made.
CHECK_DEADLOCK FALSE
