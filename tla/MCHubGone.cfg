\* Nothing calls Unregister, as in the program.
CONSTANTS
    u1 = u1
    u2 = u2
    c1 = c1
    c2 = c2
    c3 = c3
    Users = {u1}
    Conns = {c1, c2}
    Owner <- TwoOfOneUser
    Loops = {l1}
    Callers = {}
    Unregistering = {}
    SendCap = 1
    MaxSends = 0
    None = None
SPECIFICATION FairSpec
PROPERTY GoneUnlisted
\* Finitely many connections and calls, and the runtime may stop the process.
CHECK_DEADLOCK FALSE
