\* The program's two loops; every connection may unregister, which the program
\* never does, so that handleUnregister runs too.
CONSTANTS
    u1 = u1
    u2 = u2
    c1 = c1
    c2 = c2
    c3 = c3
    Users = {u1}
    Conns = {c1, c2}
    Owner <- TwoOfOneUser
    Loops = {l1, l2}
    Callers = {}
    Unregistering = {c1, c2}
    SendCap = 1
    MaxSends = 0
    None = None
SPECIFICATION FairSpec
INVARIANT OrphansWereContested
PROPERTIES NoStrayStop ImplementsPresence ReconnectCloses WindsDown
\* Finitely many connections and calls, and the runtime may stop the process.
CHECK_DEADLOCK FALSE
