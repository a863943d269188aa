\* The program: main.go and router.go each start a loop on the one hub, and
\* nothing calls Unregister.
CONSTANTS
    u1 = u1
    u2 = u2
    c1 = c1
    c2 = c2
    c3 = c3
    Users = {u1, u2}
    Conns = {c1, c2}
    Owner <- TwoOfOneUser
    Loops = {l1, l2}
    Callers = {}
    Unregistering = {}
    SendCap = 1
    MaxSends = 2
    None = None
SPECIFICATION Spec
INVARIANT NoOrphan
\* Finitely many connections and calls, and the runtime may stop the process.
CHECK_DEADLOCK FALSE
