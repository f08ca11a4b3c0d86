CONSTANTS
    Pollers = {p1, p2}
    Callers = {c1, c2}
    NoConn = NoConn
    AtomicBump = FALSE
    Enabled = {"main"}
    MaxErrors = 3
    MaxStreams = 1
SPECIFICATION Spec
SYMMETRY Perms
INVARIANTS ConnIsLive HandlerInformed
