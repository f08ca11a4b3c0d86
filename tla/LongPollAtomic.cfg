CONSTANTS
    Pollers = {p1, p2}
    Callers = {c1}
    NoConn = NoConn
    AtomicBump = TRUE
    Enabled = {"main", "background"}
    MaxErrors = 3
    MaxStreams = 2
SPECIFICATION Spec
SYMMETRY Perms
INVARIANTS CallbackOnce SeveredIsSuperseded LateAtMostOnce
