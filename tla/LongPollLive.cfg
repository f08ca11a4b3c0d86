CONSTANTS
    Pollers = {p1, p2}
    Callers = {c1}
    NoConn = NoConn
    AtomicBump = TRUE
    Enabled = {"gaia", "background"}
    MaxErrors = 3
    MaxStreams = 1
SPECIFICATION FairSpec

PROPERTIES SupersededStops BackgroundReturns
