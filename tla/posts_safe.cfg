CONSTANTS
    m1 = m1
    m2 = m2
    h = h
    n = n
    Home = {h}
    Near = {n}
    Mods = {m1, m2}
    None = None
    Cases <- TheCases
    Requests <- TheRequests
    Starts = {"open", "held"}
    MaxEvents = 2
SPECIFICATION Spec
INVARIANTS TypeOK AdmittedOnce NoOrphan
PROPERTIES ModeratorDecides NothingWhileHeld EveryPostDecided
CHECK_DEADLOCK FALSE
