SPECIFICATION Spec
CONSTANTS
    p1 = p1
    p2 = p2
    t1 = t1
    t2 = t2
    c1 = c1
    s1 = s1
    r1 = r1
    Procs = {p1, p2}
    TicketIds = {t1, t2}
    Contexts = {c1}
    Refs = {r1}
    RefOf <- MCRefOf
    Sessions = {}
    NoSession = NoSession
    PolicyIds = {1}
    PolicyBodies <- OneBody
    Versions = {1}
    MaxTime = 1
    Writes = {"active"}
    NoTicket = NoTicket
    NoPolicy = NoPolicy
    None = None
SYMMETRY Symmetry
INVARIANT LockdownRevokesEarlierTickets
