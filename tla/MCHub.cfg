CONSTANTS
    p = p
    q = q
    p1 = p1
    p2 = p2
    q1 = q1
    Players = {p, q}
    Sessions = {p1, p2, q1}
    Owner <- TwoAndOne
    Tunnels = {t1}
    Ends <- BetweenThem
    QueueCap = 1
    MaxEvents = 3
    AtStart = {{p1, q1}, {p1}, {}}
    None = None
SPECIFICATION MCSpec
CHECK_DEADLOCK FALSE
INVARIANTS
    OneSession
    NoGhost
PROPERTIES
    ClosesReturn
