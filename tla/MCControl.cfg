CONSTANTS
    p = p
    q = q
    p1 = p1
    p2 = p2
    q1 = q1
    Server = server
    Players = {p, q}
    Conns = {p1, p2, q1}
    Owner <- TwoAndOne
    Tunnels = {t1}
    Confs <- SomeConfs
    Taken <- OnTheServer
    Requests = {r1}
    MaxEvents = 3
    WebConfs <- Usual
    None = None
SPECIFICATION MCSpec
SYMMETRY Symmetry
CHECK_DEADLOCK FALSE
INVARIANTS
    Fits
    NoLostSocket
    Converged
    StatusTruthful
