SPECIFICATION Spec
CONSTANTS
    h1 = h1
    h2 = h2
    w1 = w1
    w2 = w2
    Handlers = {h1, h2}
    Workers = {w1, w2}
    Bound = 2
    UsizeMax = 9
    ClientsMayCancel = FALSE
    ForwardMayPanic = FALSE
    Orphan = Orphan
    Nobody = Nobody
SYMMETRY Symmetry
INVARIANTS GaugeExactAtRest
