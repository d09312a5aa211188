SPECIFICATION Spec
CONSTANTS
    h1 = h1
    h2 = h2
    h3 = h3
    w1 = w1
    w2 = w2
    Handlers = {h1, h2, h3}
    Workers = {w1, w2}
    Bound = 2
    UsizeMax = 9
    ClientsMayCancel = TRUE
    ForwardMayPanic = FALSE
    Orphan = Orphan
    Nobody = Nobody
SYMMETRY Symmetry
INVARIANTS CountExact ChannelHasRoom RefusedOnlyAtBound
