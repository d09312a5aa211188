CONSTANTS
    m1 = m1
    ladder = ladder
    Sources <- One
    Plans <- NoBaseline
    Horizontal = {ladder}
    Contracts = {1, 2}
    Rates <- AboveOne
    Latencies = {10}
    Runtimes <- OneSetting
    Enough = 1
SPECIFICATION MCSpec
INVARIANT NoKneeMeansEvaluated
CHECK_DEADLOCK FALSE
