CONSTANTS
    Blocks = 3
    LowRate = 41
    HighRate = 42
    Pairs <- SomePairs
    CleanP99 = 35
    Settings = {1, 2}
    Failing <- SomeGates
    MaxFlaws = 2
    m1 = m1
    m2 = m2
    ladder = ladder
    Sources <- Two
    Plans <- Continuations
    Horizontal = {ladder}
    Contracts = {1, 2}
    RungRates <- Measures
    Latencies = {10}
    Runtimes <- SomeRuntimes
    Enough = 1
SPECIFICATION MCSpec
INVARIANTS ExtensionRescuesOnlyVariability ConfirmedOnPublishedBlocks CountedApart RedIsDeserved StrictIsComplete
CHECK_DEADLOCK FALSE
