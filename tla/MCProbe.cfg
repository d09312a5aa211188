SPECIFICATION ProbeSpec
CONSTANTS
    Numerator = 3
    Denominator = 2
    TicksPerSecond = 2
    Duration = 2
    MaxInFlight = 2
    LateAfter = 0
    DropAfter = 1
    RpcTimeout = 2
    w1 = w1
    w2 = w2
    Workers = {w1, w2}
    Rows = 4
    ClosedStart = 1
    ClosedDeadline = 3
    MaxNumerator = 30
    Denominators = {1, 4, 10}
    Ticks = 7
    MaxSeconds = 4
CHECK_DEADLOCK FALSE
INVARIANTS InFlightBounded Accounted LateOrLostCountedOnce ScheduleNeverBlocks ClaimsAccounted NothingSentEarly SlotsFillThePlateau OffsetsExact
PROPERTIES ProbeEnds LoopEnds
