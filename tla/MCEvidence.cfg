CONSTANTS
    Plan <- FourRatesTwice
    Outcomes <- ThreeOutcomes
    Duration = 4
    MaxGap = 2
    MaxAge = 1
    Enough = 2
    Disturbable = {1}
    Replicas = 2
    Checkpoints <- TwoSamples
    MaxDelay = 0
    CellDuration = 1
    Span = 3
    Profiles <- SomeProfiles
    Clean <- CleanProfile
    MaxNow = 5
    MaxFaults = 1
SPECIFICATION MCSpec
INVARIANTS AttestedRecomputes ValidIsUndisturbed AttestedPodServedThePlateau KneeIsTheFirstSignal
PROPERTY CellDecided
CHECK_DEADLOCK FALSE
