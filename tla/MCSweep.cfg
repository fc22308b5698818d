SPECIFICATION Spec
CONSTANTS
    Plan <- MixedPlan
    MaxExecs = 4
    MaxFaults = 2
INVARIANTS
    TypeOK
    LogsAreOwn
    MetricsAreOwn
    TrafficIsOwn
    WarmRunsAreWarm
