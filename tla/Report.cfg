CONSTANTS
    Latencies <- NearHalfASecond
    Collectors <- SomeCollectors
    Cohorts <- OneOrTwo
    Assertions <- SomeAssertions
SPECIFICATION Spec
CHECK_DEADLOCK FALSE
INVARIANTS AggregateIsConservative PassedBoundsHold
