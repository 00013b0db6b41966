SPECIFICATION AwsSpec
INVARIANTS
    BenchOnReadyBox
    FetchIsFinal
PROPERTIES
    HandedOffEnds
