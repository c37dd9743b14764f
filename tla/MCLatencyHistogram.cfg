SPECIFICATION HistogramSpec
CONSTANTS
    kBuckets = 4
    Percents <- SomePercents
    MaxSamples = 5
INVARIANTS
    AccumulatorsExact
    PercentileOfNearestRank
