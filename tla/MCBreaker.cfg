\* Two callers, a two-entry window, two cool-downs.
CONSTANTS
    t1 = t1  t2 = t2  t3 = t3
    Threads = {t1, t2}
    OpenDuration = 1
    WindowDuration = 1
    MinSamples = 2
    ThresholdNum = 1
    ThresholdDen = 2
    MaxProbes = 1
    MaxEntries = 2
    UsizeModulus = 4
    MaxTime = 2
SPECIFICATION FairSpec
INVARIANTS
    TypeOK
    WindowExact
PROPERTIES
    SheddingEnds
