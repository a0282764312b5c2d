\* Liveness, and the past of an image: two workers, one image, one restart.
SPECIFICATION FairHSpec
CONSTANTS
    Workers = {w1, w2}
    Keys = {k1}
    Temps = {t1}
    None = None
    Timeout = 1
    CleanupInterval = 2
    MaxAge = 2
    MaxCrashes = 1
PROPERTY AcquireReturns IdleImageEvicted OrphanTempEvicted NoEarlyEviction
