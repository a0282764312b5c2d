\* The comment on lastUsed, against what Acquire does.
SPECIFICATION Spec
CONSTANTS
    Workers = {w1, w2}
    Keys = {k1}
    Temps = {t1, t2}
    None = None
    Timeout = 1
    CleanupInterval = 2
    MaxAge = 2
    MaxCrashes = 0
PROPERTY AcquireResetsLastUsed
