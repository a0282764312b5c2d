\* Safety with two images at once: two workers, two images, one restart.
SPECIFICATION Spec
CONSTANTS
    Workers = {w1, w2}
    Keys = {k1, k2}
    Temps = {t1, t2}
    None = None
    Timeout = 1
    CleanupInterval = 2
    MaxAge = 2
    MaxCrashes = 1
SYMMETRY Symmetry
INVARIANT TypeOK RefsMatchHolders HeldImageWhole ImagesWhole LiveTempKept
PROPERTY LeaseSpec
