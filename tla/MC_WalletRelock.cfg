SPECIFICATION Spec
CONSTANTS
    Threads = {t1, t2, t3}
    Timeouts = {0, 1, 2}
    Unset = Unset
INVARIANT Watched
PROPERTIES NotEarly RelockedUnlessAbandoned
