CONSTANTS
    Listeners = {l1, l2}
    Clients = {c1, c2}
    Volumes = {v1, v2}
    Nobody = Nobody
SPECIFICATION Spec
CHECK_DEADLOCK FALSE
INVARIANTS OneCachePerVolume ServedFromOpenCaches
PROPERTIES RunReturns
