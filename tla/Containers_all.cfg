SPECIFICATION MCSpec
CONSTANTS
    Streams = {s1}
    Payloads = {p1, p2}
    Handlers = {h1, h2}
    MaxAge = 1
    MaxSkew = 1
    MaxTime = 1
    MaxGenerations = 2
    Operators = {o1, o2}
    Names = {n1, n2}
    Ports = {1, 2}
    Wishes <- TwoWishes
    Busy = {1}
SYMMETRY Interchangeable
INVARIANTS TypesOK SummaryMatchesBatches AcknowledgedIsStored OnlyNewestIsActive
    SharingNeedsConsentOrGap HomeIsOwnedUnlessCut
PROPERTIES RemovedIsFrozen
