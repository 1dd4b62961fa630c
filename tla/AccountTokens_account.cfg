SPECIFICATION Spec
CONSTANTS
    Addresses = {e1, e2}
    Sessions = {s1, s2}
    Links = {l1, l2}
    Clients = {c1, c2}
    MaxChanges = 2
SYMMETRY Interchangeable
INVARIANTS TypeOK NoSessionOutlivesPassword
PROPERTY WorksOnceWhileNewest
