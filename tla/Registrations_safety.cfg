SPECIFICATION Spec
CONSTANTS
    Names = {n1, n2}
    Rows = {r1, r2}
    Tokens = {t1, t2, t3}
    Handlers = {h1, h2, h3}
SYMMETRY Interchangeable
INVARIANTS TypeOK AccountNeedsVerifiedMail LinkWorksOnce
CHECK_DEADLOCK FALSE
