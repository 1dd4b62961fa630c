SPECIFICATION Spec
CONSTANTS
    Names = {n1}
    Rows = {r1, r2}
    Tokens = {t1, t2, t3}
    Handlers = {h1, h2}
SYMMETRY Interchangeable
PROPERTY VerifiesOnlyWaiting
CHECK_DEADLOCK FALSE
