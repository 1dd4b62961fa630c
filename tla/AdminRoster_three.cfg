SPECIFICATION Spec
CONSTANTS
    Users = {a1, a2, a3}
    InitialAdmins = {a1, a2, a3}
    Handlers = {h1, h2}
SYMMETRY Interchangeable
INVARIANT AlwaysAnActiveAdmin
