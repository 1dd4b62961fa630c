SPECIFICATION Spec
CONSTANTS
    Users = {a1, a2}
    InitialAdmins = {a1, a2}
    Handlers = {h1, h2, h3}
SYMMETRY Interchangeable
INVARIANTS TypeOK AlwaysAnActiveAdmin
PROPERTY NoSessionSurvivesChange
