SPECIFICATION Spec
CONSTANTS
    Users = {u1}
    Projects = {p1}
    Resources = {r1}
    Requests = {q1}
    Changes = {c1}
    Handlers = {h1, h2}
    MaxGpu = 1
    MaxDays = 1
    MaxTime = 1
INVARIANT DisabledHasNothingPending
