SPECIFICATION Spec
CONSTANTS
    Users = {u1}
    Projects = {p1}
    Resources = {r1}
    Requests = {q1}
    Changes = {c1, c2}
    Handlers = {h1, h2}
    MaxGpu = 2
    MaxDays = 2
    MaxTime = 1
SYMMETRY Interchangeable
INVARIANTS TypeOK TransactionsIsolated ClockMatchesGrant OpenChangeIsCurrent GrantMatchesAudit
PROPERTIES NothingIsTakenBack ApprovalPrecedesDisable KeepsContract
