SPECIFICATION FairSpec
CONSTANTS
    Users = {u1}
    Projects = {p1}
    Resources = {r1}
    Requests = {q1}
    Changes = {c1}
    Handlers = {h1, h2}
    MaxGpu = 2
    MaxDays = 2
    MaxTime = 1
PROPERTIES ExpiredChangeIsClosed
