SPECIFICATION Spec
CONSTANTS
    Mails = {m1}
    Workers = {w1}
    MaxAttempts = 5
    StaleAfter = 15
INVARIANT UnsentStaysQueued
