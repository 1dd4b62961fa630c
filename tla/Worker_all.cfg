SPECIFICATION MCSpec
CONSTANTS
    Mails = {m1, m2}
    Workers = {w1, w2}
    MaxAttempts = 2
    StaleAfter = 1
    Ids = {s1}
    MaxDay = 2
    MaxCrashes = 2
    Hour = 4
    Hours = 3
    offline_seconds = 3
INVARIANTS TypesOK DuplicatesNeedTakeover SendsAreLimited NothingOnTimeIsSkipped OnlineTimeIsCoverage
PROPERTIES NoMailIsForgotten EverySampleIsAggregated
