SPECIFICATION MCSpec
CONSTANTS
    Agents = {a1, a2}
    Names = {n1, n2}
    Interval = 3
    MaxTime = 7
    Pids = {p1, p2}
    MaxKills = 1
    MaxStops = 1
    MaxStarts = 1
INVARIANTS TypesOK OneNameForEver NextSlotWithoutDrift OrphansNeedKillOrWindow VerdictIsFair
PROPERTIES SignalStops ConfigErrorIsFinal FailedAgentComesBack
