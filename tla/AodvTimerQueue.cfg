\* Up to two searches and one neighbour timer beside the permanent timers.
CONSTANTS
    Nodes = {n1}
    Delay <- MCDelay
    MaxSearch = 2
    MaxResets = 1
    Lag = 4
SPECIFICATION Spec
INVARIANTS TypeOK OneOfEach LateByOnePeriod
PROPERTIES AlarmStops
