\* Two neighbours on one interface and a silent one on demand.
CONSTANTS
    n1 = n1  n2 = n2
    i1 = i1  i2 = i2
    Nodes = {n1, n2}
    Interfaces <- MCInterfaces
    Link <- MCLink
    Periodic = {i1}
    Tuned = {i1}
    LiveTime = 2
    HelloInterval = 1
    MaxHello = 2
    Lag = 0
SPECIFICATION FairSpec
INVARIANTS TypeOK EntryTimed InfoFromItself
PROPERTIES AlarmFallsBehind OneChain SilentForgotten HelloRead
