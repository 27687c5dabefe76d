\* A reset of the reboot timer while it is the first timer.
CONSTANTS
    Nodes = {n1}
    Delay <- MCDelay
    MaxSearch = 2
    MaxResets = 1
    Lag = 4
SPECIFICATION Spec
INVARIANTS RebootEnds
