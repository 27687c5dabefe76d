\* The uninitialised type of an accepted client.
CONSTANTS
    Clients = {k1}
    Dests = {d1}
    MaxDue = 1
    NetlinkMax = 1
    StreamMax = 1
    Faults = {"type"}
SPECIFICATION Spec
PROPERTIES RequestForwarded
