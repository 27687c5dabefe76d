\* Two clients come and go, one request per destination, every fault.
CONSTANTS
    Clients = {k1, k2}
    Dests = {d1, d2}
    MaxDue = 1
    NetlinkMax = 2
    StreamMax = 2
    Faults = {"exit", "kill", "close", "type", "silent"}
SPECIFICATION FairSpec
INVARIANTS TypeOK DescriptorsLive
PROPERTIES LossesNamed ClientsServed
