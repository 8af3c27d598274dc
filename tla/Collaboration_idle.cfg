SPECIFICATION FairSpec
CONSTANTS
    s1 = s1
    s2 = s2
    d1 = d1
    d2 = d2
    d3 = d3
    None = None
    Socket <- MCSocket
    Doc <- MCDoc
    MaxFaults = 0
    MaxLeaks = 1
PROPERTY IdleUnloads
