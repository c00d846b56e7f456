SPECIFICATION FairSpec
CONSTANTS
    s1 = s1 s2 = s2 i1 = i1 i2 = i2
    Instances = {i1, i2}
    Sessions = {s1, s2}
    Home <- SessionsHome
    SessionTimeout = 2
    Heartbeat = 1
    LockTimeout = 1
    MaxCrashes = 1
    Nobody = Nobody
PROPERTIES OrphansAreReaped
