\* The daemon of one host and another process announce two messages for a PM.
CONSTANTS
    a = a
    b = b
    c = c
    ma = ma
    mb = mb
    mc = mc
    mx = mx
    p1 = p1
    p2 = p2
    m1 = m1
    m2 = m2
    m3 = m3
    NoId = NoId
    Nobody = Nobody
    NoHost = NoHost
    Hosts = {a}
    Missions = {ma, mx}
    Staffed = {ma}
    Unstaffed = {mx}
    MsgId = {m1, m2}
    Passes = {p1, p2}
    Daemons = {p1}
    Reachable = {}
    Home <- TheHome
    DaemonHost <- ServesA
    Requests <- TwoToX
    Upserted = {}
    Lease = 1
    SendTimeout = 0
    Slack = 1
    Interval = 1
    MaxDelay = 1
    MaxExponent = 0
    MaxFaults = 1
SPECIFICATION ServedSpec
INVARIANT NotifiedWasAnnounced
PROPERTY InboxIsAnnounced
CHECK_DEADLOCK FALSE
