\* The daemon of one host: three messages that cannot be delivered.
CONSTANTS
    a = a
    b = b
    c = c
    ma = ma
    mb = mb
    mc = mc
    mx = mx
    p1 = p1
    p2 = p2
    m1 = m1
    m2 = m2
    m3 = m3
    NoId = NoId
    Nobody = Nobody
    NoHost = NoHost
    Hosts = {a, c}
    Missions = {ma, mc}
    Staffed = {ma}
    Unstaffed = {}
    MsgId = {m1, m2, m3}
    Passes = {p1}
    Daemons = {p1}
    Reachable = {}
    Home <- TheHome
    DaemonHost <- ServesA
    Requests <- ThreeToC
    Upserted = {}
    Lease = 2
    SendTimeout = 1
    Slack = 0
    Interval = 1
    MaxDelay = 2
    MaxExponent = 1
    MaxFaults = 0
SPECIFICATION FairSpec
PROPERTY RelayPassEnds
CHECK_DEADLOCK FALSE
