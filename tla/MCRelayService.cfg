\* The daemon of one host: a message that cannot be delivered and one that can.
CONSTANTS
    a = a
    b = b
    c = c
    ma = ma
    mb = mb
    mc = mc
    mx = mx
    p1 = p1
    p2 = p2
    m1 = m1
    m2 = m2
    m3 = m3
    NoId = NoId
    Nobody = Nobody
    NoHost = NoHost
    Hosts = {a, b, c}
    Missions = {ma, mb, mc}
    Staffed = {ma}
    Unstaffed = {}
    MsgId = {m1, m2}
    Passes = {p1}
    Daemons = {p1}
    Reachable = {b}
    Home <- TheHome
    DaemonHost <- ServesA
    Requests <- TwoWays
    Upserted = {"inbound"}
    Lease = 2
    SendTimeout = 1
    Slack = 0
    Interval = 1
    MaxDelay = 2
    MaxExponent = 1
    MaxFaults = 2
SPECIFICATION ServedSpec
PROPERTY QueuedIsAcknowledged
PROPERTY RelayPassEnds
CHECK_DEADLOCK FALSE
