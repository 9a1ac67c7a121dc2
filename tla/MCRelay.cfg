\* Two processes on either host over a conversation; claims expire, a process dies or a route changes.
CONSTANTS
    a = a
    b = b
    c = c
    ma = ma
    mb = mb
    mc = mc
    mx = mx
    p1 = p1
    p2 = p2
    m1 = m1
    m2 = m2
    m3 = m3
    NoId = NoId
    Nobody = Nobody
    NoHost = NoHost
    Hosts = {a, b}
    Missions = {ma, mb}
    Staffed = {ma, mb}
    Unstaffed = {}
    MsgId = {m1, m2}
    Passes = {p1, p2}
    Daemons = {}
    Reachable = {a, b}
    Home <- TheHome
    DaemonHost <- ServesA
    Requests <- Exchange
    Upserted = {"outbound"}
    Lease = 1
    SendTimeout = 0
    Slack = 1
    Interval = 0
    MaxDelay = 1
    MaxExponent = 0
    MaxFaults = 1
SPECIFICATION Spec
SYMMETRY ProcessSymmetry
INVARIANT TypeOK
INVARIANT OneSender
INVARIANT RepliesAreAcceptable
PROPERTY OnlyOwnerResolves
PROPERTY MailboxSpec
CHECK_DEADLOCK FALSE
