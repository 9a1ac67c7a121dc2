----------------------------- MODULE MCPeerRelay -----------------------------
(* Instances of PeerRelay for TLC: host a with missions ma and mx, host b with *)
(* mission mb, host c (in some runs not to be reached) with mission mc.        *)
EXTENDS PeerRelay, TLC

CONSTANTS a, b, c, ma, mb, mc, mx, p1, p2, m1, m2, m3

TheHome == [mi \in Missions |->
    CASE mi \in {ma, mx} -> a [] mi = mb -> b [] mi = mc -> c]

\* A daemon, where there is one, serves host a.
ServesA == [p \in Daemons |-> a]

Message(id, src, dst, body, ref) ==
    [id |-> id, src |-> src, dst |-> dst, body |-> body, ref |-> ref]

\* A message, its answer, and one of the other host that has the first one's
\* identifier: whichever host uses it first, the other's message never arrives.
Exchange == {Message(m1, ma, mb, "x", NoId), Message(m2, mb, ma, "x", m1),
             Message(m1, mb, ma, "y", NoId)}

\* A message to a host that cannot be reached, one to a host that can.
TwoWays == {Message(m1, ma, mc, "x", NoId), Message(m2, ma, mb, "x", NoId)}

\* Two messages for the same inbox.
TwoToX == {Message(id, ma, mx, "x", NoId) : id \in {m1, m2}}

\* Messages to a host that cannot be reached.
ThreeToC == {Message(id, ma, mc, "x", NoId) : id \in {m1, m2, m3}}

\* Processes are interchangeable, but for the daemon.
ProcessSymmetry == Permutations(Passes)
=============================================================================
