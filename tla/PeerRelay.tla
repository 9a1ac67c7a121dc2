------------------------------ MODULE PeerRelay ------------------------------
(***************************************************************************)
(* The peer relay of peer.rs: messages between the PMs of missions on      *)
(* several hosts.  A host is one database with its table                   *)
(* mission_peer_messages.  Relay passes (the daemon's and those of CLI     *)
(* calls) claim outbound rows, carry them over SSH and announce inbox rows *)
(* to PMs.  One action per SQLite transaction or process call.             *)
(*                                                                         *)
(* Time is counted in ticks and kept as distances: a row's age since it was*)
(* claimed, its distance `due` from the next attempt, the time a pass has  *)
(* spent in its phase.                                                     *)
(***************************************************************************)
EXTENDS Integers, FiniteSets

CONSTANTS
    Hosts, Missions,
    Home,            \* the host of each mission
    MsgId, NoId,     \* message identifiers
    Requests,        \* messages the PMs may send: [id, src, dst, body, ref]
    Passes, Nobody,  \* relay passes, and the owner of an abandoned claim
    Daemons,         \* the passes that are run_daemon's
    DaemonHost,      \* and the host each of them serves
    NoHost,          \* where a pass is that has not begun
    Reachable,       \* hosts whose receiver SSH can reach at all
    Lease,           \* CLAIM_LEASE_MS
    SendTimeout,     \* SSH_TOTAL_TIMEOUT
    Slack,           \* how long a pass may linger between two steps
    Interval,        \* how long a process waits before its next pass
    MaxDelay, MaxExponent,          \* cap of the retry delay, of its exponent
    Staffed,         \* missions whose PM is started before the behaviour
    Unstaffed,       \* and in it
    Upserted,        \* bound: the directions that routes are changed to
    MaxFaults        \* bound: how many processes die or routes change

VARIABLES
    tbl,         \* per host: mission_peer_messages by message id
    route,       \* mission_peer_routes: direction per <<local, remote>> mission
    started,     \* missions whose PM has a runtime identity
    pass,        \* the relay passes
    late,        \* envelopes on their way after their sender gave up
    announced,   \* <<host, id>> of the inbox rows a PM was prompted for
    faults       \* what is left of MaxFaults

vars == <<tbl, route, started, pass, late, announced, faults>>

Local(r) == Home[r.src] = Home[r.dst]

\* A route that no message takes is never read.
MissionPairs == {pair \in Missions \X Missions :
                    /\ Home[pair[1]] # Home[pair[2]]
                    /\ \E q \in Requests : {q.src, q.dst} = {pair[1], pair[2]}}
Directions   == {"inbound", "outbound", "bidirectional"}

OutStates == {"queued", "sending", "retry", "acknowledged"}
InStates  == {"accepted", "handled"}
Phases    == {"idle", "deliver", "send", "resolve", "notify", "wake", "record"}

RowFields ==
    [req : Requests, dir : {"local", "outbound", "inbound"},
     state : OutStates \cup InStates, owner : Passes \cup {Nobody},
     age : Nat, due : 0..MaxDelay, attempts : 0..MaxExponent,
     born : Nat, notified : BOOLEAN]

\* The table's CHECK ties states to directions.
Row == {row \in RowFields :
            row.state \in IF row.dir = "outbound" THEN OutStates ELSE InStates}

NoRow == [dir |-> "none"]

Pass == [phase : Phases, host : Hosts \cup {NoHost}, msg : MsgId \cup {NoId},
         verdict : {"none", "receipt", "failed"}, age : Nat,
         todo : SUBSET MsgId, group : SUBSET MsgId]

Idle == [phase |-> "idle", host |-> NoHost, msg |-> NoId, verdict |-> "none",
         age |-> 0, todo |-> {}, group |-> {}]

RelayAssumption ==
    /\ Home \in [Missions -> Hosts]
    /\ DaemonHost \in [Daemons -> Hosts]
    /\ NoHost \notin Hosts
    /\ Requests \subseteq [id : MsgId, src : Missions, dst : Missions,
                           body : STRING, ref : MsgId \cup {NoId}]
    /\ \A r \in Requests : r.src # r.dst
    /\ NoId \notin MsgId
    /\ Daemons \subseteq Passes
    /\ Staffed \cup Unstaffed \subseteq Missions
    /\ Nobody \notin Passes

RelayBounds ==
    /\ {Lease, SendTimeout, Slack, Interval, MaxDelay, MaxExponent} \subseteq Nat
    /\ MaxFaults \in Nat
    /\ Upserted \subseteq Directions
    /\ SendTimeout < Lease
    /\ MaxDelay > 0
    /\ \A n \in 0..MaxExponent : 2^n \in Nat

ASSUME ConstantsAssumption == RelayAssumption
ASSUME BoundsAssumption == RelayBounds

-----------------------------------------------------------------------------
(* Rows *)

Exists(h, m) == tbl[h][m] # NoRow
InInbox(h, m) == tbl[h][m].dir \in {"local", "inbound"}
IsOut(h, m) == tbl[h][m].dir = "outbound"

\* Mutant: a message is due again at once.
NoDelay(n) == 0

\* min(60 s, 1 s * 2^min(attempts, 6)); the instances scale the unit.
Least(a, b) == IF a < b THEN a ELSE b
Delay(n) == Least(2^Least(n, MaxExponent), MaxDelay)

NewRow(r, d, s, b) ==
    [req |-> r, dir |-> d, state |-> s, owner |-> Nobody, age |-> 0, due |-> 0,
     attempts |-> 0, born |-> b, notified |-> FALSE]

\* created_at has whole seconds: a message is as old as the last one, or younger.
Births(h) == {tbl[h][m].born : m \in {n \in MsgId : Exists(h, n) /\ IsOut(h, n)}}
NextBirths(h) ==
    IF Births(h) = {} THEN {0}
    ELSE {b \in Births(h) \cup {c + 1 : c \in Births(h)} :
            \A c \in Births(h) : c <= b}

Routed(l, r, need) == route[<<l, r>>] \in {need, "bidirectional"}

\* Mutant: the reference of a reply is taken as it comes.
AnyReply(h, ref, src, dst) == TRUE

\* A reply names a message that this host holds from dst to src.
ReplyKnown(h, ref, src, dst) ==
    ref # NoId =>
        Exists(h, ref) /\ tbl[h][ref].req.src = dst /\ tbl[h][ref].req.dst = src

Init ==
    /\ tbl = [h \in Hosts |-> [m \in MsgId |-> NoRow]]
    /\ route = [p \in MissionPairs |-> "bidirectional"]
    /\ started = Staffed
    /\ pass = [p \in Passes |-> [Idle EXCEPT !.age = Interval]]
    /\ late = {}
    /\ announced = {}
    /\ faults = MaxFaults

-----------------------------------------------------------------------------
(* The PMs and their hosts *)

\* A PM gets its terminal and launch generation.
StartPM(mi) ==
    /\ mi \in Unstaffed \ started
    /\ started' = started \cup {mi}
    /\ UNCHANGED <<tbl, route, pass, late, announced, faults>>

\* An identifier in use is answered as a duplicate or a conflict: no change.
Queue(r) ==
    LET h == Home[r.src] IN
    /\ r.src \in started
    /\ ~Exists(h, r.id)
    /\ ~Local(r) => Routed(r.src, r.dst, "outbound")
    /\ ReplyKnown(h, r.ref, r.src, r.dst)
    /\ IF Local(r)
       THEN tbl' = [tbl EXCEPT ![h][r.id] = NewRow(r, "local", "accepted", 0)]
       ELSE \E b \in NextBirths(h) :
                tbl' = [tbl EXCEPT ![h][r.id] = NewRow(r, "outbound", "queued", b)]
    /\ UNCHANGED <<route, started, pass, late, announced, faults>>

\* Mutant: the direction of the message is not checked.
HandleAnyRow(h, m) ==
    /\ Exists(h, m)
    /\ tbl[h][m].state # "handled"
    /\ tbl' = [tbl EXCEPT ![h][m].state = "handled"]
    /\ UNCHANGED <<route, started, pass, late, announced, faults>>

\* The target's PM acknowledges a message of its inbox.
Handle(h, m) ==
    /\ Exists(h, m)
    /\ InInbox(h, m)
    /\ tbl[h][m].state = "accepted"
    /\ tbl' = [tbl EXCEPT ![h][m].state = "handled"]
    /\ UNCHANGED <<route, started, pass, late, announced, faults>>

UpsertRoute(l, r, d) ==
    /\ faults > 0
    /\ <<l, r>> \in MissionPairs
    /\ route' = [route EXCEPT ![<<l, r>>] = d]
    /\ faults' = faults - 1
    /\ UNCHANGED <<tbl, started, pass, late, announced>>

-----------------------------------------------------------------------------
(* The receiver *)

Duplicate(h, r) ==
    Exists(h, r.id) /\ tbl[h][r.id].dir = "inbound" /\ tbl[h][r.id].req = r

Acceptable(h, r) ==
    /\ ~Exists(h, r.id)
    /\ Routed(r.dst, r.src, "inbound")
    /\ ReplyKnown(h, r.ref, r.src, r.dst)

\* What receiving the envelope of r leaves in the tables.
Received(r) ==
    LET h == Home[r.dst] IN
    IF Acceptable(h, r)
    THEN [tbl EXCEPT ![h][r.id] = NewRow(r, "inbound", "accepted", 0)]
    ELSE tbl

\* Mutant: a closed route is noticed when the row is to be written only.
AnswerUnrouted(r) ==
    IF Duplicate(Home[r.dst], r) \/ ~Exists(Home[r.dst], r.id)
    THEN "receipt" ELSE "failed"

Answer(r) ==
    IF Duplicate(Home[r.dst], r) \/ Acceptable(Home[r.dst], r)
    THEN "receipt" ELSE "failed"

-----------------------------------------------------------------------------
(* Relay passes *)

At(p, phase) == pass[p].phase = phase
Payload(p) == tbl[pass[p].host][pass[p].msg].req

\* The pass goes to its next phase, where its time starts anew.
Goes(p, phase) == pass' = [pass EXCEPT ![p].phase = phase, ![p].age = 0]

\* The same, and the pass forgets the message it carried.
TurnsTo(p, phase) ==
    pass' = [pass EXCEPT ![p] = [Idle EXCEPT !.phase = phase, !.host = pass[p].host]]

Quits(p) == pass' = [pass EXCEPT ![p] = Idle]

Begins(p, h, phase) ==
    /\ At(p, "idle")
    /\ pass[p].age >= Interval
    /\ pass' = [pass EXCEPT ![p] = [Idle EXCEPT !.phase = phase, !.host = h]]
    /\ UNCHANGED <<tbl, route, started, late, announced, faults>>

\* The daemon, `peer deliver` and `peer send` begin with the outbound rows,
\* `peer receive` and a local send with the inboxes.
BeginDelivery(p, h) ==
    /\ p \in Daemons => h = DaemonHost[p]
    /\ Begins(p, h, "deliver")

BeginNotices(p, h) ==
    /\ p \notin Daemons
    /\ Begins(p, h, "notify")

\* Mutant: a claim is taken back a tick too early.
StaleEarly(h, m) ==
    /\ Exists(h, m)
    /\ tbl[h][m].state = "sending"
    /\ tbl[h][m].age + 1 >= Lease

\* Mutant: a claim is never taken back.
StaleNever(h, m) == FALSE

Stale(h, m) ==
    /\ Exists(h, m)
    /\ tbl[h][m].state = "sending"
    /\ tbl[h][m].age >= Lease

\* claim_next_outbound first takes back the claims whose lease has expired.
Swept(h) ==
    [m \in MsgId |->
        IF Stale(h, m)
        THEN [tbl[h][m] EXCEPT !.state = "retry", !.owner = Nobody,
                               !.age = 0, !.due = 0]
        ELSE tbl[h][m]]

Claimable(h) ==
    {m \in MsgId :
        /\ Exists(h, m)
        /\ IsOut(h, m)
        /\ Swept(h)[m].state \in {"queued", "retry"}
        /\ Swept(h)[m].due = 0
        /\ Routed(tbl[h][m].req.src, tbl[h][m].req.dst, "outbound")}

Oldest(h) ==
    {m \in Claimable(h) : \A n \in Claimable(h) : tbl[h][m].born <= tbl[h][n].born}

Claim(p) ==
    LET h == pass[p].host IN
    /\ At(p, "deliver")
    /\ \E m \in Oldest(h) :
        /\ tbl' = [tbl EXCEPT ![h] = [Swept(h) EXCEPT ![m].state = "sending",
                                                      ![m].owner = p,
                                                      ![m].age = 0]]
        /\ pass' = [pass EXCEPT ![p].phase = "send", ![p].msg = m,
                                ![p].verdict = "none", ![p].age = 0]
    /\ UNCHANGED <<route, started, late, announced, faults>>

\* `peer send` leaves the inboxes to others.
ClaimNothing(p) ==
    /\ At(p, "deliver")
    /\ Oldest(pass[p].host) = {}
    /\ tbl' = [tbl EXCEPT ![pass[p].host] = Swept(pass[p].host)]
    /\ Goes(p, "notify") \/ (p \notin Daemons /\ Quits(p))
    /\ UNCHANGED <<route, started, late, announced, faults>>

\* The envelope reaches `peer receive`, whose answer is now under way.
Deliver(p) ==
    /\ At(p, "send")
    /\ pass[p].verdict = "none"
    /\ Home[Payload(p).dst] \in Reachable
    /\ tbl' = Received(Payload(p))
    /\ pass' = [pass EXCEPT ![p].verdict = Answer(Payload(p))]
    /\ UNCHANGED <<route, started, late, announced, faults>>

\* The receiver has exited in time and its answer is read.
Return(p) ==
    /\ At(p, "send")
    /\ pass[p].verdict # "none"
    /\ Goes(p, "resolve")
    /\ UNCHANGED <<tbl, route, started, late, announced, faults>>

\* An envelope that has left may still arrive after its sender is gone.
Leaves(p) ==
    \/ UNCHANGED late
    \/ /\ pass[p].verdict = "none"
       /\ Home[Payload(p).dst] \in Reachable
       /\ late' = late \cup {Payload(p)}

\* No connection, a broken one, or the timeout that kills the SSH client.
GiveUp(p) ==
    /\ At(p, "send")
    /\ Leaves(p)
    /\ pass' = [pass EXCEPT ![p].phase = "resolve", ![p].age = 0,
                            ![p].verdict = "failed"]
    /\ UNCHANGED <<tbl, route, started, announced, faults>>

ArriveLate(r) ==
    /\ r \in late
    /\ late' = late \ {r}
    /\ tbl' = Received(r)
    /\ UNCHANGED <<route, started, pass, announced, faults>>

\* Mutant: claims are told apart by the row's state only.
OwnsAnyClaim(p) == tbl[pass[p].host][pass[p].msg].state = "sending"

Owns(p) ==
    LET row == tbl[pass[p].host][pass[p].msg] IN
    row.state = "sending" /\ row.owner = p

AcknowledgeOutbound(p) ==
    LET h == pass[p].host  m == pass[p].msg  n == tbl[h][m].attempts + 1 IN
    /\ At(p, "resolve")
    /\ pass[p].verdict = "receipt"
    /\ Owns(p)
    /\ tbl' = [tbl EXCEPT ![h][m] =
                  [@ EXCEPT !.state = "acknowledged", !.owner = Nobody, !.age = 0,
                            !.due = 0, !.attempts = Least(n, MaxExponent)]]
    /\ TurnsTo(p, "deliver")
    /\ UNCHANGED <<route, started, late, announced, faults>>

Release(p) ==
    LET h == pass[p].host  m == pass[p].msg  n == tbl[h][m].attempts + 1 IN
    /\ At(p, "resolve")
    /\ pass[p].verdict = "failed"
    /\ Owns(p)
    /\ tbl' = [tbl EXCEPT ![h][m] =
                  [@ EXCEPT !.state = "retry", !.owner = Nobody, !.age = 0,
                            !.due = Delay(n), !.attempts = Least(n, MaxExponent)]]
    /\ TurnsTo(p, "deliver")
    /\ UNCHANGED <<route, started, late, announced, faults>>

\* The row was reclaimed meanwhile: peer_claim_lost ends the pass, but for that
\* of `peer deliver`, which turns to the inboxes.
ClaimLost(p) ==
    /\ At(p, "resolve")
    /\ ~Owns(p)
    /\ Quits(p) \/ (p \notin Daemons /\ TurnsTo(p, "notify"))
    /\ UNCHANGED <<tbl, route, started, late, announced, faults>>

\* Mutant: messages from missions of the same host are forgotten.
UnannouncedRemote(h) ==
    {m \in MsgId :
        /\ Exists(h, m)
        /\ tbl[h][m].dir = "inbound"
        /\ tbl[h][m].state = "accepted"
        /\ ~tbl[h][m].notified
        /\ tbl[h][m].req.dst \in started}

\* The unannounced inbox rows whose PM can be prompted; what the failure to
\* prompt the others leaves in the table (a counter and a text) is left out.
Unannounced(h) ==
    {m \in MsgId :
        /\ Exists(h, m)
        /\ InInbox(h, m)
        /\ tbl[h][m].state = "accepted"
        /\ ~tbl[h][m].notified
        /\ tbl[h][m].req.dst \in started}

ReadPending(p) ==
    /\ At(p, "notify")
    /\ pass' = [pass EXCEPT ![p] =
           IF Unannounced(pass[p].host) = {} THEN Idle
           ELSE [pass[p] EXCEPT !.phase = "wake", !.age = 0,
                                !.todo = Unannounced(pass[p].host)]]
    /\ UNCHANGED <<tbl, route, started, late, announced, faults>>

\* One prompt per mission announces all of its messages that were read.
GroupOf(p, mi) == {m \in pass[p].todo : tbl[pass[p].host][m].req.dst = mi}

Wake(p, mi) ==
    /\ At(p, "wake")
    /\ GroupOf(p, mi) # {}
    /\ announced' = announced \cup ({pass[p].host} \X GroupOf(p, mi))
    /\ pass' = [pass EXCEPT ![p].phase = "record", ![p].age = 0,
                            ![p].group = GroupOf(p, mi),
                            ![p].todo = @ \ GroupOf(p, mi)]
    /\ UNCHANGED <<tbl, route, started, late, faults>>

\* The phase after a mission's prompt: the next mission, or the end.
AfterGroup(p, rest) ==
    IF rest = {} THEN Idle
    ELSE [pass[p] EXCEPT !.phase = "wake", !.age = 0, !.todo = rest, !.group = {}]

WakeFailed(p, mi) ==
    /\ At(p, "wake")
    /\ GroupOf(p, mi) # {}
    /\ pass' = [pass EXCEPT ![p] = AfterGroup(p, pass[p].todo \ GroupOf(p, mi))]
    /\ UNCHANGED <<tbl, route, started, late, announced, faults>>

\* Mutant: every message of the mission is marked, not those of the prompt.
RecordWholeInbox(p) ==
    LET h == pass[p].host
        prompted == {tbl[h][m].req.dst : m \in pass[p].group}
    IN
    /\ At(p, "record")
    /\ tbl' = [tbl EXCEPT ![h] = [m \in MsgId |->
                  IF Exists(h, m) /\ tbl[h][m].state = "accepted"
                        /\ tbl[h][m].req.dst \in prompted
                  THEN [tbl[h][m] EXCEPT !.notified = TRUE]
                  ELSE tbl[h][m]]]
    /\ pass' = [pass EXCEPT ![p] = AfterGroup(p, pass[p].todo)]
    /\ UNCHANGED <<route, started, late, announced, faults>>

RecordNotified(p) ==
    LET h == pass[p].host IN
    /\ At(p, "record")
    /\ tbl' = [tbl EXCEPT ![h] = [m \in MsgId |->
                  IF m \in pass[p].group /\ Exists(h, m) /\ tbl[h][m].state = "accepted"
                  THEN [tbl[h][m] EXCEPT !.notified = TRUE]
                  ELSE tbl[h][m]]]
    /\ pass' = [pass EXCEPT ![p] = AfterGroup(p, pass[p].todo)]
    /\ UNCHANGED <<route, started, late, announced, faults>>

\* The process dies; nobody will resolve the claims it leaves.
Crash(p) ==
    LET h == pass[p].host IN
    /\ faults > 0
    /\ ~At(p, "idle")
    /\ faults' = faults - 1
    /\ IF At(p, "send") THEN Leaves(p) ELSE UNCHANGED late
    /\ tbl' = [tbl EXCEPT ![h] = [m \in MsgId |->
                  IF Exists(h, m) /\ tbl[h][m].owner = p
                  THEN [tbl[h][m] EXCEPT !.owner = Nobody]
                  ELSE tbl[h][m]]]
    /\ Quits(p)
    /\ UNCHANGED <<route, started, announced>>

-----------------------------------------------------------------------------
(* Time *)

\* A call is killed after its timeout; a pass may linger over its result, and for
\* as long as it likes over the other steps, where it holds no claim.
InTime(p) ==
    \/ At(p, "idle")
    \/ At(p, "send") /\ pass[p].age < SendTimeout
    \/ At(p, "resolve") /\ pass[p].age < Slack
    \/ pass[p].phase \notin {"idle", "send", "resolve"} /\ Slack > 0

AgeAfter(p) ==
    CASE At(p, "idle") -> Least(pass[p].age + 1, Interval)
      [] pass[p].phase \in {"send", "resolve"} -> pass[p].age + 1
      [] OTHER -> pass[p].age

Older(row) ==
    IF row = NoRow THEN NoRow
    ELSE [row EXCEPT !.age = IF row.state = "sending" THEN Least(@ + 1, Lease) ELSE @,
                     !.due = IF @ > 0 THEN @ - 1 ELSE 0]

Tick ==
    /\ \A p \in Passes : InTime(p)
    /\ tbl' = [h \in Hosts |-> [m \in MsgId |-> Older(tbl[h][m])]]
    /\ pass' = [p \in Passes |-> [pass[p] EXCEPT !.age = AgeAfter(p)]]
    /\ UNCHANGED <<route, started, late, announced, faults>>

-----------------------------------------------------------------------------
DeliveryStep(p) ==
    \/ Claim(p)
    \/ ClaimNothing(p)
    \/ Deliver(p)
    \/ Return(p)
    \/ GiveUp(p)
    \/ AcknowledgeOutbound(p)
    \/ Release(p)
    \/ ClaimLost(p)

NoticeStep(p) ==
    \/ ReadPending(p)
    \/ \E mi \in Missions : Wake(p, mi) \/ WakeFailed(p, mi)
    \/ RecordNotified(p)

PassStep(p) == DeliveryStep(p) \/ NoticeStep(p)

Next ==
    \/ \E mi \in Missions : StartPM(mi)
    \/ \E r \in Requests : Queue(r) \/ ArriveLate(r)
    \/ \E h \in Hosts, m \in MsgId : Handle(h, m)
    \/ \E l, r \in Missions, d \in Upserted : UpsertRoute(l, r, d)
    \/ \E p \in Passes :
        \/ PassStep(p)
        \/ \E h \in Hosts : BeginDelivery(p, h) \/ BeginNotices(p, h)
        \/ Crash(p)
    \/ Tick

Spec == Init /\ [][Next]_vars

-----------------------------------------------------------------------------
(* Safety *)

TypeOK ==
    /\ tbl \in [Hosts -> [MsgId -> Row \cup {NoRow}]]
    /\ route \in [MissionPairs -> Directions]
    /\ started \subseteq Missions
    /\ pass \in [Passes -> Pass]
    /\ late \subseteq Requests
    /\ announced \subseteq Hosts \X MsgId
    /\ faults \in Nat

\* A message is never carried by two SSH calls of its host at once: the call's
\* timeout is shorter than the lease of the claim (SSH_TOTAL_TIMEOUT and
\* CLAIM_LEASE_MS; peer.rs, run_peer_child and claim_next_outbound).
OneSender ==
    \A p, q \in Passes :
        p # q /\ pass[p].host = pass[q].host /\ At(p, "send") /\ At(q, "send")
            => pass[p].msg # pass[q].msg

\* A reply its host has agreed to send names a message that the host it goes to
\* holds, so the receiver never refuses it for its reference
\* (validate_reply_reference on both sides).
RepliesAreAcceptable ==
    \A h \in Hosts, m \in MsgId :
        LET r == tbl[h][m].req  far == Home[r.dst] IN
        Exists(h, m) /\ IsOut(h, m) /\ r.ref # NoId =>
            /\ Exists(far, r.ref)
            /\ IsOut(far, r.ref)
            /\ tbl[far][r.ref].req.src = r.dst
            /\ tbl[far][r.ref].req.dst = r.src

\* A message counts as announced only if a prompt that included it was accepted,
\* also when it arrived, or was handled, while a prompt was under way
\* (notify_peer_inboxes, update_notification_rows).
NotifiedWasAnnounced ==
    \A h \in Hosts, m \in MsgId :
        Exists(h, m) /\ tbl[h][m].notified => <<h, m>> \in announced

\* A claim ends by the pass that made it, or when its lease has expired; a pass
\* that lost its claim does not touch the one that replaced it
\* (release_peer_claim, acknowledge_outbound_claim).
OnlyOwnerResolves ==
    [][\A h \in Hosts, m \in MsgId :
        Exists(h, m) /\ tbl[h][m].state = "sending" =>
            \/ tbl'[h][m].state = "sending" /\ tbl'[h][m].owner \in {tbl[h][m].owner, Nobody}
            \/ Stale(h, m)
            \/ \E p \in Passes :
                /\ p = tbl[h][m].owner
                /\ At(p, "resolve") /\ pass[p].msg = m /\ pass[p].host = h]_vars

Carrying(p) == pass[p].phase \in {"send", "resolve"}

\* A pass that has lost the claim of the message it carries does not come to own it
\* again, whoever claims and releases it meanwhile: what its call brings changes no
\* row any more (claim_next_outbound, release_peer_claim, acknowledge_outbound_claim).
LostClaimsStayLost ==
    [][\A p \in Passes :
        Carrying(p) /\ ~Owns(p) /\ Carrying(p)' => ~Owns(p)']_vars

Kept(h, r) == Exists(h, r.id) /\ tbl[h][r.id].req = r

\* The rows, read as the mailbox of PeerMailbox.
WithSource == {r \in Requests : Kept(Home[r.src], r)}
WithTarget == {r \in Requests : Kept(Home[r.dst], r) /\ InInbox(Home[r.dst], r.id)}

Mailbox == INSTANCE PeerMailbox WITH
    sent <- WithSource,
    inbox <- WithTarget,
    handled <- {r \in WithTarget : tbl[Home[r.dst]][r.id].state = "handled"},
    confirmed <- {r \in WithSource : tbl[Home[r.src]][r.id].state = "acknowledged"}

\* The relay keeps the promises of PeerMailbox: a message enters its inbox once
\* and unchanged, is handled once, and only what arrived is acknowledged, under
\* lost receipts, late and repeated envelopes, expired claims and crashes.
MailboxSpec == Mailbox!Spec

-----------------------------------------------------------------------------
(* Liveness *)

\* run_daemon starts a pass after every interval, and a pass goes on by itself.
Fairness ==
    /\ \A p \in Passes : WF_vars(PassStep(p))
    /\ \A p \in Daemons : WF_vars(BeginDelivery(p, DaemonHost[p]))
    /\ WF_vars(Tick)

FairSpec == Spec /\ Fairness

\* Of the calls to a host that can be reached, one now and then goes through.
CallTo(p, h) == At(p, "send") /\ Home[Payload(p).dst] = h

TransportFairness ==
    \A h \in Reachable :
        /\ SF_vars(\E p \in Passes : CallTo(p, h) /\ Deliver(p))
        /\ SF_vars(\E p \in Passes : CallTo(p, h) /\ Return(p))

\* Of the prompts to a PM that has been started, one now and then is accepted.
PromptFairness ==
    \A mi \in Staffed \cup Unstaffed : SF_vars(\E p \in Passes : Wake(p, mi))

ServedSpec == FairSpec /\ TransportFairness /\ PromptFairness

Open(r) == Routed(r.src, r.dst, "outbound") /\ Routed(r.dst, r.src, "inbound")

ServedHosts == {DaemonHost[p] : p \in Daemons}

Carried == {r \in Requests : ~Local(r) /\ Home[r.src] \in ServedHosts
                                        /\ Home[r.dst] \in Reachable}

\* A message for a host that can be reached is acknowledged in the end, unless a
\* route is closed, whatever becomes of the messages to other hosts and of the
\* processes that carry it (deliver_peer_messages_with).
QueuedIsAcknowledged ==
    \A r \in Carried :
        Kept(Home[r.src], r)
            ~> (/\ Kept(Home[r.src], r)
                /\ tbl[Home[r.src]][r.id].state = "acknowledged" \/ ~Open(r))

\* A relay pass ends, so that the daemon comes back to the ordinary outbox and to
\* the inboxes (reconcile_peer_relay in the loop of run_daemon).
RelayPassEnds == \A p \in Passes : ~At(p, "idle") ~> At(p, "idle")

Announceable ==
    {r \in Requests : Home[r.dst] \in ServedHosts
                        /\ r.dst \in Staffed \cup Unstaffed}

\* A started PM is prompted for a message in its inbox, or has handled it.
InboxIsAnnounced ==
    \A r \in Announceable :
        LET h == Home[r.dst] IN
        (Kept(h, r) /\ r.dst \in started)
            ~> (Kept(h, r) /\ (tbl[h][r.id].notified \/ tbl[h][r.id].state = "handled"))
=============================================================================
