--------------------------- MODULE PeerRelay_proofs --------------------------
(***************************************************************************)
(* Proofs about the peer relay, for any hosts, missions, messages, passes, *)
(* and lengths of leases, calls and delays.                                *)
(***************************************************************************)
EXTENDS PeerRelay, TLAPS

USE ConstantsAssumption, BoundsAssumption DEF RelayAssumption, RelayBounds

-----------------------------------------------------------------------------
(* Rows and tables *)

Rows  == Row \cup {NoRow}
Table == [Hosts -> [MsgId -> Rows]]

\* What no step changes in a row.
Keeps(old, new) == new \in Row /\ new.req = old.req /\ new.dir = old.dir

\* The table changes, but no message is added, moved or lost.
Evolves ==
    \A h \in Hosts, m \in MsgId :
        IF Exists(h, m) THEN Keeps(tbl[h][m], tbl'[h][m]) ELSE tbl'[h][m] = NoRow

LEMMA Numbers ==
    /\ Lease \in Nat /\ SendTimeout \in Nat /\ Slack \in Nat /\ Interval \in Nat
    /\ MaxDelay \in Nat /\ MaxExponent \in Nat /\ MaxFaults \in Nat
    /\ 0 \in 0..MaxDelay /\ 0 \in 0..MaxExponent
OBVIOUS

LEMMA RowFacts ==
    ASSUME NEW row \in Row
    PROVE  /\ row # NoRow
           /\ row.req \in Requests /\ row.dir \in {"local", "outbound", "inbound"}
           /\ row.age \in Nat /\ row.born \in Nat /\ row.due \in 0..MaxDelay
           /\ row.attempts \in 0..MaxExponent
           /\ row.state \in OutStates \cup InStates
           /\ row.dir = "outbound" => row.state \in OutStates
           /\ row.dir # "outbound" => row.state \in InStates
           /\ row.state = "sending" => row.dir = "outbound"
BY DEF Row, RowFields, NoRow, OutStates, InStates

LEMMA Known ==
    ASSUME tbl \in Table, NEW h \in Hosts, NEW m \in MsgId, Exists(h, m)
    PROVE  tbl[h][m] \in Row
BY DEF Table, Rows, Exists

LEMMA RequestFacts ==
    ASSUME NEW r \in Requests
    PROVE  /\ r.id \in MsgId /\ r.src \in Missions /\ r.dst \in Missions
           /\ r.ref \in MsgId \cup {NoId}
           /\ Home[r.src] \in Hosts /\ Home[r.dst] \in Hosts
OBVIOUS

LEMMA NewRowFacts ==
    ASSUME NEW r \in Requests, NEW d \in {"local", "outbound", "inbound"}, NEW b \in Nat,
           NEW s, s = IF d = "outbound" THEN "queued" ELSE "accepted"
    PROVE  /\ NewRow(r, d, s, b) \in Row
           /\ NewRow(r, d, s, b).req = r /\ NewRow(r, d, s, b).dir = d
           /\ NewRow(r, d, s, b).state = s
BY DEF NewRow, Row, RowFields, OutStates, InStates

LEMMA SweptFacts ==
    ASSUME tbl \in Table, NEW h \in Hosts
    PROVE  /\ Swept(h) \in [MsgId -> Rows]
           /\ \A m \in MsgId :
                /\ Exists(h, m) => Keeps(tbl[h][m], Swept(h)[m])
                /\ ~Exists(h, m) => Swept(h)[m] = NoRow
<1>1. ASSUME NEW m \in MsgId
      PROVE  /\ Swept(h)[m] \in Rows
             /\ Exists(h, m) => Keeps(tbl[h][m], Swept(h)[m])
             /\ ~Exists(h, m) => Swept(h)[m] = NoRow
  <2>1. CASE Stale(h, m)
    <3> DEFINE new == [tbl[h][m] EXCEPT !.state = "retry", !.owner = Nobody,
                                        !.age = 0, !.due = 0]
    <3>1. Exists(h, m) /\ tbl[h][m] \in Row /\ tbl[h][m].dir = "outbound"
      BY <2>1, Known, RowFacts DEF Stale
    <3>2. ASSUME NEW row \in Row, row.dir = "outbound"
          PROVE  Keeps(row, [row EXCEPT !.state = "retry", !.owner = Nobody,
                                        !.age = 0, !.due = 0])
      <4>1. [row EXCEPT !.state = "retry", !.owner = Nobody, !.age = 0, !.due = 0]
                \in RowFields
        BY <3>2, Numbers DEF Row, RowFields, OutStates
      <4>. QED
        BY <3>2, <4>1 DEF Row, RowFields, Keeps, OutStates
    <3>3. Swept(h)[m] = new
      BY <2>1 DEF Swept
    <3>4. Keeps(tbl[h][m], new)
      BY <3>1, <3>2
    <3>. QED
      BY <3>1, <3>3, <3>4 DEF Keeps, Rows
  <2>2. CASE ~Stale(h, m)
    <3>1. Swept(h)[m] = tbl[h][m]
      BY <2>2 DEF Swept
    <3>. QED
      BY <3>1, Known DEF Keeps, Rows, Table, Exists
  <2>. QED
    BY <2>1, <2>2
<1>2. Swept(h) = [m \in MsgId |-> Swept(h)[m]]
  BY DEF Swept
<1>. QED
  BY <1>1, <1>2

LEMMA Unchanging ==
    ASSUME tbl \in Table, UNCHANGED tbl
    PROVE  tbl' \in Table /\ Evolves
<1>1. ASSUME NEW h \in Hosts, NEW m \in MsgId, Exists(h, m)
      PROVE  Keeps(tbl[h][m], tbl[h][m])
  BY <1>1, Known DEF Keeps
<1>. QED
  BY <1>1 DEF Evolves, Exists

LEMMA RowEvolves ==
    ASSUME tbl \in Table, NEW h \in Hosts, NEW m \in MsgId, Exists(h, m),
           NEW row, Keeps(tbl[h][m], row), tbl' = [tbl EXCEPT ![h][m] = row]
    PROVE  tbl' \in Table /\ Evolves
<1>1. row \in Rows
  BY DEF Keeps, Rows
<1>2. tbl' \in Table /\ \A g \in Hosts, n \in MsgId :
                            tbl'[g][n] = IF g = h /\ n = m THEN row ELSE tbl[g][n]
  BY <1>1 DEF Table
<1>3. ASSUME NEW g \in Hosts, NEW n \in MsgId
      PROVE  IF Exists(g, n) THEN Keeps(tbl[g][n], tbl'[g][n]) ELSE tbl'[g][n] = NoRow
  <2>1. CASE g = h /\ n = m
    BY <1>2, <2>1
  <2>2. CASE ~(g = h /\ n = m)
    BY <1>2, <2>2, Known DEF Keeps, Exists
  <2>. QED
    BY <2>1, <2>2
<1>. QED
  BY <1>2, <1>3 DEF Evolves

LEMMA HostEvolves ==
    ASSUME tbl \in Table, NEW h \in Hosts, NEW f, f = [m \in MsgId |-> f[m]],
           \A m \in MsgId : IF Exists(h, m) THEN Keeps(tbl[h][m], f[m]) ELSE f[m] = NoRow,
           tbl' = [tbl EXCEPT ![h] = f]
    PROVE  tbl' \in Table /\ Evolves
<1>0. \A m \in MsgId : f[m] \in Rows
  BY DEF Keeps, Rows
<1>1. f \in [MsgId -> Rows]
  BY <1>0
<1>2. tbl' \in Table /\ \A g \in Hosts, n \in MsgId :
                            tbl'[g][n] = IF g = h THEN f[n] ELSE tbl[g][n]
  BY <1>1 DEF Table
<1>3. ASSUME NEW g \in Hosts, NEW n \in MsgId
      PROVE  IF Exists(g, n) THEN Keeps(tbl[g][n], tbl'[g][n]) ELSE tbl'[g][n] = NoRow
  <2>1. CASE g = h
    BY <1>2, <2>1
  <2>2. CASE g # h
    BY <1>2, <2>2, Known DEF Keeps, Exists
  <2>. QED
    BY <2>1, <2>2
<1>. QED
  BY <1>2, <1>3 DEF Evolves

-----------------------------------------------------------------------------
(* What the actions do to the table *)

\* A pass at work has a host, and a pass that carries a message its row.
PassHolds ==
    \A p \in Passes :
        /\ ~At(p, "idle") => pass[p].host \in Hosts
        /\ pass[p].phase \in {"send", "resolve"} =>
              /\ pass[p].msg \in MsgId
              /\ Exists(pass[p].host, pass[p].msg)
              /\ IsOut(pass[p].host, pass[p].msg)

Adds(h, r, d) ==
    /\ ~Exists(h, r.id)
    /\ \E b \in Nat : tbl' = [tbl EXCEPT ![h][r.id] =
            NewRow(r, d, IF d = "outbound" THEN "queued" ELSE "accepted", b)]

LEMMA QueueAdds ==
    ASSUME tbl \in Table, NEW r \in Requests, Queue(r)
    PROVE  Adds(Home[r.src], r, IF Local(r) THEN "local" ELSE "outbound")
<1> DEFINE h == Home[r.src]
<1>1. NextBirths(h) \subseteq Nat
  <2>1. Births(h) \subseteq Nat
    BY RequestFacts, Known, RowFacts DEF Births
  <2>. QED
    BY <2>1 DEF NextBirths
<1>2. ~Exists(h, r.id)
  BY DEF Queue
<1>3. CASE Local(r)
  BY <1>2, <1>3 DEF Queue, Adds
<1>4. CASE ~Local(r)
  <2>1. PICK b \in NextBirths(h) :
            tbl' = [tbl EXCEPT ![h][r.id] = NewRow(r, "outbound", "queued", b)]
    BY <1>4 DEF Queue
  <2>2. b \in Nat
    BY <1>1
  <2>. QED
    BY <1>2, <1>4, <2>1, <2>2 DEF Adds
<1>. QED
  BY <1>3, <1>4

LEMMA ReceivedAdds ==
    ASSUME tbl \in Table, NEW r \in Requests, tbl' = Received(r)
    PROVE  \/ UNCHANGED tbl
           \/ Acceptable(Home[r.dst], r) /\ Adds(Home[r.dst], r, "inbound")
<1>1. CASE Acceptable(Home[r.dst], r)
  <2>1. tbl' = [tbl EXCEPT ![Home[r.dst]][r.id] = NewRow(r, "inbound", "accepted", 0)]
    BY <1>1 DEF Received
  <2>. QED
    BY <1>1, <2>1 DEF Adds, Acceptable
<1>2. CASE ~Acceptable(Home[r.dst], r)
  BY <1>2 DEF Received
<1>. QED
  BY <1>1, <1>2

LEMMA HandleEvolves ==
    ASSUME tbl \in Table, NEW h \in Hosts, NEW m \in MsgId, Handle(h, m)
    PROVE  tbl' \in Table /\ Evolves
<1>1. Exists(h, m) /\ InInbox(h, m) /\ tbl[h][m] \in Row
  BY Known DEF Handle
<1>2. ASSUME NEW row \in Row, row.dir # "outbound"
      PROVE  Keeps(row, [row EXCEPT !.state = "handled"])
  <2>1. [row EXCEPT !.state = "handled"] \in RowFields
    BY DEF Row, RowFields, InStates
  <2>. QED
    BY <1>2, <2>1 DEF Row, RowFields, Keeps, InStates
<1>3. Keeps(tbl[h][m], [tbl[h][m] EXCEPT !.state = "handled"])
  BY <1>1, <1>2 DEF InInbox
<1>4. tbl' = [tbl EXCEPT ![h][m] = [tbl[h][m] EXCEPT !.state = "handled"]]
  BY DEF Handle
<1>. QED
  BY <1>1, <1>3, <1>4, RowEvolves

LEMMA ClaimEvolves ==
    ASSUME tbl \in Table, NEW p \in Passes, pass[p].host \in Hosts, Claim(p)
    PROVE  /\ tbl' \in Table /\ Evolves
           /\ \E m \in MsgId :
                /\ Exists(pass[p].host, m) /\ IsOut(pass[p].host, m)
                /\ pass' = [pass EXCEPT ![p].phase = "send", ![p].msg = m,
                                        ![p].verdict = "none", ![p].age = 0]
<1> DEFINE h == pass[p].host
<1>1. PICK m \in Oldest(h) :
        /\ tbl' = [tbl EXCEPT ![h] = [Swept(h) EXCEPT ![m].state = "sending",
                                                      ![m].owner = p,
                                                      ![m].age = 0]]
        /\ pass' = [pass EXCEPT ![p].phase = "send", ![p].msg = m,
                                ![p].verdict = "none", ![p].age = 0]
  BY DEF Claim
<1>2. m \in MsgId /\ Exists(h, m) /\ IsOut(h, m)
  BY DEF Oldest, Claimable
<1> DEFINE s == Swept(h)
           claimed == [s[m] EXCEPT !.state = "sending", !.owner = p, !.age = 0]
           f == [s EXCEPT ![m] = claimed]
<1>3. /\ s \in [MsgId -> Rows]
      /\ \A n \in MsgId : IF Exists(h, n) THEN Keeps(tbl[h][n], s[n]) ELSE s[n] = NoRow
  BY SweptFacts
<1>4. tbl' = [tbl EXCEPT ![h] = f]
  BY <1>1
<1>5. Keeps(tbl[h][m], claimed)
  <2>1. s[m] \in Row /\ s[m].req = tbl[h][m].req /\ s[m].dir = tbl[h][m].dir
    BY <1>2, <1>3 DEF Keeps
  <2>2. ASSUME NEW row \in Row, row.dir = "outbound"
        PROVE  Keeps(row, [row EXCEPT !.state = "sending", !.owner = p, !.age = 0])
    <3>1. [row EXCEPT !.state = "sending", !.owner = p, !.age = 0] \in RowFields
      BY <2>2, Numbers DEF Row, RowFields, OutStates
    <3>. QED
      BY <2>2, <3>1 DEF Row, RowFields, Keeps, OutStates
  <2>. QED
    BY <1>2, <2>1, <2>2 DEF IsOut, Keeps
<1> HIDE DEF claimed, s
<1>6. f = [n \in MsgId |-> f[n]]
  BY <1>3
<1>7. \A n \in MsgId : IF Exists(h, n) THEN Keeps(tbl[h][n], f[n]) ELSE f[n] = NoRow
  BY <1>2, <1>3, <1>5
<1> HIDE DEF f
<1>8. tbl' \in Table /\ Evolves
  BY <1>4, <1>6, <1>7, HostEvolves
<1>. QED
  BY <1>1, <1>2, <1>8

LEMMA ClaimNothingEvolves ==
    ASSUME tbl \in Table, NEW p \in Passes, pass[p].host \in Hosts, ClaimNothing(p)
    PROVE  tbl' \in Table /\ Evolves
<1> DEFINE h == pass[p].host
           s == Swept(h)
<1>1. tbl' = [tbl EXCEPT ![h] = s]
  BY DEF ClaimNothing
<1>2. /\ s \in [MsgId -> Rows]
      /\ \A n \in MsgId : IF Exists(h, n) THEN Keeps(tbl[h][n], s[n]) ELSE s[n] = NoRow
  BY SweptFacts
<1> HIDE DEF s
<1>. QED
  BY <1>1, <1>2, HostEvolves

LEMMA DelayBounds ==
    ASSUME NEW n \in Nat
    PROVE  Least(n, MaxExponent) \in 0..MaxExponent /\ Delay(n) \in 0..MaxDelay
<1>1. Least(n, MaxExponent) \in 0..MaxExponent
  BY Numbers DEF Least
<1>2. 2^Least(n, MaxExponent) \in Nat
  BY <1>1
<1>. QED
  BY <1>1, <1>2, Numbers DEF Delay, Least

LEMMA ResolveEvolves ==
    ASSUME tbl \in Table, PassHolds, NEW p \in Passes,
           AcknowledgeOutbound(p) \/ Release(p)
    PROVE  tbl' \in Table /\ Evolves
<1> DEFINE h == pass[p].host
           m == pass[p].msg
           n == tbl[h][m].attempts + 1
<1>1. At(p, "resolve")
  BY DEF AcknowledgeOutbound, Release
<1>2. h \in Hosts /\ m \in MsgId /\ Exists(h, m) /\ IsOut(h, m) /\ tbl[h][m] \in Row
  <2>1. h \in Hosts /\ m \in MsgId /\ Exists(h, m) /\ IsOut(h, m)
    BY <1>1 DEF PassHolds, At
  <2>. QED
    BY <2>1, Known
<1>3. n \in Nat
  BY <1>2, RowFacts
<1>4. ASSUME NEW row \in Row, row.dir = "outbound", NEW s \in OutStates,
             NEW d \in 0..MaxDelay, NEW k \in 0..MaxExponent
      PROVE  Keeps(row, [row EXCEPT !.state = s, !.owner = Nobody, !.age = 0,
                                    !.due = d, !.attempts = k])
  <2>1. [row EXCEPT !.state = s, !.owner = Nobody, !.age = 0, !.due = d, !.attempts = k]
            \in RowFields
    BY <1>4, Numbers DEF Row, RowFields
  <2>. QED
    BY <1>4, <2>1 DEF Row, RowFields, Keeps
<1>5. Least(n, MaxExponent) \in 0..MaxExponent /\ Delay(n) \in 0..MaxDelay
  BY <1>3, DelayBounds
<1> HIDE DEF n
<1>6. CASE AcknowledgeOutbound(p)
  <2> DEFINE new == [tbl[h][m] EXCEPT !.state = "acknowledged", !.owner = Nobody,
                        !.age = 0, !.due = 0, !.attempts = Least(n, MaxExponent)]
  <2>1. tbl' = [tbl EXCEPT ![h][m] = new]
    BY <1>6 DEF AcknowledgeOutbound, n
  <2>2. Keeps(tbl[h][m], new)
    BY <1>2, <1>4, <1>5, Numbers DEF OutStates, IsOut
  <2> HIDE DEF new
  <2>. QED
    BY <1>2, <2>1, <2>2, RowEvolves
<1>7. CASE Release(p)
  <2> DEFINE new == [tbl[h][m] EXCEPT !.state = "retry", !.owner = Nobody,
                        !.age = 0, !.due = Delay(n), !.attempts = Least(n, MaxExponent)]
  <2>1. tbl' = [tbl EXCEPT ![h][m] = new]
    BY <1>7 DEF Release, n
  <2>2. Keeps(tbl[h][m], new)
    BY <1>2, <1>4, <1>5 DEF OutStates, IsOut
  <2> HIDE DEF new
  <2>. QED
    BY <1>2, <2>1, <2>2, RowEvolves
<1>. QED
  BY <1>6, <1>7

LEMMA RecordEvolves ==
    ASSUME tbl \in Table, NEW p \in Passes, pass[p].host \in Hosts, RecordNotified(p)
    PROVE  tbl' \in Table /\ Evolves
<1> DEFINE h == pass[p].host
           f == [m \in MsgId |->
                  IF m \in pass[p].group /\ Exists(h, m) /\ tbl[h][m].state = "accepted"
                  THEN [tbl[h][m] EXCEPT !.notified = TRUE]
                  ELSE tbl[h][m]]
<1>1. tbl' = [tbl EXCEPT ![h] = f]
  BY DEF RecordNotified
<1>2. ASSUME NEW row \in Row
      PROVE  Keeps(row, [row EXCEPT !.notified = TRUE]) /\ Keeps(row, row)
  <2>1. [row EXCEPT !.notified = TRUE] \in RowFields
    BY DEF Row, RowFields
  <2>. QED
    BY <2>1 DEF Row, RowFields, Keeps
<1>3. ASSUME NEW m \in MsgId
      PROVE  IF Exists(h, m) THEN Keeps(tbl[h][m], f[m]) ELSE f[m] = NoRow
  <2>1. CASE Exists(h, m)
    BY <1>2, <2>1, Known
  <2>2. CASE ~Exists(h, m)
    BY <2>2 DEF Exists
  <2>. QED
    BY <2>1, <2>2
<1>4. f = [m \in MsgId |-> f[m]]
  OBVIOUS
<1> HIDE DEF f
<1>. QED
  BY <1>1, <1>3, <1>4, HostEvolves

LEMMA CrashEvolves ==
    ASSUME tbl \in Table, NEW p \in Passes, pass[p].host \in Hosts, Crash(p)
    PROVE  tbl' \in Table /\ Evolves
<1> DEFINE h == pass[p].host
           f == [m \in MsgId |->
                  IF Exists(h, m) /\ tbl[h][m].owner = p
                  THEN [tbl[h][m] EXCEPT !.owner = Nobody]
                  ELSE tbl[h][m]]
<1>1. tbl' = [tbl EXCEPT ![h] = f]
  BY DEF Crash
<1>2. ASSUME NEW row \in Row
      PROVE  Keeps(row, [row EXCEPT !.owner = Nobody]) /\ Keeps(row, row)
  <2>1. [row EXCEPT !.owner = Nobody] \in RowFields
    BY DEF Row, RowFields
  <2>. QED
    BY <2>1 DEF Row, RowFields, Keeps
<1>3. ASSUME NEW m \in MsgId
      PROVE  IF Exists(h, m) THEN Keeps(tbl[h][m], f[m]) ELSE f[m] = NoRow
  <2>1. CASE Exists(h, m)
    BY <1>2, <2>1, Known
  <2>2. CASE ~Exists(h, m)
    BY <2>2 DEF Exists
  <2>. QED
    BY <2>1, <2>2
<1>4. f = [m \in MsgId |-> f[m]]
  OBVIOUS
<1> HIDE DEF f
<1>. QED
  BY <1>1, <1>3, <1>4, HostEvolves

LEMMA TickEvolves ==
    ASSUME tbl \in Table, Tick
    PROVE  tbl' \in Table /\ Evolves
<1>1. ASSUME NEW row \in Row PROVE Keeps(row, Older(row))
  <2> DEFINE a == IF row.state = "sending" THEN Least(row.age + 1, Lease) ELSE row.age
             d == IF row.due > 0 THEN row.due - 1 ELSE 0
             new == [row EXCEPT !.age = a, !.due = d]
  <2>1. a \in Nat /\ d \in 0..MaxDelay
    BY RowFacts, Numbers DEF Least
  <2>2. Older(row) = new
    BY RowFacts DEF Older
  <2> HIDE DEF a, d
  <2>3. new \in RowFields
    BY <2>1 DEF Row, RowFields
  <2>. QED
    BY <2>2, <2>3 DEF Row, RowFields, Keeps
<1>2. Older(NoRow) = NoRow
  BY DEF Older
<1>3. ASSUME NEW h \in Hosts, NEW m \in MsgId
      PROVE  /\ tbl'[h][m] = Older(tbl[h][m])
             /\ tbl'[h][m] \in Rows
             /\ IF Exists(h, m) THEN Keeps(tbl[h][m], tbl'[h][m]) ELSE tbl'[h][m] = NoRow
  <2>1. tbl'[h][m] = Older(tbl[h][m])
    BY DEF Tick
  <2>2. CASE Exists(h, m)
    BY <1>1, <2>1, <2>2, Known DEF Keeps, Rows
  <2>3. CASE ~Exists(h, m)
    BY <1>2, <2>1, <2>3 DEF Exists, Rows
  <2>. QED
    BY <2>1, <2>2, <2>3
<1>4. tbl' = [h \in Hosts |-> [m \in MsgId |-> tbl'[h][m]]]
  BY DEF Tick
<1>. QED
  BY <1>3, <1>4 DEF Table, Evolves

-----------------------------------------------------------------------------
(* What the actions do to the passes *)

Carries(x) == x.phase \in {"send", "resolve"}

Fits(x) ==
    /\ x.phase # "idle" => x.host \in Hosts
    /\ Carries(x) => x.msg \in MsgId /\ Exists(x.host, x.msg) /\ IsOut(x.host, x.msg)

\* A pass may become x: a receipt comes from a receiver, for the same message.
Becomes(p, x) ==
    /\ x \in Pass
    /\ Fits(x)
    /\ pass' = [pass EXCEPT ![p] = x]
    /\ Carries(x) /\ x.verdict = "receipt" =>
            /\ Carries(pass[p])
            /\ x.host = pass[p].host /\ x.msg = pass[p].msg
            /\ \/ pass[p].verdict = "receipt"
               \/ Deliver(p) /\ Answer(Payload(p)) = "receipt"

LEMMA PassFits ==
    ASSUME PassHolds, NEW p \in Passes
    PROVE  Fits(pass[p])
BY DEF PassHolds, Fits, Carries, At

LEMMA IdleFits == Idle \in Pass /\ Fits(Idle) /\ ~Carries(Idle)
BY DEF Idle, Pass, Phases, Fits, Carries

LEMMA FreshFits ==
    ASSUME NEW h \in Hosts, NEW phase \in {"deliver", "notify"}
    PROVE  LET x == [Idle EXCEPT !.phase = phase, !.host = h]
           IN  x \in Pass /\ Fits(x) /\ ~Carries(x)
BY DEF Idle, Pass, Phases, Fits, Carries

LEMMA TurnBecomes ==
    ASSUME NEW p \in Passes, pass[p].host \in Hosts, NEW phase \in {"deliver", "notify"},
           TurnsTo(p, phase)
    PROVE  \E x : Becomes(p, x)
<1> DEFINE x == [Idle EXCEPT !.phase = phase, !.host = pass[p].host]
<1>1. x \in Pass /\ Fits(x) /\ ~Carries(x)
  BY FreshFits
<1>2. pass' = [pass EXCEPT ![p] = x]
  BY DEF TurnsTo
<1> HIDE DEF x
<1>. QED
  BY <1>1, <1>2 DEF Becomes

LEMMA QuitBecomes ==
    ASSUME NEW p \in Passes, Quits(p)
    PROVE  \E x : Becomes(p, x)
BY IdleFits DEF Becomes, Quits

LEMMA BeginBecomes ==
    ASSUME NEW p \in Passes, NEW h \in Hosts, BeginDelivery(p, h) \/ BeginNotices(p, h)
    PROVE  \E x : Becomes(p, x)
<1>1. PICK phase \in {"deliver", "notify"} :
            pass' = [pass EXCEPT ![p] = [Idle EXCEPT !.phase = phase, !.host = h]]
  BY DEF BeginDelivery, BeginNotices, Begins
<1> DEFINE x == [Idle EXCEPT !.phase = phase, !.host = h]
<1>2. x \in Pass /\ Fits(x) /\ ~Carries(x)
  BY FreshFits
<1>3. pass' = [pass EXCEPT ![p] = x]
  BY <1>1
<1> HIDE DEF x
<1>. QED
  BY <1>2, <1>3 DEF Becomes

LEMMA CallBecomes ==
    ASSUME TypeOK, PassHolds, NEW p \in Passes,
           Claim(p) \/ ClaimNothing(p) \/ Deliver(p) \/ Return(p) \/ GiveUp(p)
    PROVE  \E x : Becomes(p, x)
<1>0. pass[p] \in Pass /\ Fits(pass[p]) /\ pass \in [Passes -> Pass] /\ tbl \in Table
  BY PassFits DEF TypeOK, Table, Rows
<1>1. CASE Claim(p)
  <2>1. pass[p].host \in Hosts /\ pass[p].phase = "deliver"
    BY <1>0, <1>1 DEF Claim, At, Fits
  <2>2. PICK m \in MsgId :
            /\ Exists(pass[p].host, m) /\ IsOut(pass[p].host, m)
            /\ pass' = [pass EXCEPT ![p].phase = "send", ![p].msg = m,
                                    ![p].verdict = "none", ![p].age = 0]
    BY <1>0, <1>1, <2>1, ClaimEvolves
  <2> DEFINE x == [pass[p] EXCEPT !.phase = "send", !.msg = m, !.verdict = "none", !.age = 0]
  <2>3. pass' = [pass EXCEPT ![p] = x]
    BY <2>2
  <2>4. x \in Pass /\ x.host = pass[p].host /\ x.msg = m /\ x.verdict = "none"
    BY <1>0 DEF Pass, Phases
  <2> HIDE DEF x
  <2>. QED
    BY <2>1, <2>2, <2>3, <2>4 DEF Becomes, Fits
<1>2. CASE ClaimNothing(p)
  <2>1. pass[p].host \in Hosts
    BY <1>0, <1>2 DEF ClaimNothing, At, Fits
  <2>2. CASE Goes(p, "notify")
    <3> DEFINE x == [pass[p] EXCEPT !.phase = "notify", !.age = 0]
    <3>1. pass' = [pass EXCEPT ![p] = x]
      BY <2>2 DEF Goes
    <3>2. x \in Pass /\ x.host = pass[p].host /\ x.phase = "notify"
      BY <1>0 DEF Pass, Phases
    <3> HIDE DEF x
    <3>. QED
      BY <2>1, <3>1, <3>2 DEF Becomes, Fits, Carries
  <2>. QED
    BY <1>2, <2>2, QuitBecomes DEF ClaimNothing
<1>3. CASE Deliver(p)
  <2> DEFINE x == [pass[p] EXCEPT !.verdict = Answer(Payload(p))]
  <2>1. pass' = [pass EXCEPT ![p] = x] /\ pass[p].phase = "send"
    BY <1>3 DEF Deliver, At
  <2>2. /\ x \in Pass /\ x.host = pass[p].host /\ x.msg = pass[p].msg /\ x.phase = "send"
        /\ x.verdict = Answer(Payload(p))
    BY <1>0, <2>1 DEF Pass, Phases, Answer
  <2> HIDE DEF x
  <2>. QED
    BY <1>0, <1>3, <2>1, <2>2 DEF Becomes, Fits, Carries
<1>4. CASE Return(p)
  <2> DEFINE x == [pass[p] EXCEPT !.phase = "resolve", !.age = 0]
  <2>1. pass' = [pass EXCEPT ![p] = x] /\ pass[p].phase = "send"
    BY <1>4 DEF Return, Goes, At
  <2>2. /\ x \in Pass /\ x.host = pass[p].host /\ x.msg = pass[p].msg
        /\ x.phase = "resolve" /\ x.verdict = pass[p].verdict
    BY <1>0 DEF Pass, Phases
  <2> HIDE DEF x
  <2>. QED
    BY <1>0, <2>1, <2>2 DEF Becomes, Fits, Carries
<1>5. CASE GiveUp(p)
  <2> DEFINE x == [pass[p] EXCEPT !.phase = "resolve", !.age = 0, !.verdict = "failed"]
  <2>1. pass' = [pass EXCEPT ![p] = x] /\ pass[p].phase = "send"
    BY <1>5 DEF GiveUp, At
  <2>2. /\ x \in Pass /\ x.host = pass[p].host /\ x.msg = pass[p].msg
        /\ x.phase = "resolve" /\ x.verdict = "failed"
    BY <1>0 DEF Pass, Phases
  <2> HIDE DEF x
  <2>. QED
    BY <1>0, <2>1, <2>2 DEF Becomes, Fits, Carries
<1>. QED
  BY <1>1, <1>2, <1>3, <1>4, <1>5

LEMMA ResolveBecomes ==
    ASSUME PassHolds, NEW p \in Passes,
           AcknowledgeOutbound(p) \/ Release(p) \/ ClaimLost(p)
    PROVE  \E x : Becomes(p, x)
<1>1. pass[p].host \in Hosts
  BY PassFits DEF AcknowledgeOutbound, Release, ClaimLost, At, Fits
<1>2. TurnsTo(p, "deliver") \/ TurnsTo(p, "notify") \/ Quits(p)
  BY DEF AcknowledgeOutbound, Release, ClaimLost
<1>. QED
  BY <1>1, <1>2, TurnBecomes, QuitBecomes

LEMMA NoticeBecomes ==
    ASSUME TypeOK, PassHolds, NEW p \in Passes, NoticeStep(p)
    PROVE  \E x : Becomes(p, x)
<1>0. pass[p] \in Pass /\ Fits(pass[p])
  BY PassFits DEF TypeOK
<1>1. CASE ReadPending(p)
  <2>1. pass[p].host \in Hosts
    BY <1>0, <1>1 DEF ReadPending, At, Fits
  <2> DEFINE u == Unannounced(pass[p].host)
  <2>2. CASE u = {}
    BY <1>1, <2>2, QuitBecomes DEF ReadPending, Quits
  <2>3. CASE u # {}
    <3> DEFINE x == [pass[p] EXCEPT !.phase = "wake", !.age = 0, !.todo = u]
    <3>1. pass' = [pass EXCEPT ![p] = x]
      BY <1>1, <2>3 DEF ReadPending
    <3>2. u \subseteq MsgId
      BY DEF Unannounced
    <3> HIDE DEF u
    <3>3. x \in Pass /\ x.host = pass[p].host /\ x.phase = "wake"
      BY <1>0, <3>2 DEF Pass, Phases
    <3> HIDE DEF x
    <3>. QED
      BY <2>1, <3>1, <3>3 DEF Becomes, Fits, Carries
  <2>. QED
    BY <2>2, <2>3
<1>2. ASSUME NEW mi \in Missions, Wake(p, mi) PROVE \E x : Becomes(p, x)
  <2>1. pass[p].host \in Hosts
    BY <1>0, <1>2 DEF Wake, At, Fits
  <2> DEFINE g == GroupOf(p, mi)
             x == [pass[p] EXCEPT !.phase = "record", !.age = 0, !.group = g, !.todo = @ \ g]
  <2>2. pass' = [pass EXCEPT ![p] = x]
    BY <1>2 DEF Wake
  <2>3. g \subseteq MsgId
    BY <1>0 DEF GroupOf, Pass
  <2> HIDE DEF g
  <2>4. x \in Pass /\ x.host = pass[p].host /\ x.phase = "record"
    BY <1>0, <2>3 DEF Pass, Phases
  <2> HIDE DEF x
  <2>. QED
    BY <2>1, <2>2, <2>4 DEF Becomes, Fits, Carries
<1>3. ASSUME NEW rest \in SUBSET MsgId, pass[p].host \in Hosts,
             pass' = [pass EXCEPT ![p] = AfterGroup(p, rest)]
      PROVE  \E x : Becomes(p, x)
  <2>1. CASE rest = {}
    BY <1>3, <2>1, QuitBecomes DEF AfterGroup, Quits
  <2>2. CASE rest # {}
    <3> DEFINE x == [pass[p] EXCEPT !.phase = "wake", !.age = 0, !.todo = rest, !.group = {}]
    <3>1. pass' = [pass EXCEPT ![p] = x]
      BY <1>3, <2>2 DEF AfterGroup
    <3>2. x \in Pass /\ x.host = pass[p].host /\ x.phase = "wake"
      BY <1>0 DEF Pass, Phases
    <3> HIDE DEF x
    <3>. QED
      BY <1>3, <3>1, <3>2 DEF Becomes, Fits, Carries
  <2>. QED
    BY <2>1, <2>2
<1>4. ASSUME NEW mi \in Missions, WakeFailed(p, mi) PROVE \E x : Becomes(p, x)
  <2>1. pass[p].host \in Hosts
    BY <1>0, <1>4 DEF WakeFailed, At, Fits
  <2>2. pass[p].todo \ GroupOf(p, mi) \in SUBSET MsgId
    BY <1>0 DEF Pass
  <2>. QED
    BY <1>3, <1>4, <2>1, <2>2 DEF WakeFailed
<1>5. CASE RecordNotified(p)
  <2>1. pass[p].host \in Hosts
    BY <1>0, <1>5 DEF RecordNotified, At, Fits
  <2>2. pass[p].todo \in SUBSET MsgId
    BY <1>0 DEF Pass
  <2>. QED
    BY <1>3, <1>5, <2>1, <2>2 DEF RecordNotified
<1>. QED
  BY <1>1, <1>2, <1>4, <1>5 DEF NoticeStep

-----------------------------------------------------------------------------
(* Type correctness *)

LEMMA AddsFacts ==
    ASSUME tbl \in Table, NEW h \in Hosts, NEW r \in Requests,
           NEW d \in {"local", "outbound", "inbound"}, Adds(h, r, d)
    PROVE  /\ tbl' \in Table
           /\ tbl'[h][r.id] \in Row
           /\ tbl'[h][r.id].req = r /\ tbl'[h][r.id].dir = d
           /\ tbl'[h][r.id].state = IF d = "outbound" THEN "queued" ELSE "accepted"
           /\ \A g \in Hosts, m \in MsgId : ~(g = h /\ m = r.id) => tbl'[g][m] = tbl[g][m]
<1> DEFINE s == IF d = "outbound" THEN "queued" ELSE "accepted"
<1>1. PICK b \in Nat : tbl' = [tbl EXCEPT ![h][r.id] = NewRow(r, d, s, b)]
  BY DEF Adds
<1> DEFINE row == NewRow(r, d, s, b)
<1>2. row \in Row /\ row.req = r /\ row.dir = d /\ row.state = s
  BY NewRowFacts
<1>3. tbl' = [tbl EXCEPT ![h][r.id] = row]
  BY <1>1
<1>4. r.id \in MsgId
  BY RequestFacts
<1> HIDE DEF row, s
<1>5. /\ tbl' \in Table
      /\ tbl'[h][r.id] = row
      /\ \A g \in Hosts, m \in MsgId : ~(g = h /\ m = r.id) => tbl'[g][m] = tbl[g][m]
  BY <1>2, <1>3, <1>4 DEF Table, Rows
<1>. QED
  BY <1>2, <1>5 DEF s

LEMMA PayloadFacts ==
    ASSUME TypeOK, PassHolds, NEW p \in Passes, Carries(pass[p])
    PROVE  /\ Payload(p) \in Requests
           /\ pass[p].host \in Hosts /\ pass[p].msg \in MsgId
           /\ Exists(pass[p].host, pass[p].msg) /\ IsOut(pass[p].host, pass[p].msg)
<1>1. /\ pass[p].host \in Hosts /\ pass[p].msg \in MsgId
      /\ Exists(pass[p].host, pass[p].msg) /\ IsOut(pass[p].host, pass[p].msg)
  BY DEF PassHolds, Carries, At
<1>2. tbl[pass[p].host][pass[p].msg] \in Row
  BY <1>1, Known DEF TypeOK, Table, Rows
<1>. QED
  BY <1>1, <1>2, RowFacts DEF Payload

\* The envelope of r is under way.
OnItsWay(r) == r \in late \/ \E p \in Passes : Carries(pass[p]) /\ r = Payload(p)

Sends(r)  == Queue(r) /\ Adds(Home[r.src], r, IF Local(r) THEN "local" ELSE "outbound")
Enters(r) ==
    /\ OnItsWay(r)
    /\ Acceptable(Home[r.dst], r)
    /\ Adds(Home[r.dst], r, "inbound")

LEMMA TableStep ==
    ASSUME TypeOK, PassHolds, Next
    PROVE  /\ tbl' \in Table
           /\ Evolves \/ \E r \in Requests : Sends(r) \/ Enters(r)
<1>0. tbl \in Table
  BY DEF TypeOK, Table, Rows
<1> DEFINE Goal == /\ tbl' \in Table
                   /\ Evolves \/ \E r \in Requests : Sends(r) \/ Enters(r)
<1>1. CASE UNCHANGED tbl
  BY <1>0, <1>1, Unchanging
<1>2. ASSUME NEW r \in Requests, Queue(r) PROVE Goal
  <2>1. Sends(r)
    BY <1>0, <1>2, QueueAdds DEF Sends
  <2>2. tbl' \in Table
    BY <1>0, <2>1, RequestFacts, AddsFacts DEF Sends
  <2>. QED
    BY <2>1, <2>2
<1>3. ASSUME NEW r \in Requests, OnItsWay(r), tbl' = Received(r) PROVE Goal
  <2>1. CASE UNCHANGED tbl
    BY <1>1, <2>1
  <2>2. CASE Acceptable(Home[r.dst], r) /\ Adds(Home[r.dst], r, "inbound")
    <3>1. Enters(r)
      BY <1>3, <2>2 DEF Enters
    <3>2. tbl' \in Table
      BY <1>0, <2>2, RequestFacts, AddsFacts
    <3>. QED
      BY <3>1, <3>2
  <2>. QED
    BY <1>0, <1>3, <2>1, <2>2, ReceivedAdds
<1>4. ASSUME NEW r \in Requests, ArriveLate(r) PROVE Goal
  BY <1>3, <1>4 DEF ArriveLate, OnItsWay
<1>5. ASSUME NEW h \in Hosts, NEW m \in MsgId, Handle(h, m) PROVE Goal
  BY <1>0, <1>5, HandleEvolves
<1>6. ASSUME NEW p \in Passes, DeliveryStep(p) PROVE Goal
  <2>1. CASE Claim(p) \/ ClaimNothing(p)
    <3>1. pass[p].host \in Hosts
      BY <2>1 DEF PassHolds, Claim, ClaimNothing, At
    <3>. QED
      BY <1>0, <2>1, <3>1, ClaimEvolves, ClaimNothingEvolves
  <2>2. CASE Deliver(p)
    <3>1. Carries(pass[p])
      BY <2>2 DEF Deliver, At, Carries
    <3>2. Payload(p) \in Requests /\ OnItsWay(Payload(p))
      BY <3>1, PayloadFacts DEF OnItsWay
    <3>. QED
      BY <1>3, <2>2, <3>2 DEF Deliver
  <2>3. CASE Return(p) \/ GiveUp(p) \/ ClaimLost(p)
    BY <1>1, <2>3 DEF Return, GiveUp, ClaimLost
  <2>4. CASE AcknowledgeOutbound(p) \/ Release(p)
    BY <1>0, <2>4, ResolveEvolves
  <2>. QED
    BY <1>6, <2>1, <2>2, <2>3, <2>4 DEF DeliveryStep
<1>7. ASSUME NEW p \in Passes, NoticeStep(p) PROVE Goal
  <2>1. CASE RecordNotified(p)
    <3>1. pass[p].host \in Hosts
      BY <2>1 DEF PassHolds, RecordNotified, At
    <3>. QED
      BY <1>0, <2>1, <3>1, RecordEvolves
  <2>2. CASE ~RecordNotified(p)
    BY <1>1, <1>7, <2>2 DEF NoticeStep, ReadPending, Wake, WakeFailed
  <2>. QED
    BY <2>1, <2>2
<1>8. ASSUME NEW p \in Passes, Crash(p) PROVE Goal
  <2>1. pass[p].host \in Hosts
    BY <1>8 DEF PassHolds, Crash, At
  <2>. QED
    BY <1>0, <1>8, <2>1, CrashEvolves
<1>9. ASSUME Tick PROVE Goal
  BY <1>0, <1>9, TickEvolves
<1>10. ASSUME NEW p \in Passes, NEW h \in Hosts, BeginDelivery(p, h) \/ BeginNotices(p, h)
       PROVE  Goal
  BY <1>1, <1>10 DEF BeginDelivery, BeginNotices, Begins
<1>11. ASSUME NEW mi \in Missions, StartPM(mi) PROVE Goal
  BY <1>1, <1>11 DEF StartPM
<1>12. ASSUME NEW l \in Missions, NEW r \in Missions, NEW d \in Upserted, UpsertRoute(l, r, d)
       PROVE  Goal
  BY <1>1, <1>12 DEF UpsertRoute
<1> HIDE DEF Goal
<1>13. Goal
  <2>1. ASSUME NEW p \in Passes, PassStep(p) PROVE Goal
    BY <1>6, <1>7, <2>1 DEF PassStep
  <2>2. CASE \E r \in Requests : Queue(r) \/ ArriveLate(r)
    BY <1>2, <1>4, <2>2
  <2>3. CASE \E l, r \in Missions, d \in Upserted : UpsertRoute(l, r, d)
    BY <1>12, <2>3
  <2>4. CASE \E p \in Passes :
                \/ PassStep(p)
                \/ \E h \in Hosts : BeginDelivery(p, h) \/ BeginNotices(p, h)
                \/ Crash(p)
    BY <1>8, <1>10, <2>1, <2>4
  <2>. QED
    BY <1>5, <1>9, <1>11, <2>2, <2>3, <2>4 DEF Next
<1>. QED
  BY <1>13 DEF Goal

LEMMA Lasting ==
    ASSUME TypeOK, PassHolds, Next, NEW h \in Hosts, NEW m \in MsgId, Exists(h, m)
    PROVE  /\ Keeps(tbl[h][m], tbl'[h][m])
           /\ Exists(h, m)' /\ (IsOut(h, m) => IsOut(h, m)')
<1>0. tbl \in Table
  BY DEF TypeOK, Table, Rows
<1>1. Keeps(tbl[h][m], tbl'[h][m])
  <2>1. CASE Evolves
    BY <2>1 DEF Evolves
  <2>2. ASSUME NEW g \in Hosts, NEW r \in Requests, NEW d \in {"local", "outbound", "inbound"},
               Adds(g, r, d)
        PROVE  Keeps(tbl[h][m], tbl'[h][m])
    <3>1. ~(h = g /\ m = r.id)
      BY <2>2 DEF Adds
    <3>2. tbl'[h][m] = tbl[h][m]
      BY <1>0, <2>2, <3>1, AddsFacts
    <3>. QED
      BY <1>0, <3>2, Known DEF Keeps
  <2>3. ASSUME NEW r \in Requests, Sends(r) PROVE Keeps(tbl[h][m], tbl'[h][m])
    BY <2>2, <2>3, RequestFacts DEF Sends
  <2>4. ASSUME NEW r \in Requests, Enters(r) PROVE Keeps(tbl[h][m], tbl'[h][m])
    BY <2>2, <2>4, RequestFacts DEF Enters
  <2>. QED
    BY <2>1, <2>3, <2>4, TableStep
<1>. QED
  BY <1>1, RowFacts DEF Keeps, Exists, IsOut

\* A receipt that a pass holds after a step it had before, or it is new.
Receives(q) ==
    Carries(pass'[q]) /\ pass'[q].verdict = "receipt" =>
        /\ Carries(pass[q])
        /\ pass'[q].host = pass[q].host /\ pass'[q].msg = pass[q].msg
        /\ \/ pass[q].verdict = "receipt"
           \/ Deliver(q) /\ Answer(Payload(q)) = "receipt"

LEMMA PassesStep ==
    ASSUME TypeOK, PassHolds, Next
    PROVE  /\ pass' \in [Passes -> Pass]
           /\ \A q \in Passes : Fits(pass'[q]) /\ Receives(q)
<1> DEFINE Goal == /\ pass' \in [Passes -> Pass]
                   /\ \A q \in Passes : Fits(pass'[q]) /\ Receives(q)
<1>0. pass \in [Passes -> Pass] /\ \A q \in Passes : Fits(pass[q])
  BY PassFits DEF TypeOK
<1>1. CASE UNCHANGED pass
  BY <1>0, <1>1 DEF Receives
<1>2. ASSUME NEW p \in Passes, \E x : Becomes(p, x) PROVE Goal
  <2>1. PICK x : Becomes(p, x)
    BY <1>2
  <2>2. x \in Pass /\ Fits(x) /\ pass' = [pass EXCEPT ![p] = x]
    BY <2>1 DEF Becomes
  <2>3. pass' \in [Passes -> Pass] /\ pass'[p] = x
            /\ \A q \in Passes : q # p => pass'[q] = pass[q]
    BY <1>0, <2>2
  <2>4. Receives(p)
    BY <2>1, <2>3 DEF Becomes, Receives
  <2>5. ASSUME NEW q \in Passes PROVE Fits(pass'[q]) /\ Receives(q)
    <3>1. CASE q = p
      BY <2>2, <2>3, <2>4, <3>1
    <3>2. CASE q # p
      BY <1>0, <2>3, <3>2 DEF Receives
    <3>. QED
      BY <3>1, <3>2
  <2>. QED
    BY <2>3, <2>5
<1>3. ASSUME NEW p \in Passes, PassStep(p) PROVE Goal
  BY <1>2, <1>3, CallBecomes, ResolveBecomes, NoticeBecomes DEF PassStep, DeliveryStep
<1>4. ASSUME NEW p \in Passes, NEW h \in Hosts, BeginDelivery(p, h) \/ BeginNotices(p, h)
      PROVE  Goal
  BY <1>2, <1>4, BeginBecomes
<1>5. ASSUME NEW p \in Passes, Crash(p) PROVE Goal
  BY <1>2, <1>5, QuitBecomes DEF Crash
<1>6. ASSUME Tick PROVE Goal
  <2>1. ASSUME NEW q \in Passes
        PROVE  /\ pass'[q] \in Pass
               /\ pass'[q].phase = pass[q].phase /\ pass'[q].host = pass[q].host
               /\ pass'[q].msg = pass[q].msg /\ pass'[q].verdict = pass[q].verdict
    <3>1. pass'[q] = [pass[q] EXCEPT !.age = AgeAfter(q)]
      BY <1>6 DEF Tick
    <3>2. pass[q] \in Pass
      BY <1>0
    <3>3. AgeAfter(q) \in Nat
      <4>1. pass[q].age \in Nat
        BY <3>2 DEF Pass
      <4>. QED
        BY <4>1, Numbers DEF AgeAfter, Least
    <3>. QED
      BY <3>1, <3>2, <3>3 DEF Pass
  <2>2. pass' = [q \in Passes |-> pass'[q]]
    BY <1>6 DEF Tick
  <2>. QED
    BY <1>0, <2>1, <2>2 DEF Fits, Carries, Receives
<1>7. ASSUME NEW r \in Requests, Queue(r) \/ ArriveLate(r) PROVE Goal
  BY <1>1, <1>7 DEF Queue, ArriveLate
<1>8. ASSUME NEW h \in Hosts, NEW m \in MsgId, Handle(h, m) PROVE Goal
  BY <1>1, <1>8 DEF Handle
<1>9. ASSUME NEW l \in Missions, NEW r \in Missions, NEW d \in Upserted, UpsertRoute(l, r, d)
      PROVE  Goal
  BY <1>1, <1>9 DEF UpsertRoute
<1>10. ASSUME NEW mi \in Missions, StartPM(mi) PROVE Goal
  BY <1>1, <1>10 DEF StartPM
<1> HIDE DEF Goal
<1>11. Goal
  <2>1. CASE \E l, r \in Missions, d \in Upserted : UpsertRoute(l, r, d)
    BY <1>9, <2>1
  <2>2. CASE \E p \in Passes :
                \/ PassStep(p)
                \/ \E h \in Hosts : BeginDelivery(p, h) \/ BeginNotices(p, h)
                \/ Crash(p)
    BY <1>3, <1>4, <1>5, <2>2
  <2>. QED
    BY <1>6, <1>7, <1>8, <1>10, <2>1, <2>2 DEF Next
<1>. QED
  BY <1>11 DEF Goal

LEMMA PassHoldsStep ==
    ASSUME TypeOK, PassHolds, Next
    PROVE  PassHolds'
<1>1. ASSUME NEW q \in Passes
      PROVE  /\ ~At(q, "idle")' => pass'[q].host \in Hosts
             /\ pass'[q].phase \in {"send", "resolve"} =>
                  /\ pass'[q].msg \in MsgId
                  /\ Exists(pass'[q].host, pass'[q].msg)
                  /\ IsOut(pass'[q].host, pass'[q].msg)
  BY PassesStep DEF Fits, Carries, At
<1>2. ASSUME NEW q \in Passes, pass'[q].phase \in {"send", "resolve"}
      PROVE  Exists(pass[q].host, pass[q].msg)' /\ IsOut(pass[q].host, pass[q].msg)'
  <2>1. pass'[q].host \in Hosts /\ pass'[q].msg \in MsgId
            /\ Exists(pass'[q].host, pass'[q].msg) /\ IsOut(pass'[q].host, pass'[q].msg)
    BY <1>1, <1>2 DEF At
  <2>2. PICK h \in Hosts : h = pass'[q].host
    BY <2>1
  <2>3. PICK m \in MsgId : m = pass'[q].msg
    BY <2>1
  <2>4. Exists(h, m)' /\ IsOut(h, m)'
    BY <2>1, <2>2, <2>3, Lasting
  <2>. QED
    BY <2>2, <2>3, <2>4 DEF Exists, IsOut
<1>. QED
  BY <1>1, <1>2 DEF PassHolds

LEMMA LateStep ==
    ASSUME TypeOK, PassHolds, Next
    PROVE  \A r \in late' : r \in Requests /\ OnItsWay(r)
<1>0. \A r \in late : r \in Requests /\ OnItsWay(r)
  BY DEF TypeOK, OnItsWay
<1>1. ASSUME NEW p \in Passes, At(p, "send"), Leaves(p)
      PROVE  \A r \in late' : r \in Requests /\ OnItsWay(r)
  <2>1. Carries(pass[p])
    BY <1>1 DEF At, Carries
  <2>2. Payload(p) \in Requests /\ OnItsWay(Payload(p))
    BY <2>1, PayloadFacts DEF OnItsWay
  <2>. QED
    BY <1>0, <1>1, <2>2 DEF Leaves
<1>2. CASE late' \subseteq late
  BY <1>0, <1>2
<1>3. ASSUME NEW p \in Passes, GiveUp(p) \/ Crash(p)
      PROVE  \A r \in late' : r \in Requests /\ OnItsWay(r)
  BY <1>1, <1>2, <1>3 DEF GiveUp, Crash
<1>4. ASSUME NEW p \in Passes, ~(GiveUp(p) \/ Crash(p)),
             PassStep(p) \/ \E h \in Hosts : BeginDelivery(p, h) \/ BeginNotices(p, h)
      PROVE  UNCHANGED late
  BY <1>4 DEF PassStep, DeliveryStep, NoticeStep, Claim, ClaimNothing, Deliver, Return,
      AcknowledgeOutbound, Release, ClaimLost, ReadPending, Wake, WakeFailed, RecordNotified,
      BeginDelivery, BeginNotices, Begins
<1>5. ASSUME NEW r \in Requests, Queue(r) \/ ArriveLate(r) PROVE late' \subseteq late
  BY <1>5 DEF Queue, ArriveLate
<1>6. ASSUME NEW l, NEW r, NEW d, UpsertRoute(l, r, d) PROVE UNCHANGED late
  BY <1>6 DEF UpsertRoute
<1>7. CASE \E l, r \in Missions, d \in Upserted : UpsertRoute(l, r, d)
  BY <1>2, <1>6, <1>7
<1>8. CASE \E p \in Passes :
              \/ PassStep(p)
              \/ \E h \in Hosts : BeginDelivery(p, h) \/ BeginNotices(p, h)
              \/ Crash(p)
  BY <1>2, <1>3, <1>4, <1>8
<1>9. CASE Tick \/ (\E mi \in Missions : StartPM(mi))
              \/ \E h \in Hosts, m \in MsgId : Handle(h, m)
  BY <1>2, <1>9 DEF Tick, StartPM, Handle
<1>. QED
  BY <1>2, <1>5, <1>7, <1>8, <1>9 DEF Next

LEMMA OthersStep ==
    ASSUME TypeOK, PassHolds, Next
    PROVE  /\ route' \in [MissionPairs -> Directions]
           /\ started' \subseteq Missions
           /\ announced' \subseteq Hosts \X MsgId
           /\ faults' \in Nat
<1> DEFINE Goal == /\ route' \in [MissionPairs -> Directions]
                   /\ started' \subseteq Missions
                   /\ announced' \subseteq Hosts \X MsgId
                   /\ faults' \in Nat
<1>0. /\ route \in [MissionPairs -> Directions] /\ started \subseteq Missions
      /\ announced \subseteq Hosts \X MsgId /\ faults \in Nat
  BY DEF TypeOK
<1>1. CASE UNCHANGED <<route, started, announced, faults>>
  BY <1>0, <1>1
<1>2. ASSUME NEW mi \in Missions, StartPM(mi) PROVE Goal
  BY <1>0, <1>2 DEF StartPM
<1>3. ASSUME NEW l \in Missions, NEW r \in Missions, NEW d \in Upserted, UpsertRoute(l, r, d)
      PROVE  Goal
  <2>1. d \in Directions /\ <<l, r>> \in MissionPairs /\ faults - 1 \in Nat
    BY <1>0, <1>3 DEF UpsertRoute
  <2>. QED
    BY <1>0, <1>3, <2>1 DEF UpsertRoute
<1>4. ASSUME NEW p \in Passes, NEW mi \in Missions, Wake(p, mi) PROVE Goal
  <2>1. pass[p].host \in Hosts
    BY <1>4 DEF PassHolds, Wake, At
  <2>2. GroupOf(p, mi) \subseteq MsgId
    BY DEF GroupOf, TypeOK, Pass
  <2>3. announced' = announced \cup ({pass[p].host} \X GroupOf(p, mi))
    BY <1>4 DEF Wake
  <2>4. announced' \subseteq Hosts \X MsgId
    BY <1>0, <2>1, <2>2, <2>3
  <2>. QED
    BY <1>0, <1>4, <2>4 DEF Wake
<1>5. ASSUME NEW p \in Passes, Crash(p) PROVE Goal
  BY <1>0, <1>5 DEF Crash
<1>6. ASSUME NEW p \in Passes, PassStep(p), ~(\E mi \in Missions : Wake(p, mi))
      PROVE  UNCHANGED <<route, started, announced, faults>>
  BY <1>6 DEF PassStep, DeliveryStep, NoticeStep, Claim, ClaimNothing, Deliver, Return, GiveUp,
      AcknowledgeOutbound, Release, ClaimLost, ReadPending, WakeFailed, RecordNotified
<1>7. ASSUME NEW p \in Passes, NEW h \in Hosts, BeginDelivery(p, h) \/ BeginNotices(p, h)
      PROVE  UNCHANGED <<route, started, announced, faults>>
  BY <1>7 DEF BeginDelivery, BeginNotices, Begins
<1>8. ASSUME NEW r \in Requests, Queue(r) \/ ArriveLate(r)
      PROVE  UNCHANGED <<route, started, announced, faults>>
  BY <1>8 DEF Queue, ArriveLate
<1>9. ASSUME Tick \/ \E h \in Hosts, m \in MsgId : Handle(h, m)
      PROVE  UNCHANGED <<route, started, announced, faults>>
  BY <1>9 DEF Tick, Handle
<1> HIDE DEF Goal
<1>10. UNCHANGED <<route, started, announced, faults>> => Goal
  BY <1>1 DEF Goal
<1>11. Goal
  <2>1. CASE \E l, r \in Missions, d \in Upserted : UpsertRoute(l, r, d)
    BY <1>3, <2>1
  <2>2. CASE \E p \in Passes :
                \/ PassStep(p)
                \/ \E h \in Hosts : BeginDelivery(p, h) \/ BeginNotices(p, h)
                \/ Crash(p)
    BY <1>4, <1>5, <1>6, <1>7, <1>10, <2>2
  <2>. QED
    BY <1>2, <1>8, <1>9, <1>10, <2>1, <2>2 DEF Next
<1>. QED
  BY <1>11 DEF Goal

LEMMA TypeInit == Init => TypeOK /\ PassHolds
<1> SUFFICES ASSUME Init PROVE TypeOK /\ PassHolds
  OBVIOUS
<1>1. tbl \in [Hosts -> [MsgId -> Row \cup {NoRow}]]
  BY DEF Init
<1>2. route \in [MissionPairs -> Directions]
  BY DEF Init, Directions
<1>3. ASSUME NEW p \in Passes PROVE pass[p] \in Pass /\ At(p, "idle")
  <2>1. pass[p] = [Idle EXCEPT !.age = Interval]
    BY DEF Init
  <2>. QED
    BY <2>1, Numbers DEF Idle, Pass, Phases, At
<1>4. pass \in [Passes -> Pass]
  BY <1>3 DEF Init
<1>5. started \subseteq Missions /\ late \subseteq Requests /\ announced \subseteq Hosts \X MsgId
        /\ faults \in Nat
  BY Numbers DEF Init
<1>. QED
  BY <1>1, <1>2, <1>3, <1>4, <1>5 DEF TypeOK, PassHolds, At

LEMMA TypeStep == TypeOK /\ PassHolds /\ [Next]_vars => (TypeOK /\ PassHolds)'
<1> SUFFICES ASSUME TypeOK, PassHolds, [Next]_vars PROVE (TypeOK /\ PassHolds)'
  OBVIOUS
<1>1. CASE Next
  <2>1. tbl' \in [Hosts -> [MsgId -> Row \cup {NoRow}]]
    BY <1>1, TableStep DEF Table, Rows
  <2>2. late' \subseteq Requests
    BY <1>1, LateStep
  <2>3. TypeOK'
    BY <1>1, <2>1, <2>2, PassesStep, OthersStep DEF TypeOK
  <2>. QED
    BY <1>1, <2>3, PassHoldsStep
<1>2. CASE UNCHANGED vars
  BY <1>2 DEF vars, TypeOK, PassHolds, At, Exists, IsOut
<1>. QED
  BY <1>1, <1>2

\* Every row has a legal state for its direction, every pass, route and counter its
\* type (the CHECKs of PEER_SCHEMA_DDL).
THEOREM TypeCorrect == Spec => []TypeOK
<1>. QED
  BY TypeInit, TypeStep, PTL DEF Spec

-----------------------------------------------------------------------------
(* Where messages are *)

\* A remote message has its rows at the two hosts, a local one at its own.
Placed ==
    \A h \in Hosts, m \in MsgId : Exists(h, m) =>
        LET r == tbl[h][m].req  d == tbl[h][m].dir IN
        /\ r.id = m
        /\ h = IF d = "inbound" THEN Home[r.dst] ELSE Home[r.src]
        /\ d = "local" <=> Local(r)

HasSource(r) ==
    /\ Exists(Home[r.src], r.id)
    /\ IsOut(Home[r.src], r.id)
    /\ tbl[Home[r.src]][r.id].req = r

HasArrived(r) ==
    /\ Exists(Home[r.dst], r.id)
    /\ tbl[Home[r.dst]][r.id].dir = "inbound"
    /\ tbl[Home[r.dst]][r.id].req = r

\* What is in an inbox, or late, is still in its sender's table.
SentFirst ==
    /\ \A h \in Hosts, m \in MsgId :
            Exists(h, m) /\ tbl[h][m].dir = "inbound" => HasSource(tbl[h][m].req)
    /\ \A r \in late : HasSource(r)

\* A pass that has a receipt carries a message that has arrived.
ReceiptsAreTrue ==
    \A p \in Passes :
        Carries(pass[p]) /\ pass[p].verdict = "receipt" => HasArrived(Payload(p))

Inv == /\ TypeOK /\ PassHolds
       /\ Placed /\ SentFirst /\ ReceiptsAreTrue /\ RepliesAreAcceptable

LEMMA SourceLasts ==
    ASSUME TypeOK, PassHolds, Next, NEW r \in Requests, HasSource(r)
    PROVE  HasSource(r)'
<1>1. Home[r.src] \in Hosts /\ r.id \in MsgId
  BY RequestFacts
<1>2. Keeps(tbl[Home[r.src]][r.id], tbl'[Home[r.src]][r.id])
        /\ Exists(Home[r.src], r.id)' /\ IsOut(Home[r.src], r.id)'
  BY <1>1, Lasting DEF HasSource
<1>. QED
  BY <1>2 DEF HasSource, Keeps

LEMMA ArrivedLasts ==
    ASSUME TypeOK, PassHolds, Next, NEW r \in Requests, HasArrived(r)
    PROVE  HasArrived(r)'
<1>1. Home[r.dst] \in Hosts /\ r.id \in MsgId
  BY RequestFacts
<1>2. Keeps(tbl[Home[r.dst]][r.id], tbl'[Home[r.dst]][r.id]) /\ Exists(Home[r.dst], r.id)'
  BY <1>1, Lasting DEF HasArrived
<1>. QED
  BY <1>2 DEF HasArrived, Keeps

LEMMA WayHasSource ==
    ASSUME TypeOK, PassHolds, Placed, SentFirst, NEW r, OnItsWay(r)
    PROVE  r \in Requests /\ HasSource(r) /\ ~Local(r)
<1>1. r \in Requests /\ HasSource(r)
  <2>1. CASE r \in late
    BY <2>1 DEF SentFirst, TypeOK
  <2>2. ASSUME NEW p \in Passes, Carries(pass[p]), r = Payload(p)
        PROVE  r \in Requests /\ HasSource(r)
    <3>1. /\ r \in Requests
          /\ pass[p].host \in Hosts /\ pass[p].msg \in MsgId
          /\ Exists(pass[p].host, pass[p].msg) /\ IsOut(pass[p].host, pass[p].msg)
      BY <2>2, PayloadFacts
    <3>2. r.id = pass[p].msg /\ Home[r.src] = pass[p].host
      BY <2>2, <3>1 DEF Placed, Payload, IsOut
    <3>. QED
      BY <2>2, <3>1, <3>2 DEF HasSource, Payload
  <2>. QED
    BY <2>1, <2>2 DEF OnItsWay
<1>2. ~Local(r)
  BY <1>1, RequestFacts DEF HasSource, Placed, IsOut
<1>. QED
  BY <1>1, <1>2

LEMMA RowOrigin ==
    ASSUME TypeOK, PassHolds, Next, NEW h \in Hosts, NEW m \in MsgId,
           tbl'[h][m] # NoRow, ~Exists(h, m)
    PROVE  \E r \in Requests :
              /\ m = r.id /\ tbl'[h][m].req = r
              /\ \/ /\ Sends(r) /\ h = Home[r.src]
                    /\ tbl'[h][m].dir = IF Local(r) THEN "local" ELSE "outbound"
                 \/ /\ Enters(r) /\ h = Home[r.dst]
                    /\ tbl'[h][m].dir = "inbound"
<1>0. tbl \in Table
  BY DEF TypeOK, Table, Rows
<1>1. ~Evolves
  BY DEF Evolves
<1>2. PICK r \in Requests : Sends(r) \/ Enters(r)
  BY <1>1, TableStep
<1>3. ASSUME NEW g \in Hosts, NEW d \in {"local", "outbound", "inbound"}, Adds(g, r, d)
      PROVE  h = g /\ m = r.id /\ tbl'[h][m].req = r /\ tbl'[h][m].dir = d
  <2>1. h = g /\ m = r.id
    BY <1>0, <1>3, AddsFacts DEF Exists
  <2>. QED
    BY <1>0, <1>3, <2>1, AddsFacts
<1>4. CASE Sends(r)
  <2>1. Home[r.src] \in Hosts
            /\ (IF Local(r) THEN "local" ELSE "outbound") \in {"local", "outbound", "inbound"}
            /\ Adds(Home[r.src], r, IF Local(r) THEN "local" ELSE "outbound")
    BY <1>4, RequestFacts DEF Sends
  <2>. QED
    BY <1>3, <1>4, <2>1
<1>5. CASE Enters(r)
  <2>1. Home[r.dst] \in Hosts /\ Adds(Home[r.dst], r, "inbound")
    BY <1>5, RequestFacts DEF Enters
  <2>. QED
    BY <1>3, <1>5, <2>1
<1>. QED
  BY <1>2, <1>4, <1>5

LEMMA PlacedStep ==
    ASSUME TypeOK, PassHolds, Placed, SentFirst, Next
    PROVE  Placed'
<1>1. ASSUME NEW h \in Hosts, NEW m \in MsgId, tbl'[h][m] # NoRow
      PROVE  LET r == tbl'[h][m].req  d == tbl'[h][m].dir IN
             /\ r.id = m
             /\ h = IF d = "inbound" THEN Home[r.dst] ELSE Home[r.src]
             /\ d = "local" <=> Local(r)
  <2>1. CASE Exists(h, m)
    BY <2>1, Lasting DEF Keeps, Placed
  <2>2. CASE ~Exists(h, m)
    <3>1. PICK r \in Requests :
              /\ m = r.id /\ tbl'[h][m].req = r
              /\ \/ /\ Sends(r) /\ h = Home[r.src]
                    /\ tbl'[h][m].dir = IF Local(r) THEN "local" ELSE "outbound"
                 \/ /\ Enters(r) /\ h = Home[r.dst]
                    /\ tbl'[h][m].dir = "inbound"
      BY <1>1, <2>2, RowOrigin
    <3>2. Enters(r) => ~Local(r)
      BY WayHasSource DEF Enters
    <3>. QED
      BY <3>1, <3>2
  <2>. QED
    BY <2>1, <2>2
<1>. QED
  BY <1>1 DEF Placed, Exists, Local

LEMMA SentFirstStep ==
    ASSUME TypeOK, PassHolds, Placed, SentFirst, Next
    PROVE  SentFirst'
<1>1. ASSUME NEW h \in Hosts, NEW m \in MsgId, tbl'[h][m] # NoRow,
             tbl'[h][m].dir = "inbound", NEW q, q = tbl'[h][m].req
      PROVE  HasSource(q)'
  <2>1. CASE Exists(h, m)
    <3>1. tbl[h][m].dir = "inbound" /\ q = tbl[h][m].req /\ tbl[h][m] \in Row
      BY <1>1, <2>1, Lasting, Known DEF Keeps, TypeOK, Table, Rows
    <3>2. q \in Requests /\ HasSource(q)
      BY <2>1, <3>1, RowFacts DEF SentFirst
    <3>. QED
      BY <3>2, SourceLasts
  <2>2. CASE ~Exists(h, m)
    <3>1. q \in Requests /\ Enters(q)
      <4>1. PICK r \in Requests :
              /\ m = r.id /\ tbl'[h][m].req = r
              /\ \/ /\ Sends(r) /\ h = Home[r.src]
                    /\ tbl'[h][m].dir = IF Local(r) THEN "local" ELSE "outbound"
                 \/ /\ Enters(r) /\ h = Home[r.dst]
                    /\ tbl'[h][m].dir = "inbound"
        BY <1>1, <2>2, RowOrigin
      <4>. QED
        BY <1>1, <4>1
    <3>2. HasSource(q)
      BY <3>1, WayHasSource DEF Enters
    <3>. QED
      BY <3>1, <3>2, SourceLasts
  <2>. QED
    BY <2>1, <2>2
<1>2. ASSUME NEW r \in late' PROVE HasSource(r)'
  <2>1. r \in Requests /\ OnItsWay(r)
    BY LateStep
  <2>2. HasSource(r)
    BY <2>1, WayHasSource
  <2>. QED
    BY <2>1, <2>2, SourceLasts
<1>3. ASSUME NEW h \in Hosts, NEW m \in MsgId, tbl'[h][m] # NoRow, tbl'[h][m].dir = "inbound"
      PROVE  HasSource(tbl[h][m].req)'
  <2>1. PICK q : q = tbl'[h][m].req
    OBVIOUS
  <2>2. HasSource(q)'
    BY <1>1, <1>3, <2>1
  <2>. QED
    BY <2>1, <2>2 DEF HasSource, Exists, IsOut
<1>. QED
  BY <1>2, <1>3 DEF SentFirst, Exists

LEMMA ReceiptsStep ==
    ASSUME TypeOK, PassHolds, Placed, SentFirst, ReceiptsAreTrue, Next
    PROVE  ReceiptsAreTrue'
<1>0. tbl \in Table
  BY DEF TypeOK, Table, Rows
<1>1. ASSUME NEW p \in Passes, Carries(pass'[p]), pass'[p].verdict = "receipt"
      PROVE  HasArrived(Payload(p))'
  <2>1. /\ Carries(pass[p])
        /\ pass'[p].host = pass[p].host /\ pass'[p].msg = pass[p].msg
        /\ \/ pass[p].verdict = "receipt"
           \/ Deliver(p) /\ Answer(Payload(p)) = "receipt"
    BY <1>1, PassesStep DEF Receives
  <2>2. PICK r \in Requests : r = Payload(p)
    BY <2>1, PayloadFacts
  <2>3. Payload(p)' = r
    <3>1. Keeps(tbl[pass[p].host][pass[p].msg], tbl'[pass[p].host][pass[p].msg])
      BY <2>1, PayloadFacts, Lasting
    <3>. QED
      BY <2>1, <2>2, <3>1 DEF Payload, Keeps
  <2>4. HasArrived(r)'
    <3>1. CASE pass[p].verdict = "receipt"
      <4>1. HasArrived(r)
        BY <2>1, <2>2, <3>1 DEF ReceiptsAreTrue
      <4>. QED
        BY <4>1, ArrivedLasts
    <3>2. CASE Duplicate(Home[r.dst], r)
      <4>1. HasArrived(r)
        BY <3>2 DEF Duplicate, HasArrived
      <4>. QED
        BY <4>1, ArrivedLasts
    <3>3. CASE Deliver(p) /\ Acceptable(Home[r.dst], r)
      <4>1. tbl' = [tbl EXCEPT ![Home[r.dst]][r.id] = NewRow(r, "inbound", "accepted", 0)]
        BY <2>2, <3>3 DEF Deliver, Received
      <4>2. Adds(Home[r.dst], r, "inbound")
        BY <3>3, <4>1 DEF Adds, Acceptable
      <4>3. /\ tbl'[Home[r.dst]][r.id] \in Row
            /\ tbl'[Home[r.dst]][r.id].req = r /\ tbl'[Home[r.dst]][r.id].dir = "inbound"
        BY <1>0, <4>2, RequestFacts, AddsFacts
      <4>4. tbl'[Home[r.dst]][r.id] # NoRow
        BY <4>3, RowFacts
      <4>. QED
        BY <4>3, <4>4 DEF HasArrived, Exists
    <3>. QED
      BY <2>1, <2>2, <3>1, <3>2, <3>3 DEF Answer
  <2>. QED
    BY <2>3, <2>4 DEF HasArrived, Exists
<1>. QED
  BY <1>1 DEF ReceiptsAreTrue, Carries

\* The row of far that a reply r refers to.
RefersTo(r) ==
    LET far == Home[r.dst] IN
    /\ r.ref \in MsgId
    /\ Exists(far, r.ref) /\ IsOut(far, r.ref)
    /\ tbl[far][r.ref].req.src = r.dst /\ tbl[far][r.ref].req.dst = r.src

LEMMA ReferenceLasts ==
    ASSUME TypeOK, PassHolds, Next, NEW r \in Requests, RefersTo(r)
    PROVE  RefersTo(r)'
<1>1. Home[r.dst] \in Hosts /\ r.ref \in MsgId
  BY RequestFacts DEF RefersTo
<1>2. Keeps(tbl[Home[r.dst]][r.ref], tbl'[Home[r.dst]][r.ref])
        /\ Exists(Home[r.dst], r.ref)' /\ IsOut(Home[r.dst], r.ref)'
  BY <1>1, Lasting DEF RefersTo
<1>. QED
  BY <1>1, <1>2 DEF RefersTo, Keeps

\* The message that a remote reply refers to has come from the reply's target.
LEMMA ReferenceIsSent ==
    ASSUME TypeOK, Placed, SentFirst, NEW r \in Requests, ~Local(r), r.ref # NoId,
           ReplyKnown(Home[r.src], r.ref, r.src, r.dst)
    PROVE  RefersTo(r)
<1> DEFINE h == Home[r.src]
           q == tbl[h][r.ref].req
<1>1. h \in Hosts /\ r.ref \in MsgId /\ Exists(h, r.ref) /\ q.src = r.dst /\ q.dst = r.src
  BY RequestFacts DEF ReplyKnown
<1>2. tbl[h][r.ref].dir = "inbound" /\ q.id = r.ref
  <2>1. /\ q.id = r.ref
        /\ h = IF tbl[h][r.ref].dir = "inbound" THEN Home[q.dst] ELSE Home[q.src]
    BY <1>1 DEF Placed
  <2>. QED
    BY <1>1, <2>1 DEF Local
<1>3. HasSource(q)
  BY <1>1, <1>2 DEF SentFirst
<1>. QED
  BY <1>1, <1>2, <1>3 DEF HasSource, RefersTo

LEMMA RepliesStep ==
    ASSUME TypeOK, PassHolds, Placed, SentFirst, RepliesAreAcceptable, Next
    PROVE  RepliesAreAcceptable'
<1>1. ASSUME NEW h \in Hosts, NEW m \in MsgId, tbl'[h][m] # NoRow,
             tbl'[h][m].dir = "outbound", NEW r, r = tbl'[h][m].req, r.ref # NoId
      PROVE  RefersTo(r)'
  <2>1. CASE Exists(h, m)
    <3>1. tbl[h][m].dir = "outbound" /\ r = tbl[h][m].req /\ tbl[h][m] \in Row
      BY <1>1, <2>1, Lasting, Known DEF Keeps, TypeOK, Table, Rows
    <3>2. r \in Requests /\ RefersTo(r)
      <4>1. r \in Requests /\ r.ref \in MsgId
        BY <1>1, <3>1, RowFacts, RequestFacts
      <4>2. LET q == tbl[h][m].req  far == Home[q.dst] IN
            Exists(h, m) /\ IsOut(h, m) /\ q.ref # NoId =>
                /\ Exists(far, q.ref) /\ IsOut(far, q.ref)
                /\ tbl[far][q.ref].req.src = q.dst /\ tbl[far][q.ref].req.dst = q.src
        BY DEF RepliesAreAcceptable
      <4>3. Exists(h, m) /\ IsOut(h, m)
        BY <2>1, <3>1 DEF IsOut
      <4>. QED
        BY <1>1, <3>1, <4>1, <4>2, <4>3 DEF RefersTo
    <3>. QED
      BY <3>2, ReferenceLasts
  <2>2. CASE ~Exists(h, m)
    <3>1. r \in Requests /\ Sends(r) /\ ~Local(r)
      <4>1. PICK q \in Requests :
              /\ m = q.id /\ tbl'[h][m].req = q
              /\ \/ /\ Sends(q) /\ h = Home[q.src]
                    /\ tbl'[h][m].dir = IF Local(q) THEN "local" ELSE "outbound"
                 \/ /\ Enters(q) /\ h = Home[q.dst]
                    /\ tbl'[h][m].dir = "inbound"
        BY <1>1, <2>2, RowOrigin
      <4>. QED
        BY <1>1, <4>1
    <3>2. RefersTo(r)
      BY <1>1, <3>1, ReferenceIsSent DEF Sends, Queue
    <3>. QED
      BY <3>1, <3>2, ReferenceLasts
  <2>. QED
    BY <2>1, <2>2
<1>2. ASSUME NEW h \in Hosts, NEW m \in MsgId, tbl'[h][m] # NoRow,
             tbl'[h][m].dir = "outbound", tbl'[h][m].req.ref # NoId
      PROVE  LET r == tbl'[h][m].req  far == Home[r.dst] IN
             /\ tbl'[far][r.ref] # NoRow
             /\ tbl'[far][r.ref].dir = "outbound"
             /\ tbl'[far][r.ref].req.src = r.dst
             /\ tbl'[far][r.ref].req.dst = r.src
  <2>1. PICK r : r = tbl'[h][m].req
    OBVIOUS
  <2>2. RefersTo(r)'
    BY <1>1, <1>2, <2>1
  <2>. QED
    BY <2>1, <2>2 DEF RefersTo, Exists, IsOut
<1>. QED
  BY <1>2 DEF RepliesAreAcceptable, Exists, IsOut

LEMMA InvInit == Init => Inv
<1> SUFFICES ASSUME Init PROVE Inv
  OBVIOUS
<1>1. \A h \in Hosts, m \in MsgId : ~Exists(h, m)
  BY DEF Init, Exists
<1>2. \A p \in Passes : At(p, "idle")
  BY TypeInit DEF Init, Idle, At
<1>3. late = {}
  BY DEF Init
<1>. QED
  BY <1>1, <1>2, <1>3, TypeInit DEF Inv, Placed, SentFirst, ReceiptsAreTrue,
      RepliesAreAcceptable, Carries, At

LEMMA InvStep == Inv /\ [Next]_vars => Inv'
<1> SUFFICES ASSUME Inv, [Next]_vars PROVE Inv'
  OBVIOUS
<1>1. CASE Next
  <2>1. (TypeOK /\ PassHolds)'
    BY TypeStep DEF Inv
  <2>. QED
    BY <1>1, <2>1, PlacedStep, SentFirstStep, ReceiptsStep, RepliesStep DEF Inv
<1>2. CASE UNCHANGED vars
  <2>1. (TypeOK /\ PassHolds)'
    BY TypeStep DEF Inv
  <2>2. tbl' = tbl /\ pass' = pass /\ late' = late
    BY <1>2 DEF vars
  <2>3. Placed'
    BY <2>2 DEF Inv, Placed, Exists, Local
  <2>4. RepliesAreAcceptable'
    BY <2>2 DEF Inv, RepliesAreAcceptable, Exists, IsOut
  <2>5. SentFirst'
    <3>1. \A h \in Hosts, m \in MsgId :
            Exists(h, m) /\ tbl[h][m].dir = "inbound" => HasSource(tbl[h][m].req)
      BY DEF Inv, SentFirst
    <3>2. \A r \in late : HasSource(r)
      BY DEF Inv, SentFirst
    <3>3. \A h \in Hosts, m \in MsgId :
            Exists(h, m)' /\ tbl'[h][m].dir = "inbound" => HasSource(tbl[h][m].req)'
      BY <2>2, <3>1 DEF HasSource, Exists, IsOut
    <3>4. \A r \in late' : HasSource(r)'
      BY <2>2, <3>2 DEF HasSource, Exists, IsOut
    <3>. QED
      BY <3>3, <3>4 DEF SentFirst
  <2>6. ReceiptsAreTrue'
    BY <2>2 DEF Inv, ReceiptsAreTrue, HasArrived, Exists, Payload, Carries
  <2>. QED
    BY <2>1, <2>3, <2>4, <2>5, <2>6 DEF Inv
<1>. QED
  BY <1>1, <1>2

\* A reply its host has agreed to send names a message of the host it goes to, so
\* that its receiver has no ground to refuse its reference (validate_reply_reference).
THEOREM RepliesFindReference == Spec => []RepliesAreAcceptable
<1>1. Inv => RepliesAreAcceptable
  BY DEF Inv
<1>. QED
  BY InvInit, InvStep, <1>1, PTL DEF Spec

-----------------------------------------------------------------------------
(* The relay implements the mailbox *)

Waiting == {"queued", "sending", "retry"}

\* No message is handled or acknowledged in this step.
Calm ==
    \A h \in Hosts, m \in MsgId : Exists(h, m) =>
        \/ tbl'[h][m].state = tbl[h][m].state
        \/ tbl[h][m].state \in Waiting /\ tbl'[h][m].state \in Waiting

LEMMA SweptCalm ==
    ASSUME NEW h \in Hosts, NEW m \in MsgId
    PROVE  \/ Swept(h)[m].state = tbl[h][m].state
           \/ tbl[h][m].state \in Waiting /\ Swept(h)[m].state \in Waiting
<1>1. CASE Stale(h, m)
  <2> DEFINE new == [tbl[h][m] EXCEPT !.state = "retry", !.owner = Nobody, !.age = 0, !.due = 0]
  <2>1. Swept(h)[m] = new
    BY <1>1 DEF Swept
  <2>2. new.state = "retry" \/ new.state = tbl[h][m].state
    OBVIOUS
  <2>. QED
    BY <1>1, <2>1, <2>2 DEF Stale, Waiting
<1>2. CASE ~Stale(h, m)
  BY <1>2 DEF Swept
<1>. QED
  BY <1>1, <1>2

LEMMA ClaimCalm ==
    ASSUME TypeOK, NEW p \in Passes, pass[p].host \in Hosts, Claim(p) \/ ClaimNothing(p)
    PROVE  Calm
<1>0. tbl \in Table
  BY DEF TypeOK, Table, Rows
<1> DEFINE h == pass[p].host
           s == Swept(h)
<1>1. s \in [MsgId -> Rows]
  BY <1>0, SweptFacts
<1>2. ASSUME NEW n \in MsgId
      PROVE  \/ s[n].state = tbl[h][n].state
             \/ tbl[h][n].state \in Waiting /\ s[n].state \in Waiting
  BY SweptCalm
<1>3. CASE ClaimNothing(p)
  <2>1. tbl' = [tbl EXCEPT ![h] = s]
    BY <1>3 DEF ClaimNothing
  <2> HIDE DEF s
  <2>. QED
    BY <1>0, <1>2, <2>1 DEF Calm, Table
<1>4. CASE Claim(p)
  <2>1. PICK m \in Oldest(h) :
          tbl' = [tbl EXCEPT ![h] = [s EXCEPT ![m].state = "sending", ![m].owner = p, ![m].age = 0]]
    BY <1>4 DEF Claim
  <2>2. m \in MsgId /\ Exists(h, m) /\ s[m].state \in {"queued", "retry"}
    BY <2>1 DEF Oldest, Claimable
  <2>3. s[m] \in Row
    BY <1>0, <2>2, SweptFacts DEF Keeps
  <2> DEFINE c == [s[m] EXCEPT !.state = "sending", !.owner = p, !.age = 0]
             f == [s EXCEPT ![m] = c]
  <2>4. tbl' = [tbl EXCEPT ![h] = f]
    BY <2>1
  <2>5. c.state = "sending"
    BY <2>3 DEF Row, RowFields
  <2>6. tbl[h][m].state \in Waiting
    BY <1>2, <2>2 DEF Waiting
  <2> HIDE DEF s, c
  <2>7. ASSUME NEW n \in MsgId
        PROVE  \/ f[n].state = tbl[h][n].state
               \/ tbl[h][n].state \in Waiting /\ f[n].state \in Waiting
    <3>1. CASE n = m
      BY <1>1, <2>2, <2>5, <2>6, <3>1 DEF Waiting
    <3>2. CASE n # m
      BY <1>1, <1>2, <3>2
    <3>. QED
      BY <3>1, <3>2
  <2> HIDE DEF f
  <2>. QED
    BY <1>0, <2>4, <2>7 DEF Calm, Table
<1>. QED
  BY <1>3, <1>4

LEMMA ReleaseCalm ==
    ASSUME TypeOK, PassHolds, NEW p \in Passes, Release(p)
    PROVE  Calm
<1>0. tbl \in Table
  BY DEF TypeOK, Table, Rows
<1> DEFINE h == pass[p].host
           m == pass[p].msg
           n == tbl[h][m].attempts + 1
           new == [tbl[h][m] EXCEPT !.state = "retry", !.owner = Nobody, !.age = 0,
                        !.due = Delay(n), !.attempts = Least(n, MaxExponent)]
<1>1. Carries(pass[p]) /\ Owns(p) /\ tbl' = [tbl EXCEPT ![h][m] = new]
  BY DEF Release, At, Carries
<1>2. h \in Hosts /\ m \in MsgId /\ tbl[h][m] \in Row
  BY <1>0, <1>1, PayloadFacts, Known
<1>3. new.state = "retry"
  BY <1>2 DEF Row, RowFields
<1>4. tbl[h][m].state = "sending"
  BY <1>1 DEF Owns
<1> HIDE DEF new
<1>. QED
  BY <1>0, <1>1, <1>2, <1>3, <1>4 DEF Calm, Waiting, Table

LEMMA RecordCalm ==
    ASSUME TypeOK, NEW p \in Passes, pass[p].host \in Hosts, RecordNotified(p) \/ Crash(p)
    PROVE  Calm
<1>0. tbl \in Table
  BY DEF TypeOK, Table, Rows
<1> DEFINE h == pass[p].host
<1>1. ASSUME NEW m \in MsgId, Exists(h, m)
      PROVE  /\ [tbl[h][m] EXCEPT !.notified = TRUE].state = tbl[h][m].state
             /\ [tbl[h][m] EXCEPT !.owner = Nobody].state = tbl[h][m].state
  <2>1. tbl[h][m] \in Row
    BY <1>0, <1>1, Known
  <2>. QED
    BY <2>1 DEF Row, RowFields
<1>2. ASSUME NEW f, tbl' = [tbl EXCEPT ![h] = f],
             \A m \in MsgId : Exists(h, m) => f[m].state = tbl[h][m].state
      PROVE  Calm
  BY <1>0, <1>2 DEF Calm, Table
<1>3. CASE RecordNotified(p)
  <2> DEFINE f == [m \in MsgId |->
                  IF m \in pass[p].group /\ Exists(h, m) /\ tbl[h][m].state = "accepted"
                  THEN [tbl[h][m] EXCEPT !.notified = TRUE]
                  ELSE tbl[h][m]]
  <2>1. tbl' = [tbl EXCEPT ![h] = f]
    BY <1>3 DEF RecordNotified
  <2>2. \A m \in MsgId : Exists(h, m) => f[m].state = tbl[h][m].state
    BY <1>1
  <2> HIDE DEF f
  <2>. QED
    BY <1>2, <2>1, <2>2
<1>4. CASE Crash(p)
  <2> DEFINE f == [m \in MsgId |->
                  IF Exists(h, m) /\ tbl[h][m].owner = p
                  THEN [tbl[h][m] EXCEPT !.owner = Nobody]
                  ELSE tbl[h][m]]
  <2>1. tbl' = [tbl EXCEPT ![h] = f]
    BY <1>4 DEF Crash
  <2>2. \A m \in MsgId : Exists(h, m) => f[m].state = tbl[h][m].state
    BY <1>1
  <2> HIDE DEF f
  <2>. QED
    BY <1>2, <2>1, <2>2
<1>. QED
  BY <1>3, <1>4

LEMMA TickCalm ==
    ASSUME TypeOK, Tick
    PROVE  Calm
<1>1. ASSUME NEW row \in Row PROVE Older(row).state = row.state
  <2> DEFINE a == IF row.state = "sending" THEN Least(row.age + 1, Lease) ELSE row.age
             d == IF row.due > 0 THEN row.due - 1 ELSE 0
  <2>1. Older(row) = [row EXCEPT !.age = a, !.due = d]
    BY RowFacts DEF Older
  <2> HIDE DEF a, d
  <2>. QED
    BY <2>1 DEF Row, RowFields
<1>2. ASSUME NEW h \in Hosts, NEW m \in MsgId, Exists(h, m)
      PROVE  tbl'[h][m].state = tbl[h][m].state
  <2>1. tbl[h][m] \in Row /\ tbl'[h][m] = Older(tbl[h][m])
    BY <1>2, Known DEF Tick, TypeOK, Table, Rows
  <2>. QED
    BY <1>1, <2>1
<1>. QED
  BY <1>2 DEF Calm

\* Only a PM handles messages, and only a relay pass acknowledges them.
LEMMA StatesStep ==
    ASSUME TypeOK, PassHolds, Next, Evolves
    PROVE  \/ Calm
           \/ \E h \in Hosts, m \in MsgId : Handle(h, m)
           \/ \E p \in Passes : AcknowledgeOutbound(p)
<1> DEFINE Goal == \/ Calm
                   \/ \E h \in Hosts, m \in MsgId : Handle(h, m)
                   \/ \E p \in Passes : AcknowledgeOutbound(p)
<1>0. tbl \in Table
  BY DEF TypeOK, Table, Rows
<1>1. CASE UNCHANGED tbl
  BY <1>1 DEF Calm
<1>2. ASSUME NEW h \in Hosts, NEW r \in Requests, NEW d \in {"local", "outbound", "inbound"},
             Adds(h, r, d)
      PROVE  Goal
  <2>1. tbl'[h][r.id] # NoRow
    BY <1>0, <1>2, AddsFacts, RowFacts
  <2>2. ~Exists(h, r.id) /\ r.id \in MsgId
    BY <1>2, RequestFacts DEF Adds
  <2>. QED
    BY <2>1, <2>2 DEF Evolves
<1>3. ASSUME NEW r \in Requests, Queue(r) PROVE Goal
  BY <1>0, <1>2, <1>3, QueueAdds, RequestFacts
<1>4. ASSUME NEW r \in Requests, tbl' = Received(r) PROVE Goal
  BY <1>0, <1>1, <1>2, <1>4, ReceivedAdds, RequestFacts
<1>5. ASSUME NEW p \in Passes, DeliveryStep(p) PROVE Goal
  <2>1. CASE Claim(p) \/ ClaimNothing(p)
    <3>1. pass[p].host \in Hosts
      BY <2>1 DEF PassHolds, Claim, ClaimNothing, At
    <3>. QED
      BY <2>1, <3>1, ClaimCalm
  <2>2. CASE Deliver(p)
    <3>1. Carries(pass[p])
      BY <2>2 DEF Deliver, At, Carries
    <3>2. Payload(p) \in Requests /\ tbl' = Received(Payload(p))
      BY <2>2, <3>1, PayloadFacts DEF Deliver
    <3>. QED
      BY <1>4, <3>2
  <2>3. CASE Return(p) \/ GiveUp(p) \/ ClaimLost(p)
    BY <1>1, <2>3 DEF Return, GiveUp, ClaimLost
  <2>. QED
    BY <1>5, <2>1, <2>2, <2>3, ReleaseCalm DEF DeliveryStep
<1>6. ASSUME NEW p \in Passes, NoticeStep(p) PROVE Goal
  <2>1. CASE RecordNotified(p)
    <3>1. pass[p].host \in Hosts
      BY <2>1 DEF PassHolds, RecordNotified, At
    <3>. QED
      BY <2>1, <3>1, RecordCalm
  <2>2. CASE ~RecordNotified(p)
    BY <1>1, <1>6, <2>2 DEF NoticeStep, ReadPending, Wake, WakeFailed
  <2>. QED
    BY <2>1, <2>2
<1>7. ASSUME NEW p \in Passes, Crash(p) PROVE Goal
  <2>1. pass[p].host \in Hosts
    BY <1>7 DEF PassHolds, Crash, At
  <2>. QED
    BY <1>7, <2>1, RecordCalm
<1>8. ASSUME NEW p \in Passes, NEW h \in Hosts, BeginDelivery(p, h) \/ BeginNotices(p, h)
      PROVE  Goal
  BY <1>1, <1>8 DEF BeginDelivery, BeginNotices, Begins
<1>9. ASSUME NEW mi \in Missions, StartPM(mi) PROVE Goal
  BY <1>1, <1>9 DEF StartPM
<1>10. ASSUME NEW l \in Missions, NEW r \in Missions, NEW d \in Upserted, UpsertRoute(l, r, d)
       PROVE  Goal
  BY <1>1, <1>10 DEF UpsertRoute
<1>11. ASSUME NEW r \in Requests, ArriveLate(r) PROVE Goal
  BY <1>4, <1>11 DEF ArriveLate
<1>12. ASSUME NEW h \in Hosts, NEW m \in MsgId, Handle(h, m) PROVE Goal
  BY <1>12
<1> HIDE DEF Goal
<1>13. Goal
  <2>1. CASE \E l, r \in Missions, d \in Upserted : UpsertRoute(l, r, d)
    BY <1>10, <2>1
  <2>2. CASE \E p \in Passes :
                \/ PassStep(p)
                \/ \E h \in Hosts : BeginDelivery(p, h) \/ BeginNotices(p, h)
                \/ Crash(p)
    BY <1>5, <1>6, <1>7, <1>8, <2>2 DEF PassStep
  <2>3. CASE Tick
    BY <2>3, TickCalm DEF Goal
  <2>. QED
    BY <1>3, <1>9, <1>11, <1>12, <2>1, <2>2, <2>3 DEF Next
<1>. QED
  BY <1>13 DEF Goal

Sent(r)    == Kept(Home[r.src], r)
Arrived(r) == Kept(Home[r.dst], r) /\ InInbox(Home[r.dst], r.id)
Done(r)    == tbl[Home[r.dst]][r.id].state = "handled"
Told(r)    == tbl[Home[r.src]][r.id].state = "acknowledged"

LEMMA KeptEvolves ==
    ASSUME TypeOK, Evolves, NEW r \in Requests
    PROVE  (Sent(r)' <=> Sent(r)) /\ (Arrived(r)' <=> Arrived(r))
<1>1. ASSUME NEW h \in Hosts, NEW m \in MsgId
      PROVE  /\ Exists(h, m)' <=> Exists(h, m)
             /\ Exists(h, m) => /\ tbl'[h][m].req = tbl[h][m].req
                                /\ tbl'[h][m].dir = tbl[h][m].dir
  BY RowFacts DEF Evolves, Keeps, Exists
<1>2. Home[r.src] \in Hosts /\ Home[r.dst] \in Hosts /\ r.id \in MsgId
  BY RequestFacts
<1>3. /\ Exists(Home[r.src], r.id)' <=> Exists(Home[r.src], r.id)
      /\ Exists(Home[r.dst], r.id)' <=> Exists(Home[r.dst], r.id)
  BY <1>1, <1>2
<1>. QED
  BY <1>1, <1>2, <1>3 DEF Sent, Arrived, Kept, InInbox, Exists

\* A new row changes the place of its own message only.
LEMMA AddedSets ==
    ASSUME TypeOK, NEW h \in Hosts, NEW r \in Requests,
           NEW d \in {"local", "outbound", "inbound"}, Adds(h, r, d), NEW q \in Requests
    PROVE  /\ Sent(q)' <=> Sent(q) \/ (q = r /\ h = Home[r.src])
           /\ Arrived(q)' <=> Arrived(q) \/ (q = r /\ h = Home[r.dst] /\ d # "outbound")
           /\ Sent(q) /\ q # r => (Told(q)' <=> Told(q))
           /\ Arrived(q) /\ q # r => (Done(q)' <=> Done(q))
           /\ h = Home[r.src] => ~Told(r)'
           /\ h = Home[r.dst] => ~Done(r)'
           /\ h # Home[r.src] => (Told(r)' <=> Told(r)) /\ (Sent(r)' <=> Sent(r))
           /\ h # Home[r.dst] => (Done(r)' <=> Done(r))
<1>0. tbl \in Table
  BY DEF TypeOK, Table, Rows
<1>1. /\ tbl'[h][r.id] # NoRow
      /\ tbl'[h][r.id].req = r /\ tbl'[h][r.id].dir = d
      /\ tbl'[h][r.id].state = IF d = "outbound" THEN "queued" ELSE "accepted"
      /\ \A g \in Hosts, m \in MsgId : ~(g = h /\ m = r.id) => tbl'[g][m] = tbl[g][m]
  BY <1>0, AddsFacts, RowFacts
<1>2. tbl[h][r.id] = NoRow
  BY DEF Adds, Exists
<1>3. /\ Home[q.src] \in Hosts /\ Home[q.dst] \in Hosts /\ q.id \in MsgId
      /\ Home[r.src] \in Hosts /\ Home[r.dst] \in Hosts /\ r.id \in MsgId
  BY RequestFacts
<1>4. ASSUME NEW g \in Hosts, NEW o \in Requests, o.id \in MsgId
      PROVE  /\ Kept(g, o)' <=> Kept(g, o) \/ (o = r /\ g = h)
             /\ Kept(g, o) => tbl'[g][o.id] = tbl[g][o.id]
  <2>1. CASE g = h /\ o.id = r.id
    BY <1>1, <1>2, <1>4, <2>1 DEF Kept, Exists
  <2>2. CASE ~(g = h /\ o.id = r.id)
    BY <1>1, <1>4, <2>2 DEF Kept, Exists
  <2>. QED
    BY <2>1, <2>2
<1>5. Sent(q)' <=> Sent(q) \/ (q = r /\ h = Home[r.src])
  BY <1>3, <1>4 DEF Sent, Kept, Exists
<1>6. Arrived(q)' <=> Arrived(q) \/ (q = r /\ h = Home[r.dst] /\ d # "outbound")
  BY <1>1, <1>2, <1>3, <1>4 DEF Arrived, Kept, Exists, InInbox
<1>7. /\ Sent(q) /\ q # r => (Told(q)' <=> Told(q))
      /\ Arrived(q) /\ q # r => (Done(q)' <=> Done(q))
  BY <1>3, <1>4 DEF Sent, Arrived, Told, Done
<1>8. /\ h = Home[r.src] => ~Told(r)'
      /\ h = Home[r.dst] => ~Done(r)'
      /\ h # Home[r.src] => (Told(r)' <=> Told(r)) /\ (Sent(r)' <=> Sent(r))
      /\ h # Home[r.dst] => (Done(r)' <=> Done(r))
  BY <1>1, <1>3, <1>4 DEF Told, Done, Sent, Kept, Exists
<1>. QED
  BY <1>5, <1>6, <1>7, <1>8

Handled   == {r \in WithTarget : tbl[Home[r.dst]][r.id].state = "handled"}
Confirmed == {r \in WithSource : tbl[Home[r.src]][r.id].state = "acknowledged"}

LEMMA MailboxSets ==
    /\ WithSource = {r \in Requests : Sent(r)}
    /\ WithTarget = {r \in Requests : Arrived(r)}
    /\ Handled    = {r \in Requests : Arrived(r) /\ Done(r)}
    /\ Confirmed  = {r \in Requests : Sent(r) /\ Told(r)}
BY DEF WithSource, WithTarget, Handled, Confirmed, Sent, Arrived, Done, Told

LEMMA MailboxSetsNext ==
    /\ WithSource' = {r \in Requests : Sent(r)'}
    /\ WithTarget' = {r \in Requests : Arrived(r)'}
    /\ Handled'    = {r \in Requests : Arrived(r)' /\ Done(r)'}
    /\ Confirmed'  = {r \in Requests : Sent(r)' /\ Told(r)'}
BY DEF WithSource, WithTarget, Handled, Confirmed, Sent, Arrived, Done, Told, Kept, Exists,
    InInbox

LEMMA Fresh ==
    ASSUME NEW h \in Hosts, NEW r \in Requests, ~Exists(h, r.id)
    PROVE  Mailbox!FreshAt(h, r)
BY DEF Mailbox!FreshAt, Mailbox!HeldAt, WithSource, WithTarget, Kept

\* A message in the sender's table from the target is in the sender's inbox.
LEMMA ReplyIsAnswerable ==
    ASSUME TypeOK, Placed, NEW r \in Requests, ReplyKnown(Home[r.src], r.ref, r.src, r.dst)
    PROVE  Mailbox!Answerable(r)
<1> SUFFICES ASSUME r.ref # NoId
             PROVE  \E o \in WithTarget : o.id = r.ref /\ o.src = r.dst /\ o.dst = r.src
  BY DEF Mailbox!Answerable
<1> DEFINE h == Home[r.src]
           o == tbl[h][r.ref].req
<1>1. h \in Hosts /\ r.ref \in MsgId /\ Exists(h, r.ref) /\ o.src = r.dst /\ o.dst = r.src
  BY RequestFacts DEF ReplyKnown
<1>2. tbl[h][r.ref] \in Row
  BY <1>1, Known DEF TypeOK, Table, Rows
<1>3. /\ o.id = r.ref
      /\ h = IF tbl[h][r.ref].dir = "inbound" THEN Home[o.dst] ELSE Home[o.src]
      /\ tbl[h][r.ref].dir = "local" <=> Local(o)
  BY <1>1 DEF Placed
<1>4. tbl[h][r.ref].dir # "outbound"
  BY <1>1, <1>3 DEF Local
<1>5. o \in Requests /\ InInbox(h, r.ref)
  BY <1>2, <1>4, RowFacts DEF InInbox
<1>6. Kept(Home[o.dst], o) /\ InInbox(Home[o.dst], o.id)
  BY <1>1, <1>3, <1>5 DEF Kept
<1>7. o \in WithTarget
  BY <1>5, <1>6 DEF WithTarget
<1>. QED
  BY <1>1, <1>3, <1>7

LEMMA QueueSends ==
    ASSUME TypeOK, Placed, NEW r \in Requests, Sends(r)
    PROVE  Mailbox!Send(r)
<1> DEFINE h == Home[r.src]
           d == IF Local(r) THEN "local" ELSE "outbound"
<1>1. h \in Hosts /\ d \in {"local", "outbound", "inbound"} /\ Adds(h, r, d)
  BY RequestFacts DEF Sends
<1>2. Mailbox!FreshAt(h, r) /\ Mailbox!Answerable(r)
  BY <1>1, Fresh, ReplyIsAnswerable DEF Sends, Adds, Queue
<1>3. ASSUME NEW q \in Requests
      PROVE  /\ Sent(q)' <=> Sent(q) \/ q = r
             /\ Arrived(q)' <=> Arrived(q) \/ (q = r /\ Local(r))
             /\ Arrived(q)' /\ Done(q)' <=> Arrived(q) /\ Done(q)
             /\ Sent(q)' /\ Told(q)' <=> Sent(q) /\ Told(q)
  <2>1. ~Sent(r) /\ (Local(r) => ~Arrived(r))
    BY <1>1 DEF Adds, Sent, Arrived, Kept, Local
  <2>2. h = Home[r.dst] <=> Local(r)
    BY DEF Local
  <2>3. d # "outbound" <=> Local(r)
    OBVIOUS
  <2> HIDE DEF d
  <2>4. /\ Sent(q)' <=> Sent(q) \/ (q = r /\ h = Home[r.src])
        /\ Arrived(q)' <=> Arrived(q) \/ (q = r /\ h = Home[r.dst] /\ d # "outbound")
        /\ Sent(q) /\ q # r => (Told(q)' <=> Told(q))
        /\ Arrived(q) /\ q # r => (Done(q)' <=> Done(q))
        /\ h = Home[r.src] => ~Told(r)'
        /\ h = Home[r.dst] => ~Done(r)'
        /\ h # Home[r.dst] => (Done(r)' <=> Done(r))
    BY <1>1, AddedSets
  <2>5. CASE q = r
    BY <2>1, <2>2, <2>3, <2>4, <2>5
  <2>6. CASE q # r
    BY <2>4, <2>6
  <2>. QED
    BY <2>5, <2>6
<1>4. /\ WithSource' = WithSource \cup {r}
      /\ WithTarget' = IF Local(r) THEN WithTarget \cup {r} ELSE WithTarget
      /\ Handled' = Handled /\ Confirmed' = Confirmed
  BY <1>3, MailboxSets, MailboxSetsNext
<1>. QED
  BY <1>2, <1>4 DEF Mailbox!Send, Mailbox!Local, Local, Handled, Confirmed

LEMMA EnvelopeArrives ==
    ASSUME TypeOK, PassHolds, Placed, SentFirst, NEW r \in Requests, Enters(r)
    PROVE  Mailbox!Arrive(r)
<1> DEFINE h == Home[r.dst]
<1>1. h \in Hosts /\ Adds(h, r, "inbound")
  BY RequestFacts DEF Enters
<1>2. Sent(r) /\ h # Home[r.src]
  <2>1. HasSource(r) /\ ~Local(r)
    BY WayHasSource DEF Enters
  <2>. QED
    BY <2>1 DEF HasSource, Sent, Kept, Local
<1>3. Mailbox!FreshAt(h, r)
  BY <1>1, Fresh DEF Adds
<1>4. ~Arrived(r)
  BY <1>1 DEF Adds, Arrived, Kept
<1>5. ASSUME NEW q \in Requests
      PROVE  /\ Sent(q)' <=> Sent(q)
             /\ Arrived(q)' <=> Arrived(q) \/ q = r
             /\ Arrived(q)' /\ Done(q)' <=> Arrived(q) /\ Done(q)
             /\ Sent(q)' /\ Told(q)' <=> Sent(q) /\ Told(q)
  <2>1. /\ Sent(q)' <=> Sent(q) \/ (q = r /\ h = Home[r.src])
        /\ Arrived(q)' <=> Arrived(q) \/ (q = r /\ h = Home[r.dst] /\ "inbound" # "outbound")
        /\ Sent(q) /\ q # r => (Told(q)' <=> Told(q))
        /\ Arrived(q) /\ q # r => (Done(q)' <=> Done(q))
        /\ h = Home[r.dst] => ~Done(r)'
        /\ h # Home[r.src] => (Told(r)' <=> Told(r)) /\ (Sent(r)' <=> Sent(r))
    BY <1>1, AddedSets
  <2>2. CASE q = r
    BY <1>2, <1>4, <2>1, <2>2
  <2>3. CASE q # r
    BY <2>1, <2>3
  <2>. QED
    BY <2>2, <2>3
<1>6. /\ WithSource' = WithSource
      /\ WithTarget' = WithTarget \cup {r}
      /\ Handled' = Handled /\ Confirmed' = Confirmed /\ r \in WithSource
  BY <1>2, <1>5, MailboxSets, MailboxSetsNext
<1>. QED
  BY <1>3, <1>6 DEF Mailbox!Arrive, Handled, Confirmed

LEMMA HandleHandles ==
    ASSUME TypeOK, Placed, NEW h \in Hosts, NEW m \in MsgId, Handle(h, m)
    PROVE  \E r \in Requests : Mailbox!Handle(r)
<1>0. tbl \in Table /\ Evolves
  BY HandleEvolves DEF TypeOK, Table, Rows
<1>1. PICK r : r = tbl[h][m].req
  OBVIOUS
<1>2. Exists(h, m) /\ InInbox(h, m) /\ tbl[h][m].state = "accepted" /\ tbl[h][m] \in Row
  BY <1>0, Known DEF Handle
<1>3. r \in Requests /\ r.id = m /\ h = Home[r.dst]
  BY <1>1, <1>2, RowFacts DEF Placed, Local, InInbox
<1>4. Arrived(r) /\ ~Done(r)
  BY <1>1, <1>2, <1>3 DEF Arrived, Kept, Done
<1>5. /\ tbl'[h][m].state = "handled"
      /\ \A g \in Hosts, n \in MsgId :
            ~(g = h /\ n = m) => tbl'[g][n].state = tbl[g][n].state
  <2> DEFINE new == [tbl[h][m] EXCEPT !.state = "handled"]
  <2>1. tbl' = [tbl EXCEPT ![h][m] = new]
    BY DEF Handle
  <2>2. new.state = "handled"
    BY <1>2 DEF Row, RowFields
  <2> HIDE DEF new
  <2>. QED
    BY <1>0, <1>2, <2>1, <2>2 DEF Table
<1>6. ASSUME NEW q \in Requests
      PROVE  /\ Sent(q)' <=> Sent(q)
             /\ Arrived(q)' <=> Arrived(q)
             /\ Arrived(q)' /\ Done(q)' <=> (Arrived(q) /\ Done(q)) \/ q = r
             /\ Sent(q)' /\ Told(q)' <=> Sent(q) /\ Told(q)
  <2>1. Home[q.src] \in Hosts /\ Home[q.dst] \in Hosts /\ q.id \in MsgId
    BY RequestFacts
  <2>2. (Sent(q)' <=> Sent(q)) /\ (Arrived(q)' <=> Arrived(q))
    BY <1>0, KeptEvolves
  <2>3. Told(q)' <=> Told(q)
    BY <1>2, <1>5, <2>1 DEF Told
  <2>4. Home[q.dst] = h /\ q.id = m => Done(q)' /\ (Arrived(q) => q = r)
    BY <1>1, <1>5 DEF Done, Arrived, Kept
  <2>5. ~(Home[q.dst] = h /\ q.id = m) => (Done(q)' <=> Done(q)) /\ q # r
    BY <1>3, <1>5, <2>1 DEF Done
  <2>. QED
    BY <1>3, <1>4, <2>2, <2>3, <2>4, <2>5
<1>7. /\ WithSource' = WithSource /\ WithTarget' = WithTarget
      /\ Handled' = Handled \cup {r} /\ Confirmed' = Confirmed
      /\ r \in WithTarget \ Handled
  BY <1>3, <1>4, <1>6, MailboxSets, MailboxSetsNext
<1>8. Mailbox!Handle(r)
  BY <1>7 DEF Mailbox!Handle, Handled, Confirmed
<1>. QED
  BY <1>3, <1>8

LEMMA AcknowledgeConfirms ==
    ASSUME TypeOK, PassHolds, Placed, ReceiptsAreTrue, NEW p \in Passes, AcknowledgeOutbound(p)
    PROVE  \E r \in Requests : Mailbox!Confirm(r)
<1>0. tbl \in Table
  BY DEF TypeOK, Table, Rows
<1> DEFINE h == pass[p].host
           m == pass[p].msg
<1>1. Carries(pass[p]) /\ pass[p].verdict = "receipt" /\ tbl[h][m].state = "sending"
  BY DEF AcknowledgeOutbound, At, Carries, Owns
<1>2. PICK r : r = Payload(p)
  OBVIOUS
<1>3. /\ r \in Requests /\ h \in Hosts /\ m \in MsgId /\ Exists(h, m) /\ IsOut(h, m)
      /\ tbl[h][m] \in Row /\ r = tbl[h][m].req
  BY <1>0, <1>1, <1>2, PayloadFacts, Known DEF Payload
<1>4. r.id = m /\ h = Home[r.src]
  BY <1>3 DEF Placed, IsOut
<1>5. Sent(r) /\ Arrived(r) /\ ~Told(r)
  <2>1. HasArrived(r)
    BY <1>1, <1>2 DEF ReceiptsAreTrue
  <2>. QED
    BY <1>1, <1>3, <1>4, <2>1 DEF HasArrived, Sent, Arrived, Told, Kept, InInbox
<1>6. /\ tbl'[h][m].state = "acknowledged"
      /\ \A g \in Hosts, n \in MsgId :
            ~(g = h /\ n = m) => tbl'[g][n].state = tbl[g][n].state
  <2> DEFINE k == Least(tbl[h][m].attempts + 1, MaxExponent)
             new == [tbl[h][m] EXCEPT !.state = "acknowledged", !.owner = Nobody,
                        !.age = 0, !.due = 0, !.attempts = k]
  <2>1. tbl' = [tbl EXCEPT ![h][m] = new]
    BY DEF AcknowledgeOutbound
  <2> HIDE DEF k
  <2>2. new.state = "acknowledged"
    BY <1>3 DEF Row, RowFields
  <2> HIDE DEF new
  <2>. QED
    BY <1>0, <1>3, <2>1, <2>2 DEF Table
<1>7. Evolves
  BY <1>0, ResolveEvolves
<1> HIDE DEF h, m
<1>8. ASSUME NEW q \in Requests
      PROVE  /\ Sent(q)' <=> Sent(q)
             /\ Arrived(q)' <=> Arrived(q)
             /\ Arrived(q)' /\ Done(q)' <=> Arrived(q) /\ Done(q)
             /\ Sent(q)' /\ Told(q)' <=> (Sent(q) /\ Told(q)) \/ q = r
  <2>1. Home[q.src] \in Hosts /\ Home[q.dst] \in Hosts /\ q.id \in MsgId
    BY RequestFacts
  <2>2. (Sent(q)' <=> Sent(q)) /\ (Arrived(q)' <=> Arrived(q))
    BY <1>7, KeptEvolves
  <2>3. Arrived(q) => (Done(q)' <=> Done(q))
    BY <1>3, <1>6, <2>1 DEF Done, Arrived, InInbox, IsOut
  <2>4. Home[q.src] = h /\ q.id = m => Told(q)' /\ (Sent(q) => q = r)
    BY <1>3, <1>6 DEF Told, Sent, Kept
  <2>5. ~(Home[q.src] = h /\ q.id = m) => (Told(q)' <=> Told(q)) /\ q # r
    BY <1>4, <1>6, <2>1 DEF Told
  <2>. QED
    BY <1>4, <1>5, <2>2, <2>3, <2>4, <2>5
<1>9. /\ WithSource' = WithSource /\ WithTarget' = WithTarget
      /\ Handled' = Handled /\ Confirmed' = Confirmed \cup {r}
      /\ r \in WithTarget \ Confirmed
  BY <1>3, <1>5, <1>8, MailboxSets, MailboxSetsNext
<1>10. Mailbox!Confirm(r)
  BY <1>9 DEF Mailbox!Confirm, Handled, Confirmed
<1>. QED
  BY <1>3, <1>10

LEMMA CalmStutters ==
    ASSUME TypeOK, Evolves, Calm
    PROVE  UNCHANGED Mailbox!mvars
<1>1. ASSUME NEW q \in Requests
      PROVE  /\ Sent(q)' <=> Sent(q)
             /\ Arrived(q)' <=> Arrived(q)
             /\ Arrived(q)' /\ Done(q)' <=> Arrived(q) /\ Done(q)
             /\ Sent(q)' /\ Told(q)' <=> Sent(q) /\ Told(q)
  <2>1. Home[q.src] \in Hosts /\ Home[q.dst] \in Hosts /\ q.id \in MsgId
    BY RequestFacts
  <2>2. (Sent(q)' <=> Sent(q)) /\ (Arrived(q)' <=> Arrived(q))
    BY KeptEvolves
  <2>3. Sent(q) => (Told(q)' <=> Told(q))
    BY <2>1 DEF Calm, Waiting, Sent, Kept, Told
  <2>4. Arrived(q) => (Done(q)' <=> Done(q))
    BY <2>1 DEF Calm, Waiting, Arrived, Kept, Done
  <2>. QED
    BY <2>2, <2>3, <2>4
<1>2. /\ WithSource' = WithSource /\ WithTarget' = WithTarget
      /\ Handled' = Handled /\ Confirmed' = Confirmed
  BY <1>1, MailboxSets, MailboxSetsNext
<1>. QED
  BY <1>2 DEF Mailbox!mvars, Handled, Confirmed

LEMMA MailboxInit == Init => Mailbox!Init
<1> SUFFICES ASSUME Init PROVE Mailbox!Init
  OBVIOUS
<1>1. \A q \in Requests : ~Sent(q) /\ ~Arrived(q)
  BY RequestFacts DEF Init, Sent, Arrived, Kept, Exists
<1>2. WithSource = {} /\ WithTarget = {} /\ Handled = {} /\ Confirmed = {}
  BY <1>1, MailboxSets
<1>. QED
  BY <1>2 DEF Mailbox!Init, Handled, Confirmed

LEMMA MailboxStep == Inv /\ [Next]_vars => [Mailbox!Next]_Mailbox!mvars
<1> SUFFICES ASSUME Inv, [Next]_vars PROVE [Mailbox!Next]_Mailbox!mvars
  OBVIOUS
<1>0. TypeOK /\ PassHolds /\ Placed /\ SentFirst /\ ReceiptsAreTrue /\ tbl \in Table
  BY DEF Inv, TypeOK, Table, Rows
<1>1. CASE Next
  <2>1. ASSUME NEW r \in Requests, Sends(r) \/ Enters(r) PROVE Mailbox!Next
    <3>1. Mailbox!Send(r) \/ Mailbox!Arrive(r)
      BY <1>0, <2>1, QueueSends, EnvelopeArrives
    <3>. QED
      BY <3>1 DEF Mailbox!Next
  <2>2. CASE Evolves
    <3>1. CASE Calm
      BY <1>0, <2>2, <3>1, CalmStutters
    <3>2. ASSUME NEW h \in Hosts, NEW m \in MsgId, Handle(h, m) PROVE Mailbox!Next
      BY <1>0, <3>2, HandleHandles DEF Mailbox!Next
    <3>3. ASSUME NEW p \in Passes, AcknowledgeOutbound(p) PROVE Mailbox!Next
      BY <1>0, <3>3, AcknowledgeConfirms DEF Mailbox!Next
    <3>. QED
      BY <1>0, <1>1, <2>2, <3>1, <3>2, <3>3, StatesStep
  <2>. QED
    BY <1>0, <1>1, <2>1, <2>2, TableStep
<1>2. CASE UNCHANGED vars
  <2>1. UNCHANGED tbl
    BY <1>2 DEF vars
  <2>2. Evolves /\ Calm
    BY <1>0, <2>1, Unchanging DEF Calm
  <2>. QED
    BY <1>0, <2>2, CalmStutters
<1>. QED
  BY <1>1, <1>2

\* The relay keeps the promises of PeerMailbox: at-most-once arrival and handling, no
\* false acknowledgement (claim_next_outbound, handle_receive, acknowledge_outbound_claim).
THEOREM Refinement == Spec => MailboxSpec
<1>. QED
  BY InvInit, InvStep, MailboxInit, MailboxStep, PTL DEF Spec, MailboxSpec, Mailbox!Spec

-----------------------------------------------------------------------------
(* What the mailbox promises holds of the relay *)

LEMMA Answers ==
    ASSUME Mailbox!MailboxTypeOK, NEW r \in Requests, Mailbox!Answerable(r),
           WithTarget \subseteq WithTarget'
    PROVE  Mailbox!Answerable(r)'
BY DEF Mailbox!Answerable

\* A step of the mailbox, one part of its invariant at a time.
LEMMA MailboxKeeps ==
    ASSUME Mailbox!MailboxTypeOK, Mailbox!AnswersFollowReceipt, [Mailbox!Next]_Mailbox!mvars
    PROVE  /\ Mailbox!MailboxTypeOK' /\ Mailbox!AnswersFollowReceipt'
           /\ WithSource \subseteq WithSource' /\ WithTarget \subseteq WithTarget'
           /\ Handled \subseteq Handled' /\ Confirmed \subseteq Confirmed'
<1>1. /\ WithSource \subseteq Requests /\ WithTarget \subseteq WithSource
      /\ Handled \subseteq WithTarget /\ Confirmed \subseteq WithTarget
  BY DEF Mailbox!MailboxTypeOK, Handled, Confirmed
<1>2. CASE UNCHANGED <<WithSource, WithTarget, Handled, Confirmed>>
  BY <1>1, <1>2 DEF Mailbox!MailboxTypeOK, Mailbox!AnswersFollowReceipt, Mailbox!Answerable,
      Handled, Confirmed
<1>3. ASSUME NEW r \in Requests, Mailbox!Send(r)
      PROVE  /\ WithSource' = WithSource \cup {r} /\ Mailbox!Answerable(r)
             /\ WithTarget' \in {WithTarget, WithTarget \cup {r}}
             /\ Handled' = Handled /\ Confirmed' = Confirmed
  BY <1>3 DEF Mailbox!Send, Handled, Confirmed
<1>4. ASSUME NEW r \in Requests, Mailbox!Arrive(r)
      PROVE  /\ r \in WithSource /\ WithSource' = WithSource
             /\ WithTarget' = WithTarget \cup {r}
             /\ Handled' = Handled /\ Confirmed' = Confirmed
  BY <1>4 DEF Mailbox!Arrive, Handled, Confirmed
<1>5. ASSUME NEW r \in Requests, Mailbox!Handle(r) \/ Mailbox!Confirm(r)
      PROVE  /\ r \in WithTarget /\ WithSource' = WithSource /\ WithTarget' = WithTarget
             /\ Handled' \in {Handled, Handled \cup {r}}
             /\ Confirmed' \in {Confirmed, Confirmed \cup {r}}
  BY <1>5 DEF Mailbox!Handle, Mailbox!Confirm, Handled, Confirmed
<1>6. ASSUME NEW r \in Requests,
             Mailbox!Send(r) \/ Mailbox!Arrive(r) \/ Mailbox!Handle(r) \/ Mailbox!Confirm(r)
      PROVE  /\ WithSource' \subseteq Requests /\ WithTarget' \subseteq WithSource'
             /\ Handled' \subseteq WithTarget' /\ Confirmed' \subseteq WithTarget'
             /\ WithSource \subseteq WithSource' /\ WithTarget \subseteq WithTarget'
             /\ Handled \subseteq Handled' /\ Confirmed \subseteq Confirmed'
             /\ WithSource' = WithSource \/ (Mailbox!Answerable(r) /\ WithSource' = WithSource \cup {r})
  BY <1>1, <1>3, <1>4, <1>5, <1>6
<1>7. CASE Mailbox!Next
  <2>1. PICK r \in Requests :
            Mailbox!Send(r) \/ Mailbox!Arrive(r) \/ Mailbox!Handle(r) \/ Mailbox!Confirm(r)
    BY <1>7 DEF Mailbox!Next
  <2>2. \A o \in WithSource' : Mailbox!Answerable(o)
    BY <1>6, <2>1 DEF Mailbox!AnswersFollowReceipt
  <2>3. \A o \in WithSource' : Mailbox!Answerable(o)'
    BY <1>6, <2>1, <2>2, Answers
  <2>. QED
    BY <1>6, <2>1, <2>3 DEF Mailbox!MailboxTypeOK, Mailbox!AnswersFollowReceipt, Handled, Confirmed
<1>. QED
  BY <1>2, <1>7 DEF Mailbox!mvars, Handled, Confirmed

\* Only sent messages are in an inbox, only messages of an inbox are handled or
\* acknowledged to their sender, and every answer follows the message it answers
\* (handle_receive, acknowledge_outbound_claim, validate_reply_reference).
THEOREM PromisesHold == Spec => [](Mailbox!MailboxTypeOK /\ Mailbox!AnswersFollowReceipt)
<1> DEFINE I == Mailbox!MailboxTypeOK /\ Mailbox!AnswersFollowReceipt
<1>1. Mailbox!Init => I
  BY DEF Mailbox!Init, Mailbox!MailboxTypeOK, Mailbox!AnswersFollowReceipt
<1>2. I /\ [Mailbox!Next]_Mailbox!mvars => I'
  BY MailboxKeeps
<1>. QED
  BY <1>1, <1>2, Refinement, PTL DEF MailboxSpec, Mailbox!Spec

\* A message that was accepted, handled or acknowledged remains so, through expired
\* claims, repeated envelopes and crashes (the states of mission_peer_messages).
THEOREM PromisesStand == Spec => Mailbox!NothingIsTakenBack
<1> DEFINE done == {r \in WithTarget : tbl[Home[r.dst]][r.id].state = "handled"}
           told == {r \in WithSource : tbl[Home[r.src]][r.id].state = "acknowledged"}
           Grows == /\ WithSource \subseteq WithSource'
                    /\ WithTarget \subseteq WithTarget'
                    /\ done \subseteq done'
                    /\ told \subseteq told'
<1>1. Mailbox!MailboxTypeOK /\ Mailbox!AnswersFollowReceipt /\ [Mailbox!Next]_Mailbox!mvars
        => [Grows]_Mailbox!mvars
  BY MailboxKeeps DEF Handled, Confirmed
<1>. QED
  BY <1>1, PromisesHold, Refinement, PTL DEF MailboxSpec, Mailbox!Spec, Mailbox!NothingIsTakenBack

-----------------------------------------------------------------------------
(* One sender *)

\* A pass in its call holds a claim that is no older than the call.
CallsHoldClaims ==
    \A p \in Passes : At(p, "send") =>
        LET row == tbl[pass[p].host][pass[p].msg] IN
        /\ row.state = "sending" /\ row.owner = p
        /\ row.age <= pass[p].age /\ pass[p].age <= SendTimeout

SameClaim(h, m) ==
    /\ tbl'[h][m].state = tbl[h][m].state
    /\ tbl'[h][m].owner = tbl[h][m].owner
    /\ tbl'[h][m].age = tbl[h][m].age

\* A claim is left alone by all but its owner, until its lease has expired.
LEMMA ClaimLasts ==
    ASSUME TypeOK, PassHolds, NEW h \in Hosts, NEW m \in MsgId, Exists(h, m),
           tbl[h][m].state = "sending", tbl[h][m].age < Lease,
           Next, ~Tick,
           \A p \in Passes : p = tbl[h][m].owner =>
                ~(AcknowledgeOutbound(p) \/ Release(p) \/ Crash(p))
    PROVE  SameClaim(h, m)
<1>0. tbl \in Table /\ tbl[h][m] \in Row
  BY Known DEF TypeOK, Table, Rows
<1>1. CASE tbl'[h][m] = tbl[h][m]
  BY <1>1 DEF SameClaim
<1>2. CASE UNCHANGED tbl
  BY <1>1, <1>2
<1>3. ASSUME NEW g \in Hosts, NEW r \in Requests, NEW d \in {"local", "outbound", "inbound"},
             Adds(g, r, d)
      PROVE  SameClaim(h, m)
  <2>1. ~(h = g /\ m = r.id)
    BY <1>3 DEF Adds
  <2>. QED
    BY <1>0, <1>1, <1>3, <2>1, AddsFacts
<1>4. ASSUME NEW r \in Requests, Queue(r) PROVE SameClaim(h, m)
  BY <1>0, <1>3, <1>4, QueueAdds, RequestFacts
<1>5. ASSUME NEW r \in Requests, tbl' = Received(r) PROVE SameClaim(h, m)
  BY <1>0, <1>2, <1>3, <1>5, ReceivedAdds, RequestFacts
<1>6. ASSUME NEW g \in Hosts, NEW n \in MsgId, Handle(g, n) PROVE SameClaim(h, m)
  <2>1. ~(h = g /\ m = n)
    BY <1>6 DEF Handle
  <2>. QED
    BY <1>0, <1>1, <1>6, <2>1 DEF Handle, Table
<1>7. ASSUME NEW q \in Passes, Claim(q) \/ ClaimNothing(q) PROVE SameClaim(h, m)
  <2> DEFINE g == pass[q].host
             s == Swept(g)
  <2>1. g \in Hosts
    BY <1>7 DEF PassHolds, Claim, ClaimNothing, At
  <2>2. h # g => tbl'[h][m] = tbl[h][m]
    BY <1>0, <1>7, <2>1 DEF Claim, ClaimNothing, Table
  <2>3. ~Stale(h, m)
    BY <1>0, Numbers, RowFacts DEF Stale
  <2>4. h = g => s[m] = tbl[h][m]
    BY <2>3 DEF Swept
  <2>5. h = g => m \notin Claimable(g)
    BY <2>4 DEF Claimable
  <2>6. s \in [MsgId -> Rows]
    BY <1>0, <2>1, SweptFacts
  <2>7. CASE h = g /\ ClaimNothing(q)
    <3>1. tbl' = [tbl EXCEPT ![g] = s]
      BY <2>7 DEF ClaimNothing
    <3> HIDE DEF s
    <3>. QED
      BY <1>0, <1>1, <2>1, <2>4, <2>7, <3>1 DEF Table
  <2>8. CASE h = g /\ Claim(q)
    <3>1. PICK n \in Oldest(g) :
            tbl' = [tbl EXCEPT ![g] = [s EXCEPT ![n].state = "sending", ![n].owner = q,
                                                ![n].age = 0]]
      BY <2>8 DEF Claim
    <3>2. n # m
      BY <2>5, <2>8, <3>1 DEF Oldest
    <3> HIDE DEF s
    <3>3. tbl'[g] = [s EXCEPT ![n].state = "sending", ![n].owner = q, ![n].age = 0]
      BY <1>0, <2>1, <3>1 DEF Table
    <3>4. tbl'[g][m] = s[m]
      BY <2>6, <3>2, <3>3
    <3>. QED
      BY <1>1, <2>4, <2>8, <3>4
  <2>. QED
    BY <1>1, <1>7, <2>2, <2>7, <2>8
<1>8. ASSUME NEW q \in Passes, AcknowledgeOutbound(q) \/ Release(q) PROVE SameClaim(h, m)
  <2>1. ~(h = pass[q].host /\ m = pass[q].msg)
    BY <1>8 DEF AcknowledgeOutbound, Release, Owns
  <2>2. CASE AcknowledgeOutbound(q)
    BY <1>0, <1>1, <2>1, <2>2 DEF AcknowledgeOutbound, Table
  <2>3. CASE Release(q)
    BY <1>0, <1>1, <2>1, <2>3 DEF Release, Table
  <2>. QED
    BY <1>8, <2>2, <2>3
<1>9. ASSUME NEW q \in Passes, RecordNotified(q) PROVE SameClaim(h, m)
  <2>1. tbl'[h][m] = tbl[h][m]
    <3>1. pass[q].host \in Hosts
      BY <1>9 DEF PassHolds, RecordNotified, At
    <3>. QED
      BY <1>0, <1>9, <3>1 DEF RecordNotified, Table
  <2>. QED
    BY <1>1, <2>1
<1>10. ASSUME NEW q \in Passes, Crash(q) PROVE SameClaim(h, m)
  <2>1. q # tbl[h][m].owner
    BY <1>10
  <2>2. pass[q].host \in Hosts
    BY <1>10 DEF PassHolds, Crash, At
  <2>3. tbl'[h][m] = tbl[h][m]
    BY <1>0, <1>10, <2>1, <2>2 DEF Crash, Table
  <2>. QED
    BY <1>1, <2>3
<1>11. ASSUME NEW q \in Passes, Deliver(q) PROVE SameClaim(h, m)
  <2>1. Carries(pass[q])
    BY <1>11 DEF Deliver, At, Carries
  <2>2. Payload(q) \in Requests /\ tbl' = Received(Payload(q))
    BY <1>11, <2>1, PayloadFacts DEF Deliver
  <2>. QED
    BY <1>5, <2>2
<1>12. ASSUME NEW q \in Passes, PassStep(q) PROVE SameClaim(h, m)
  <2>1. CASE Return(q) \/ GiveUp(q) \/ ClaimLost(q)
    BY <1>2, <2>1 DEF Return, GiveUp, ClaimLost
  <2>2. CASE NoticeStep(q) /\ ~RecordNotified(q)
    BY <1>2, <2>2 DEF NoticeStep, ReadPending, Wake, WakeFailed
  <2>. QED
    BY <1>7, <1>8, <1>9, <1>11, <1>12, <2>1, <2>2 DEF PassStep, DeliveryStep
<1>13. ASSUME NEW q \in Passes, NEW g \in Hosts, BeginDelivery(q, g) \/ BeginNotices(q, g)
       PROVE  SameClaim(h, m)
  BY <1>2, <1>13 DEF BeginDelivery, BeginNotices, Begins
<1>14. ASSUME NEW r \in Requests, ArriveLate(r) PROVE SameClaim(h, m)
  BY <1>5, <1>14 DEF ArriveLate
<1>15. CASE (\E mi \in Missions : StartPM(mi))
            \/ \E l, r \in Missions, d \in Upserted : UpsertRoute(l, r, d)
  BY <1>2, <1>15 DEF StartPM, UpsertRoute
<1>. QED
  BY <1>4, <1>6, <1>10, <1>12, <1>13, <1>14, <1>15 DEF Next

\* A pass enters its call by a claim, and leaves it when it ends or resolves.
LEMMA CallLasts ==
    ASSUME TypeOK, Next, ~Tick, NEW q \in Passes, ~Claim(q), pass'[q].phase = "send"
    PROVE  /\ pass[q].phase = "send" /\ pass'[q].age = pass[q].age
           /\ pass'[q].host = pass[q].host /\ pass'[q].msg = pass[q].msg
           /\ ~(AcknowledgeOutbound(q) \/ Release(q) \/ Crash(q))
<1> DEFINE Goal == /\ pass[q].phase = "send" /\ pass'[q].age = pass[q].age
                   /\ pass'[q].host = pass[q].host /\ pass'[q].msg = pass[q].msg
<1>0. pass \in [Passes -> Pass] /\ pass[q] \in Pass
  BY DEF TypeOK
<1>1. ASSUME UNCHANGED pass PROVE Goal
  BY <1>1
<1>2. ASSUME NEW p \in Passes, NEW x, pass' = [pass EXCEPT ![p] = x],
             p = q => x.phase # "send"
      PROVE  Goal
  BY <1>0, <1>2
<1>3. ASSUME NEW p \in Passes, NEW phase \in {"deliver", "notify", "resolve"},
             TurnsTo(p, phase) \/ Goes(p, phase)
      PROVE  Goal
  <2>1. [Idle EXCEPT !.phase = phase, !.host = pass[p].host].phase # "send"
    BY DEF Idle
  <2>2. [pass[p] EXCEPT !.phase = phase, !.age = 0].phase # "send"
    BY <1>0 DEF TypeOK, Pass
  <2>3. CASE TurnsTo(p, phase)
    BY <1>2, <2>1, <2>3 DEF TurnsTo
  <2>4. CASE Goes(p, phase)
    <3> DEFINE x == [pass[p] EXCEPT !.phase = phase, !.age = 0]
    <3>1. pass' = [pass EXCEPT ![p] = x]
      BY <2>4 DEF Goes
    <3> HIDE DEF x
    <3>. QED
      BY <1>2, <2>2, <3>1 DEF x
  <2>. QED
    BY <1>3, <2>3, <2>4
<1>4. ASSUME NEW p \in Passes, Quits(p) PROVE Goal
  BY <1>2, <1>4 DEF Quits, Idle
<1>5. ASSUME NEW p \in Passes, p # q,
             NEW x, pass' = [pass EXCEPT ![p] = x]
      PROVE  Goal
  BY <1>2, <1>5
<1>6. ASSUME NEW p \in Passes, Claim(p) PROVE Goal
  <2>1. p # q
    BY <1>6
  <2>2. pass'[q] = pass[q]
    BY <1>0, <1>6, <2>1 DEF Claim
  <2>. QED
    BY <2>2
<1>7. ASSUME NEW p \in Passes, Deliver(p) PROVE Goal
  <2>1. /\ pass'[p].phase = "send" /\ pass[p].phase = "send" /\ pass'[p].age = pass[p].age
        /\ pass'[p].host = pass[p].host /\ pass'[p].msg = pass[p].msg
        /\ p # q => pass'[q] = pass[q]
    BY <1>0, <1>7 DEF TypeOK, Pass, Deliver, At
  <2>. QED
    BY <2>1
<1>8. ASSUME NEW p \in Passes, GiveUp(p) PROVE Goal
  <2> DEFINE x == [pass[p] EXCEPT !.phase = "resolve", !.age = 0, !.verdict = "failed"]
  <2>1. pass' = [pass EXCEPT ![p] = x]
    BY <1>8 DEF GiveUp
  <2>2. x.phase # "send"
    BY <1>0 DEF TypeOK, Pass
  <2> HIDE DEF x
  <2>. QED
    BY <1>2, <2>1, <2>2
<1>9. ASSUME NEW p \in Passes, NoticeStep(p) PROVE Goal
  <2>1. pass[p] \in Pass
    BY DEF TypeOK
  <2>2. ASSUME NEW rest PROVE AfterGroup(p, rest).phase # "send"
    BY <2>1 DEF AfterGroup, Idle, Pass
  <2>3. CASE ReadPending(p)
    <3> DEFINE u == Unannounced(pass[p].host)
               x == IF u = {} THEN Idle
                    ELSE [pass[p] EXCEPT !.phase = "wake", !.age = 0, !.todo = u]
    <3>1. pass' = [pass EXCEPT ![p] = x]
      BY <2>3 DEF ReadPending
    <3> HIDE DEF u
    <3>2. x.phase # "send"
      BY <2>1 DEF Idle, Pass
    <3> HIDE DEF x
    <3>. QED
      BY <1>2, <3>1, <3>2
  <2>4. ASSUME NEW mi \in Missions, Wake(p, mi) PROVE Goal
    <3> DEFINE g == GroupOf(p, mi)
               x == [pass[p] EXCEPT !.phase = "record", !.age = 0, !.group = g, !.todo = @ \ g]
    <3>1. pass' = [pass EXCEPT ![p] = x]
      BY <2>4 DEF Wake
    <3> HIDE DEF g
    <3>2. x.phase # "send"
      BY <2>1 DEF Pass
    <3> HIDE DEF x
    <3>. QED
      BY <1>2, <3>1, <3>2
  <2>5. ASSUME NEW mi \in Missions, WakeFailed(p, mi) PROVE Goal
    BY <1>2, <2>2, <2>5 DEF WakeFailed
  <2>6. CASE RecordNotified(p)
    BY <1>2, <2>2, <2>6 DEF RecordNotified
  <2>. QED
    BY <1>9, <2>3, <2>4, <2>5, <2>6 DEF NoticeStep
<1>10. ASSUME NEW p \in Passes, PassStep(p) PROVE Goal
  <2>1. CASE ClaimNothing(p) \/ Return(p) \/ AcknowledgeOutbound(p) \/ Release(p) \/ ClaimLost(p)
    BY <1>3, <1>4, <2>1 DEF ClaimNothing, Return, AcknowledgeOutbound, Release, ClaimLost
  <2>. QED
    BY <1>6, <1>7, <1>8, <1>9, <1>10, <2>1 DEF PassStep, DeliveryStep
<1>11. ASSUME NEW p \in Passes, NEW h \in Hosts, BeginDelivery(p, h) \/ BeginNotices(p, h)
       PROVE  Goal
  <2>1. PICK phase \in {"deliver", "notify"} :
            pass' = [pass EXCEPT ![p] = [Idle EXCEPT !.phase = phase, !.host = h]]
    BY <1>11 DEF BeginDelivery, BeginNotices, Begins
  <2>2. [Idle EXCEPT !.phase = phase, !.host = h].phase # "send"
    BY DEF Idle
  <2>. QED
    BY <1>2, <2>1, <2>2
<1>12. ASSUME NEW p \in Passes, Crash(p) PROVE Goal
  BY <1>4, <1>12 DEF Crash
<1>13. ASSUME NEW r \in Requests, Queue(r) \/ ArriveLate(r) PROVE Goal
  BY <1>1, <1>13 DEF Queue, ArriveLate
<1>14. ASSUME \/ \E mi \in Missions : StartPM(mi)
              \/ \E h \in Hosts, m \in MsgId : Handle(h, m)
              \/ \E l, r \in Missions, d \in Upserted : UpsertRoute(l, r, d)
       PROVE  Goal
  BY <1>1, <1>14 DEF StartPM, Handle, UpsertRoute
<1> HIDE DEF Goal
<1>15. Goal
  BY <1>10, <1>11, <1>12, <1>13, <1>14 DEF Next
<1>16. ~(AcknowledgeOutbound(q) \/ Release(q) \/ Crash(q))
  <2>1. TurnsTo(q, "deliver") \/ Quits(q) => pass'[q].phase # "send"
    <3>1. Idle.phase # "send"
            /\ [Idle EXCEPT !.phase = "deliver", !.host = pass[q].host].phase # "send"
      BY DEF Idle
    <3>. QED
      BY <1>0, <3>1 DEF TurnsTo, Quits
  <2>. QED
    BY <2>1 DEF AcknowledgeOutbound, Release, Crash
<1>. QED
  BY <1>15, <1>16 DEF Goal

LEMMA ClaimHolds ==
    ASSUME TypeOK, PassHolds, NEW q \in Passes, Claim(q)
    PROVE  LET row == tbl'[pass'[q].host][pass'[q].msg] IN
           row.state = "sending" /\ row.owner = q /\ row.age = 0 /\ pass'[q].age = 0
<1>0. tbl \in Table /\ pass[q] \in Pass /\ pass \in [Passes -> Pass]
  BY DEF TypeOK, Table, Rows
<1> DEFINE h == pass[q].host
           s == Swept(h)
<1>1. h \in Hosts
  BY DEF PassHolds, Claim, At
<1>2. PICK m \in Oldest(h) :
        /\ tbl' = [tbl EXCEPT ![h] = [s EXCEPT ![m].state = "sending", ![m].owner = q, ![m].age = 0]]
        /\ pass' = [pass EXCEPT ![q].phase = "send", ![q].msg = m, ![q].verdict = "none", ![q].age = 0]
  BY DEF Claim
<1>3. m \in MsgId /\ Exists(h, m)
  BY DEF Oldest, Claimable
<1>4. s \in [MsgId -> Rows] /\ s[m] \in Row
  BY <1>0, <1>1, <1>3, SweptFacts DEF Keeps
<1> DEFINE c == [s[m] EXCEPT !.state = "sending", !.owner = q, !.age = 0]
           x == [pass[q] EXCEPT !.phase = "send", !.msg = m, !.verdict = "none", !.age = 0]
<1>5. tbl' = [tbl EXCEPT ![h] = [s EXCEPT ![m] = c]] /\ pass' = [pass EXCEPT ![q] = x]
  BY <1>2
<1>6. c.state = "sending" /\ c.owner = q /\ c.age = 0
  BY <1>4 DEF Row, RowFields
<1>7. x.host = h /\ x.msg = m /\ x.age = 0
  BY <1>0 DEF Pass
<1> HIDE DEF c, x, s, h
<1>8. tbl'[h][m] = c /\ pass'[q] = x
  BY <1>0, <1>1, <1>3, <1>4, <1>5 DEF Table
<1>. QED
  BY <1>6, <1>7, <1>8

LEMMA TickHolds ==
    ASSUME TypeOK, PassHolds, CallsHoldClaims, Tick, NEW q \in Passes, pass'[q].phase = "send"
    PROVE  LET row == tbl'[pass'[q].host][pass'[q].msg] IN
           /\ row.state = "sending" /\ row.owner = q
           /\ row.age <= pass'[q].age /\ pass'[q].age <= SendTimeout
<1> DEFINE h == pass[q].host
           m == pass[q].msg
           row == tbl[h][m]
<1>1. pass[q] \in Pass /\ pass'[q] = [pass[q] EXCEPT !.age = AgeAfter(q)]
  BY DEF TypeOK, Tick
<1>2. pass[q].phase = "send" /\ pass'[q].host = h /\ pass'[q].msg = m
        /\ pass'[q].age = AgeAfter(q) /\ pass[q].age \in Nat
  BY <1>1 DEF Pass
<1>3. pass[q].age < SendTimeout
  BY <1>2 DEF Tick, InTime, At
<1>4. pass'[q].age = pass[q].age + 1
  BY <1>2 DEF AgeAfter, At
<1>5. /\ row.state = "sending" /\ row.owner = q /\ row.age <= pass[q].age
      /\ h \in Hosts /\ m \in MsgId /\ Exists(h, m)
  BY <1>2 DEF CallsHoldClaims, PassHolds, At
<1>6. row \in Row /\ tbl'[h][m] = Older(row)
  BY <1>5, Known DEF Tick, TypeOK, Table, Rows
<1> HIDE DEF row
<1>7. /\ Older(row).state = "sending" /\ Older(row).owner = q
      /\ Older(row).age = Least(row.age + 1, Lease)
  <2> DEFINE a == IF row.state = "sending" THEN Least(row.age + 1, Lease) ELSE row.age
             d == IF row.due > 0 THEN row.due - 1 ELSE 0
  <2>1. Older(row) = [row EXCEPT !.age = a, !.due = d]
    BY <1>6, RowFacts DEF Older
  <2>2. a = Least(row.age + 1, Lease)
    BY <1>5
  <2> HIDE DEF a, d
  <2>. QED
    BY <1>5, <1>6, <2>1, <2>2 DEF Row, RowFields
<1>8. Least(row.age + 1, Lease) <= pass[q].age + 1
  <2>1. row.age \in Nat
    BY <1>6, RowFacts
  <2>. QED
    BY <1>2, <1>5, <2>1, Numbers DEF Least
<1>9. pass[q].age + 1 <= SendTimeout
  BY <1>2, <1>3, Numbers
<1>. QED
  BY <1>2, <1>4, <1>6, <1>7, <1>8, <1>9

LEMMA ClaimsStep ==
    ASSUME TypeOK, PassHolds, CallsHoldClaims, Next
    PROVE  CallsHoldClaims'
<1>1. ASSUME NEW q \in Passes, pass'[q].phase = "send"
      PROVE  LET row == tbl'[pass'[q].host][pass'[q].msg] IN
             /\ row.state = "sending" /\ row.owner = q
             /\ row.age <= pass'[q].age /\ pass'[q].age <= SendTimeout
  <2>1. CASE Tick
    BY <1>1, <2>1, TickHolds
  <2>2. CASE Claim(q)
    BY <2>2, ClaimHolds, Numbers
  <2>3. CASE ~Tick /\ ~Claim(q)
    <3> DEFINE h == pass[q].host
               m == pass[q].msg
    <3>1. /\ At(q, "send") /\ pass'[q].age = pass[q].age
          /\ pass'[q].host = h /\ pass'[q].msg = m
          /\ ~(AcknowledgeOutbound(q) \/ Release(q) \/ Crash(q))
      BY <1>1, <2>3, CallLasts DEF At
    <3>2. h \in Hosts /\ m \in MsgId /\ Exists(h, m) /\ pass[q].age \in Nat
            /\ tbl[h][m] \in Row
      <4>1. h \in Hosts /\ m \in MsgId /\ Exists(h, m)
        BY <3>1 DEF PassHolds, At
      <4>. QED
        BY <4>1, Known DEF TypeOK, Pass, Table, Rows
    <3>3. /\ tbl[h][m].state = "sending" /\ tbl[h][m].owner = q
          /\ tbl[h][m].age <= pass[q].age /\ pass[q].age <= SendTimeout
      BY <3>1 DEF CallsHoldClaims
    <3>4. tbl[h][m].age < Lease
      <4>1. tbl[h][m].age \in Nat /\ SendTimeout < Lease
        BY <3>2, RowFacts
      <4>. QED
        BY <3>2, <3>3, <4>1, Numbers
    <3>5. SameClaim(h, m)
      BY <2>3, <3>1, <3>2, <3>3, <3>4, ClaimLasts
    <3>. QED
      BY <3>1, <3>3, <3>5 DEF SameClaim
  <2>. QED
    BY <2>1, <2>2, <2>3
<1>. QED
  BY <1>1 DEF CallsHoldClaims, At

\* No message is carried by two calls of its host at once: a call is killed before
\* the lease of its claim expires (SSH_TOTAL_TIMEOUT, CLAIM_LEASE_MS).
THEOREM OneSenderAtATime == Spec => []OneSender
<1> DEFINE I == TypeOK /\ PassHolds /\ CallsHoldClaims
<1>1. Init => I
  <2>1. ASSUME Init, NEW p \in Passes PROVE ~At(p, "send")
    BY <2>1 DEF Init, Idle, At
  <2>. QED
    BY <2>1, TypeInit DEF CallsHoldClaims
<1>2. I /\ [Next]_vars => I'
  <2>1. I /\ UNCHANGED vars => CallsHoldClaims'
    BY DEF vars, CallsHoldClaims, At
  <2>. QED
    BY <2>1, TypeStep, ClaimsStep
<1>3. I => OneSender
  BY DEF CallsHoldClaims, OneSender
<1>. QED
  BY <1>1, <1>2, <1>3, PTL DEF Spec

LEMMA ClaimEnds ==
    ASSUME TypeOK, PassHolds, Next, NEW h \in Hosts, NEW m \in MsgId, Exists(h, m),
           tbl[h][m].state = "sending", ~Stale(h, m)
    PROVE  \/ tbl'[h][m].state = "sending" /\ tbl'[h][m].owner \in {tbl[h][m].owner, Nobody}
           \/ \E p \in Passes :
                /\ p = tbl[h][m].owner
                /\ At(p, "resolve") /\ pass[p].msg = m /\ pass[p].host = h
<1>0. tbl \in Table /\ tbl[h][m] \in Row /\ tbl[h][m].age < Lease
  <2>1. tbl \in Table /\ tbl[h][m] \in Row
    BY Known DEF TypeOK, Table, Rows
  <2>. QED
    BY <2>1, RowFacts, Numbers DEF Stale
<1>1. CASE Tick
  <2> DEFINE a == IF tbl[h][m].state = "sending" THEN Least(tbl[h][m].age + 1, Lease)
                  ELSE tbl[h][m].age
             d == IF tbl[h][m].due > 0 THEN tbl[h][m].due - 1 ELSE 0
  <2>1. tbl'[h][m] = [tbl[h][m] EXCEPT !.age = a, !.due = d]
    BY <1>0, <1>1, RowFacts DEF Tick, Older
  <2> HIDE DEF a, d
  <2>2. tbl'[h][m].state = tbl[h][m].state /\ tbl'[h][m].owner = tbl[h][m].owner
    BY <1>0, <2>1 DEF Row, RowFields
  <2>. QED
    BY <2>2
<1>2. ASSUME NEW p \in Passes, p = tbl[h][m].owner, AcknowledgeOutbound(p) \/ Release(p)
      PROVE  \/ tbl'[h][m] = tbl[h][m]
             \/ At(p, "resolve") /\ pass[p].msg = m /\ pass[p].host = h
  <2>1. CASE pass[p].msg = m /\ pass[p].host = h
    BY <1>2, <2>1 DEF AcknowledgeOutbound, Release
  <2>2. CASE ~(pass[p].msg = m /\ pass[p].host = h)
    <3>1. CASE AcknowledgeOutbound(p)
      BY <1>0, <2>2, <3>1 DEF AcknowledgeOutbound, Table
    <3>2. CASE Release(p)
      BY <1>0, <2>2, <3>2 DEF Release, Table
    <3>. QED
      BY <1>2, <3>1, <3>2
  <2>. QED
    BY <2>1, <2>2
<1>3. ASSUME NEW p \in Passes, Crash(p)
      PROVE  tbl'[h][m].state = "sending" /\ tbl'[h][m].owner \in {tbl[h][m].owner, Nobody}
  <2>1. pass[p].host \in Hosts
    BY <1>3 DEF PassHolds, Crash, At
  <2> DEFINE new == [tbl[h][m] EXCEPT !.owner = Nobody]
  <2>2. tbl'[h][m] = tbl[h][m] \/ tbl'[h][m] = new
    BY <1>0, <1>3, <2>1 DEF Crash, Table
  <2>3. new.state = "sending" /\ new.owner = Nobody
    BY <1>0 DEF Row, RowFields
  <2>. QED
    BY <2>2, <2>3
<1>4. CASE \A p \in Passes : p = tbl[h][m].owner =>
              ~(AcknowledgeOutbound(p) \/ Release(p) \/ Crash(p))
  <2>1. CASE ~Tick
    BY <1>0, <1>4, <2>1, ClaimLasts DEF SameClaim
  <2>. QED
    BY <1>1, <2>1
<1>. QED
  BY <1>2, <1>3, <1>4

\* A claim ends by the pass that made it or by its lease: a pass that lost its claim
\* never resolves that of another (release_peer_claim, acknowledge_outbound_claim).
THEOREM ClaimsEndByOwner == Spec => OnlyOwnerResolves
<1> DEFINE Ends == \A h \in Hosts, m \in MsgId :
        Exists(h, m) /\ tbl[h][m].state = "sending" =>
            \/ tbl'[h][m].state = "sending" /\ tbl'[h][m].owner \in {tbl[h][m].owner, Nobody}
            \/ Stale(h, m)
            \/ \E p \in Passes :
                /\ p = tbl[h][m].owner
                /\ At(p, "resolve") /\ pass[p].msg = m /\ pass[p].host = h
<1>1. TypeOK /\ PassHolds /\ [Next]_vars => [Ends]_vars
  <2>1. TypeOK /\ PassHolds /\ Next => Ends
    BY ClaimEnds
  <2>. QED
    BY <2>1
<1>. QED
  BY <1>1, TypeInit, TypeStep, PTL DEF Spec, OnlyOwnerResolves

-----------------------------------------------------------------------------
(* Lost claims *)

\* A pass comes to own a claim by making it.
LEMMA OwnsByClaim ==
    ASSUME TypeOK, PassHolds, Next, NEW p \in Passes, NEW h \in Hosts, NEW m \in MsgId,
           tbl'[h][m] # NoRow, tbl'[h][m].state = "sending", tbl'[h][m].owner = p
    PROVE  \/ tbl[h][m].state = "sending" /\ tbl[h][m].owner = p
           \/ Claim(p)
<1> DEFINE Goal == \/ tbl[h][m].state = "sending" /\ tbl[h][m].owner = p
                   \/ Claim(p)
<1>0. tbl \in Table /\ p # Nobody
  BY DEF TypeOK, Table, Rows
<1>1. ASSUME tbl'[h][m] = tbl[h][m] PROVE Goal
  BY <1>1
<1>2. ASSUME Exists(h, m), tbl'[h][m].state = tbl[h][m].state,
             tbl'[h][m].owner = tbl[h][m].owner
      PROVE  Goal
  BY <1>2
<1>3. ASSUME NEW row \in Row, NEW s, NEW o, NEW a, NEW d, NEW k
      PROVE  /\ [row EXCEPT !.state = s, !.owner = o, !.age = a, !.due = d].state = s
             /\ [row EXCEPT !.state = s, !.owner = o, !.age = a, !.due = d, !.attempts = k].state = s
             /\ [row EXCEPT !.state = s, !.owner = o, !.age = a].owner = o
             /\ [row EXCEPT !.age = a, !.due = d].state = row.state
             /\ [row EXCEPT !.age = a, !.due = d].owner = row.owner
             /\ [row EXCEPT !.state = s].state = s
             /\ [row EXCEPT !.owner = o].owner = o
             /\ [row EXCEPT !.notified = s].state = row.state
             /\ [row EXCEPT !.notified = s].owner = row.owner
  BY DEF Row, RowFields
<1>4. ASSUME NEW g \in Hosts, NEW r \in Requests, NEW d, Adds(g, r, d) PROVE Goal
  <2>1. PICK b \in Nat : tbl' = [tbl EXCEPT ![g][r.id] =
            NewRow(r, d, IF d = "outbound" THEN "queued" ELSE "accepted", b)]
    BY <1>4 DEF Adds
  <2> DEFINE new == NewRow(r, d, IF d = "outbound" THEN "queued" ELSE "accepted", b)
  <2>2. new.owner = Nobody
    BY DEF NewRow
  <2>3. tbl' = [tbl EXCEPT ![g][r.id] = new]
    BY <2>1
  <2> HIDE DEF new
  <2>4. h = g /\ m = r.id => tbl'[h][m] = new
    BY <1>0, <2>3 DEF Table
  <2>5. ~(h = g /\ m = r.id) => tbl'[h][m] = tbl[h][m]
    BY <1>0, <2>3 DEF Table
  <2>. QED
    BY <1>0, <1>1, <2>2, <2>4, <2>5
<1>5. ASSUME NEW r \in Requests, Queue(r) PROVE Goal
  BY <1>0, <1>4, <1>5, QueueAdds, RequestFacts
<1>6. ASSUME NEW r \in Requests, tbl' = Received(r) PROVE Goal
  BY <1>0, <1>1, <1>4, <1>6, ReceivedAdds, RequestFacts
<1>7. ASSUME NEW g \in Hosts, NEW n \in MsgId, Handle(g, n) PROVE Goal
  <2> DEFINE new == [tbl[g][n] EXCEPT !.state = "handled"]
  <2>1. tbl[g][n] \in Row
    BY <1>0, <1>7, Known DEF Handle
  <2>2. new.state = "handled"
    BY <1>3, <2>1
  <2>3. tbl' = [tbl EXCEPT ![g][n] = new]
    BY <1>7 DEF Handle
  <2> HIDE DEF new
  <2>4. tbl'[h][m] = IF h = g /\ m = n THEN new ELSE tbl[h][m]
    BY <1>0, <2>3 DEF Table
  <2>. QED
    BY <1>1, <2>2, <2>4
<1>8. ASSUME NEW g \in Hosts
      PROVE  /\ Swept(g) \in [MsgId -> Rows]
             /\ Swept(g)[m] = tbl[g][m] \/ (Exists(g, m) /\ Swept(g)[m].state = "retry")
  <2> DEFINE new == [tbl[g][m] EXCEPT !.state = "retry", !.owner = Nobody, !.age = 0, !.due = 0]
  <2>1. Exists(g, m) => new.state = "retry"
    BY <1>0, <1>3, Known
  <2>2. (Exists(g, m) /\ Swept(g)[m] = new) \/ Swept(g)[m] = tbl[g][m]
    BY DEF Swept, Stale
  <2> HIDE DEF new
  <2>. QED
    BY <1>0, <2>1, <2>2, SweptFacts
<1>9. ASSUME NEW q \in Passes, Claim(q) \/ ClaimNothing(q) PROVE Goal
  <2> DEFINE g == pass[q].host
             s == Swept(g)
  <2>1. g \in Hosts
    BY <1>9 DEF PassHolds, Claim, ClaimNothing, At
  <2>2. h # g => tbl'[h][m] = tbl[h][m]
    BY <1>0, <1>9, <2>1 DEF Claim, ClaimNothing, Table
  <2>3. s \in [MsgId -> Rows] /\ (s[m] = tbl[g][m] \/ s[m].state = "retry")
    BY <1>8, <2>1
  <2>4. CASE h = g /\ ClaimNothing(q)
    <3>1. tbl' = [tbl EXCEPT ![g] = s]
      BY <2>4 DEF ClaimNothing
    <3> HIDE DEF s
    <3>2. tbl'[h][m] = s[m]
      BY <1>0, <2>4, <3>1 DEF Table
    <3>. QED
      BY <1>1, <2>3, <2>4, <3>2
  <2>5. CASE h = g /\ Claim(q)
    <3>1. PICK n \in Oldest(g) :
            tbl' = [tbl EXCEPT ![g] = [s EXCEPT ![n].state = "sending", ![n].owner = q,
                                                ![n].age = 0]]
      BY <2>5 DEF Claim
    <3>2. n \in MsgId /\ Exists(g, n)
      BY DEF Oldest, Claimable
    <3> DEFINE c == [s[n] EXCEPT !.state = "sending", !.owner = q, !.age = 0]
    <3>3. tbl' = [tbl EXCEPT ![g] = [s EXCEPT ![n] = c]]
      BY <3>1
    <3>4. s[n] \in Row
      BY <1>0, <2>1, <3>2, SweptFacts DEF Keeps
    <3>5. c.owner = q
      BY <1>3, <3>4
    <3> HIDE DEF s, c
    <3>6. tbl'[h][m] = IF n = m THEN c ELSE s[m]
      BY <1>0, <2>3, <2>5, <3>2, <3>3 DEF Table
    <3>7. n = m => Claim(p)
      BY <2>5, <3>5, <3>6
    <3>. QED
      BY <1>1, <2>3, <2>5, <3>6, <3>7
  <2>. QED
    BY <1>1, <1>9, <2>2, <2>4, <2>5
<1>10. ASSUME NEW q \in Passes, AcknowledgeOutbound(q) \/ Release(q) PROVE Goal
  <2> DEFINE g == pass[q].host
             n == pass[q].msg
             k == tbl[g][n].attempts + 1
  <2>1. Carries(pass[q])
    BY <1>10 DEF AcknowledgeOutbound, Release, At, Carries
  <2>2. g \in Hosts /\ n \in MsgId /\ Exists(g, n) /\ tbl[g][n] \in Row
    BY <1>0, <2>1, PayloadFacts, Known
  <2>3. \E s \in {"acknowledged", "retry"} : \E d : tbl' = [tbl EXCEPT ![g][n] =
            [tbl[g][n] EXCEPT !.state = s, !.owner = Nobody, !.age = 0, !.due = d,
                              !.attempts = Least(k, MaxExponent)]]
    BY <1>10 DEF AcknowledgeOutbound, Release
  <2>4. PICK s \in {"acknowledged", "retry"} : \E d : tbl' = [tbl EXCEPT ![g][n] =
            [tbl[g][n] EXCEPT !.state = s, !.owner = Nobody, !.age = 0, !.due = d,
                              !.attempts = Least(k, MaxExponent)]]
    BY <2>3
  <2>5. PICK d : tbl' = [tbl EXCEPT ![g][n] =
            [tbl[g][n] EXCEPT !.state = s, !.owner = Nobody, !.age = 0, !.due = d,
                              !.attempts = Least(k, MaxExponent)]]
    BY <2>4
  <2> DEFINE new == [tbl[g][n] EXCEPT !.state = s, !.owner = Nobody, !.age = 0, !.due = d,
                                      !.attempts = Least(k, MaxExponent)]
  <2>6. tbl' = [tbl EXCEPT ![g][n] = new]
    BY <2>5
  <2>7. new.state = s
    BY <1>3, <2>2
  <2> HIDE DEF new
  <2>8. tbl'[h][m] = IF h = g /\ m = n THEN new ELSE tbl[h][m]
    BY <1>0, <2>6 DEF Table
  <2>. QED
    BY <1>1, <2>4, <2>7, <2>8
<1>11. ASSUME NEW q \in Passes, RecordNotified(q) PROVE Goal
  <2> DEFINE new == [tbl[h][m] EXCEPT !.notified = TRUE]
  <2>1. pass[q].host \in Hosts
    BY <1>11 DEF PassHolds, RecordNotified, At
  <2>2. tbl'[h][m] = tbl[h][m] \/ (Exists(h, m) /\ tbl'[h][m] = new)
    BY <1>0, <1>11, <2>1 DEF RecordNotified, Table
  <2>3. Exists(h, m) => new.state = tbl[h][m].state /\ new.owner = tbl[h][m].owner
    BY <1>0, <1>3, Known
  <2> HIDE DEF new
  <2>. QED
    BY <1>1, <1>2, <2>2, <2>3
<1>12. ASSUME NEW q \in Passes, Crash(q) PROVE Goal
  <2>1. pass[q].host \in Hosts
    BY <1>12 DEF PassHolds, Crash, At
  <2> DEFINE new == [tbl[h][m] EXCEPT !.owner = Nobody]
  <2>2. tbl'[h][m] = tbl[h][m] \/ (Exists(h, m) /\ tbl'[h][m] = new)
    BY <1>0, <1>12, <2>1 DEF Crash, Table
  <2>3. Exists(h, m) => new.owner = Nobody
    BY <1>0, <1>3, Known
  <2> HIDE DEF new
  <2>. QED
    BY <1>0, <1>1, <2>2, <2>3
<1>13. ASSUME Tick PROVE Goal
  <2>1. tbl'[h][m] = Older(tbl[h][m])
    BY <1>13 DEF Tick
  <2>2. Exists(h, m)
    BY <2>1 DEF Older, Exists
  <2> DEFINE a == IF tbl[h][m].state = "sending" THEN Least(tbl[h][m].age + 1, Lease)
                  ELSE tbl[h][m].age
             d == IF tbl[h][m].due > 0 THEN tbl[h][m].due - 1 ELSE 0
             new == [tbl[h][m] EXCEPT !.age = a, !.due = d]
  <2>3. tbl'[h][m] = new
    BY <2>1, <2>2 DEF Older, Exists
  <2> HIDE DEF a, d
  <2>4. new.state = tbl[h][m].state /\ new.owner = tbl[h][m].owner
    BY <1>0, <1>3, <2>2, Known
  <2> HIDE DEF new
  <2>. QED
    BY <1>2, <2>2, <2>3, <2>4
<1>14. ASSUME NEW q \in Passes, Deliver(q) PROVE Goal
  <2>1. Carries(pass[q])
    BY <1>14 DEF Deliver, At, Carries
  <2>2. Payload(q) \in Requests /\ tbl' = Received(Payload(q))
    BY <1>14, <2>1, PayloadFacts DEF Deliver
  <2>. QED
    BY <1>6, <2>2
<1>15. ASSUME NEW q \in Passes, PassStep(q) PROVE Goal
  <2>1. CASE Return(q) \/ GiveUp(q) \/ ClaimLost(q)
    BY <1>1, <2>1 DEF Return, GiveUp, ClaimLost
  <2>2. CASE NoticeStep(q) /\ ~RecordNotified(q)
    BY <1>1, <2>2 DEF NoticeStep, ReadPending, Wake, WakeFailed
  <2>. QED
    BY <1>9, <1>10, <1>11, <1>14, <1>15, <2>1, <2>2 DEF PassStep, DeliveryStep
<1>16. ASSUME NEW q \in Passes, NEW g \in Hosts, BeginDelivery(q, g) \/ BeginNotices(q, g)
       PROVE  Goal
  BY <1>1, <1>16 DEF BeginDelivery, BeginNotices, Begins
<1>17. ASSUME NEW r \in Requests, ArriveLate(r) PROVE Goal
  BY <1>6, <1>17 DEF ArriveLate
<1>18. ASSUME \/ \E mi \in Missions : StartPM(mi)
              \/ \E l, r \in Missions, d \in Upserted : UpsertRoute(l, r, d)
       PROVE  Goal
  BY <1>1, <1>18 DEF StartPM, UpsertRoute
<1> HIDE DEF Goal
<1>19. Goal
  BY <1>5, <1>7, <1>12, <1>13, <1>15, <1>16, <1>17, <1>18 DEF Next
<1>. QED
  BY <1>19 DEF Goal

\* A pass that goes on carrying carries the same message.
LEMMA CarriesOn ==
    ASSUME TypeOK, PassHolds, Next, NEW q \in Passes, Carrying(q), Carrying(q)'
    PROVE  pass'[q].host = pass[q].host /\ pass'[q].msg = pass[q].msg
<1> DEFINE Goal == pass'[q].host = pass[q].host /\ pass'[q].msg = pass[q].msg
<1>0. pass \in [Passes -> Pass] /\ pass[q].phase \in {"send", "resolve"}
        /\ pass'[q].phase \in {"send", "resolve"}
  BY DEF TypeOK, Carrying
<1>1. ASSUME pass'[q] = pass[q] PROVE Goal
  BY <1>1
<1>2. ASSUME NEW p \in Passes, NEW x, pass' = [pass EXCEPT ![p] = x],
             \/ x.phase \notin {"send", "resolve"}
             \/ x.host = pass[p].host /\ x.msg = pass[p].msg
             \/ p # q
      PROVE  Goal
  BY <1>0, <1>2
<1>3. ASSUME NEW p \in Passes, NEW phase \in {"deliver", "notify", "resolve"},
             Goes(p, phase) \/ (phase # "resolve" /\ TurnsTo(p, phase)) \/ Quits(p)
      PROVE  Goal
  <2> DEFINE gone == [pass[p] EXCEPT !.phase = phase, !.age = 0]
             turned == [Idle EXCEPT !.phase = phase, !.host = pass[p].host]
  <2>1. gone.host = pass[p].host /\ gone.msg = pass[p].msg
    BY <1>0 DEF Pass
  <2>2. turned.phase = phase /\ Idle.phase = "idle"
    BY DEF Idle
  <2>3. \/ pass' = [pass EXCEPT ![p] = gone]
        \/ phase # "resolve" /\ pass' = [pass EXCEPT ![p] = turned]
        \/ pass' = [pass EXCEPT ![p] = Idle]
    BY <1>3 DEF Goes, TurnsTo, Quits
  <2> HIDE DEF gone, turned
  <2>. QED
    BY <1>2, <2>1, <2>2, <2>3
<1>4. ASSUME NEW p \in Passes, Claim(p) \/ NoticeStep(p) PROVE Goal
  <2>1. p # q
    BY <1>0, <1>4 DEF Claim, NoticeStep, ReadPending, Wake, WakeFailed, RecordNotified, At
  <2>2. pass'[q] = pass[q]
    BY <1>0, <1>4, <2>1 DEF Claim, NoticeStep, ReadPending, Wake, WakeFailed, RecordNotified
  <2>. QED
    BY <1>1, <2>2
<1>5. ASSUME NEW p \in Passes, Deliver(p) \/ GiveUp(p) PROVE Goal
  <2> DEFINE told == [pass[p] EXCEPT !.verdict = Answer(Payload(p))]
             failed == [pass[p] EXCEPT !.phase = "resolve", !.age = 0, !.verdict = "failed"]
  <2>1. /\ told.host = pass[p].host /\ told.msg = pass[p].msg
        /\ failed.host = pass[p].host /\ failed.msg = pass[p].msg
    BY <1>0 DEF Pass
  <2>2. pass' = [pass EXCEPT ![p] = told] \/ pass' = [pass EXCEPT ![p] = failed]
    BY <1>5 DEF Deliver, GiveUp
  <2> HIDE DEF told, failed
  <2>. QED
    BY <1>2, <2>1, <2>2
<1>6. ASSUME NEW p \in Passes, PassStep(p) PROVE Goal
  <2>1. CASE ClaimNothing(p) \/ Return(p) \/ AcknowledgeOutbound(p) \/ Release(p) \/ ClaimLost(p)
    BY <1>3, <2>1 DEF ClaimNothing, Return, AcknowledgeOutbound, Release, ClaimLost
  <2>. QED
    BY <1>4, <1>5, <1>6, <2>1 DEF PassStep, DeliveryStep
<1>7. ASSUME NEW p \in Passes, NEW h \in Hosts, BeginDelivery(p, h) \/ BeginNotices(p, h)
      PROVE  Goal
  <2>1. p # q
    BY <1>0, <1>7 DEF BeginDelivery, BeginNotices, Begins, At
  <2>2. pass'[q] = pass[q]
    BY <1>0, <1>7, <2>1 DEF BeginDelivery, BeginNotices, Begins
  <2>. QED
    BY <1>1, <2>2
<1>8. ASSUME NEW p \in Passes, Crash(p) PROVE Goal
  BY <1>3, <1>8 DEF Crash
<1>9. ASSUME Tick PROVE Goal
  <2>1. pass'[q] = [pass[q] EXCEPT !.age = AgeAfter(q)]
    BY <1>9 DEF Tick
  <2>. QED
    BY <1>0, <2>1 DEF Pass
<1>10. ASSUME \/ \E r \in Requests : Queue(r) \/ ArriveLate(r)
              \/ \E mi \in Missions : StartPM(mi)
              \/ \E h \in Hosts, m \in MsgId : Handle(h, m)
              \/ \E l, r \in Missions, d \in Upserted : UpsertRoute(l, r, d)
       PROVE  Goal
  BY <1>1, <1>10 DEF Queue, ArriveLate, StartPM, Handle, UpsertRoute
<1> HIDE DEF Goal
<1>11. Goal
  BY <1>6, <1>7, <1>8, <1>9, <1>10 DEF Next
<1>. QED
  BY <1>11 DEF Goal

\* A pass whose claim expired, or was never its own, does not come to own the message
\* it carries by a claim of another: what its call brings is dropped
\* (claim_next_outbound, release_peer_claim, acknowledge_outbound_claim).
THEOREM LostClaims == Spec => LostClaimsStayLost
<1> DEFINE Stays == \A p \in Passes : Carrying(p) /\ ~Owns(p) /\ Carrying(p)' => ~Owns(p)'
<1>1. TypeOK /\ PassHolds /\ Next => Stays
  <2> SUFFICES ASSUME TypeOK, PassHolds, Next, NEW p \in Passes, Carrying(p), Carrying(p)', Owns(p)'
               PROVE  Owns(p)
    OBVIOUS
  <2> DEFINE h == pass[p].host
             m == pass[p].msg
  <2>1. pass'[p].host = h /\ pass'[p].msg = m
    BY CarriesOn
  <2>2. h \in Hosts /\ m \in MsgId /\ Exists(h, m)
    BY DEF Carrying, PassHolds, At
  <2>3. tbl'[h][m] # NoRow
    BY <2>1, TypeStep DEF Carrying, PassHolds, Exists
  <2>4. tbl'[h][m].state = "sending" /\ tbl'[h][m].owner = p
    BY <2>1 DEF Owns
  <2>5. ~Claim(p)
    BY DEF Carrying, Claim, At
  <2>. QED
    BY <2>2, <2>3, <2>4, <2>5, OwnsByClaim DEF Owns
<1>2. TypeOK /\ PassHolds /\ [Next]_vars => [Stays]_vars
  BY <1>1
<1>. QED
  BY <1>2, TypeInit, TypeStep, PTL DEF Spec, LostClaimsStayLost

-----------------------------------------------------------------------------
(* Announcements *)

\* What a pass is about to record has been announced.
PromptsAnnounce ==
    \A p \in Passes : At(p, "record") => {pass[p].host} \X pass[p].group \subseteq announced

\* A row keeps its mark, but for a pass that records the prompt it has made.
LEMMA MarkStays ==
    ASSUME TypeOK, PassHolds, Next, NEW h \in Hosts, NEW m \in MsgId,
           tbl'[h][m] # NoRow, tbl'[h][m].notified
    PROVE  \/ Exists(h, m) /\ tbl[h][m].notified
           \/ \E p \in Passes : At(p, "record") /\ h = pass[p].host /\ m \in pass[p].group
<1> DEFINE Goal == \/ Exists(h, m) /\ tbl[h][m].notified
                   \/ \E p \in Passes : At(p, "record") /\ h = pass[p].host /\ m \in pass[p].group
<1>0. tbl \in Table
  BY DEF TypeOK, Table, Rows
<1>1. ASSUME tbl'[h][m] = tbl[h][m] PROVE Goal
  BY <1>1 DEF Exists
<1>2. ASSUME Exists(h, m), tbl'[h][m].notified = tbl[h][m].notified PROVE Goal
  BY <1>2
<1>3. ASSUME NEW row \in Row, NEW s, NEW o, NEW a, NEW d, NEW k
      PROVE  /\ [row EXCEPT !.state = s, !.owner = o, !.age = a, !.due = d].notified = row.notified
             /\ [row EXCEPT !.state = s, !.owner = o, !.age = a, !.due = d, !.attempts = k].notified
                    = row.notified
             /\ [row EXCEPT !.state = s, !.owner = o, !.age = a].notified = row.notified
             /\ [row EXCEPT !.age = a, !.due = d].notified = row.notified
             /\ [row EXCEPT !.state = s].notified = row.notified
             /\ [row EXCEPT !.owner = o].notified = row.notified
  BY DEF Row, RowFields
<1>4. ASSUME NEW g \in Hosts, NEW r \in Requests, NEW d, Adds(g, r, d) PROVE Goal
  <2>1. PICK b \in Nat : tbl' = [tbl EXCEPT ![g][r.id] =
            NewRow(r, d, IF d = "outbound" THEN "queued" ELSE "accepted", b)]
    BY <1>4 DEF Adds
  <2> DEFINE new == NewRow(r, d, IF d = "outbound" THEN "queued" ELSE "accepted", b)
  <2>2. new.notified = FALSE
    BY DEF NewRow
  <2>3. tbl' = [tbl EXCEPT ![g][r.id] = new]
    BY <2>1
  <2> HIDE DEF new
  <2>4. h = g /\ m = r.id => tbl'[h][m] = new
    BY <1>0, <2>3 DEF Table
  <2>5. ~(h = g /\ m = r.id) => tbl'[h][m] = tbl[h][m]
    BY <1>0, <2>3 DEF Table
  <2>. QED
    BY <1>1, <2>2, <2>4, <2>5
<1>5. ASSUME NEW r \in Requests, Queue(r) PROVE Goal
  BY <1>0, <1>4, <1>5, QueueAdds, RequestFacts
<1>6. ASSUME NEW r \in Requests, tbl' = Received(r) PROVE Goal
  BY <1>0, <1>1, <1>4, <1>6, ReceivedAdds, RequestFacts
<1>7. ASSUME NEW g \in Hosts, NEW n \in MsgId, Handle(g, n) PROVE Goal
  <2>1. CASE h = g /\ m = n
    <3> DEFINE new == [tbl[h][m] EXCEPT !.state = "handled"]
    <3>1. Exists(h, m) /\ tbl[h][m] \in Row
      BY <1>0, <1>7, <2>1, Known DEF Handle
    <3>2. tbl' = [tbl EXCEPT ![h][m] = new]
      BY <1>7, <2>1 DEF Handle
    <3>3. new.notified = tbl[h][m].notified
      BY <1>3, <3>1
    <3> HIDE DEF new
    <3>4. tbl'[h][m] = new
      BY <1>0, <3>2 DEF Table
    <3>. QED
      BY <1>2, <3>1, <3>3, <3>4
  <2>2. CASE ~(h = g /\ m = n)
    <3>1. tbl'[h][m] = tbl[h][m]
      BY <1>0, <1>7, <2>2 DEF Handle, Table
    <3>. QED
      BY <1>1, <3>1
  <2>. QED
    BY <2>1, <2>2
<1>8. ASSUME NEW g \in Hosts
      PROVE  Exists(g, m) => Swept(g)[m].notified = tbl[g][m].notified
  <2> SUFFICES ASSUME Exists(g, m) PROVE Swept(g)[m].notified = tbl[g][m].notified
    OBVIOUS
  <2> DEFINE new == [tbl[g][m] EXCEPT !.state = "retry", !.owner = Nobody, !.age = 0, !.due = 0]
  <2>1. tbl[g][m] \in Row
    BY <1>0, Known
  <2>2. new.notified = tbl[g][m].notified
    BY <1>3, <2>1
  <2>3. Swept(g)[m] = new \/ Swept(g)[m] = tbl[g][m]
    BY DEF Swept
  <2> HIDE DEF new
  <2>. QED
    BY <2>2, <2>3
<1>9. ASSUME NEW q \in Passes, Claim(q) \/ ClaimNothing(q) PROVE Goal
  <2> DEFINE g == pass[q].host
             s == Swept(g)
  <2>1. g \in Hosts
    BY <1>9 DEF PassHolds, Claim, ClaimNothing, At
  <2>2. h # g => tbl'[h][m] = tbl[h][m]
    BY <1>0, <1>9, <2>1 DEF Claim, ClaimNothing, Table
  <2>3. /\ s \in [MsgId -> Rows]
        /\ Exists(g, m) => s[m].notified = tbl[g][m].notified
        /\ ~Exists(g, m) => s[m] = NoRow
        /\ Exists(g, m) => s[m] \in Row
    BY <1>0, <1>8, <2>1, SweptFacts DEF Keeps
  <2>4. CASE h = g /\ ClaimNothing(q)
    <3>1. tbl' = [tbl EXCEPT ![g] = s]
      BY <2>4 DEF ClaimNothing
    <3> HIDE DEF s
    <3>2. tbl'[h][m] = s[m]
      BY <1>0, <2>4, <3>1 DEF Table
    <3>. QED
      BY <1>2, <2>3, <2>4, <3>2
  <2>5. CASE h = g /\ Claim(q)
    <3>1. PICK n \in Oldest(g) :
            tbl' = [tbl EXCEPT ![g] = [s EXCEPT ![n].state = "sending", ![n].owner = q,
                                                ![n].age = 0]]
      BY <2>5 DEF Claim
    <3>2. n \in MsgId /\ Exists(g, n)
      BY DEF Oldest, Claimable
    <3> DEFINE c == [s[n] EXCEPT !.state = "sending", !.owner = q, !.age = 0]
    <3>3. tbl' = [tbl EXCEPT ![g] = [s EXCEPT ![n] = c]]
      BY <3>1
    <3>4. n = m => c.notified = s[m].notified
      BY <1>3, <2>3, <3>2
    <3> HIDE DEF s, c
    <3>5. tbl'[h][m] = IF n = m THEN c ELSE s[m]
      BY <1>0, <2>3, <2>5, <3>2, <3>3 DEF Table
    <3>6. Exists(g, m) => tbl'[h][m].notified = tbl[h][m].notified
      BY <2>3, <2>5, <3>4, <3>5
    <3>7. Exists(g, m)
      BY <2>3, <3>2, <3>5
    <3>. QED
      BY <1>2, <2>5, <3>6, <3>7
  <2>. QED
    BY <1>1, <1>9, <2>2, <2>4, <2>5
<1>10. ASSUME NEW q \in Passes, AcknowledgeOutbound(q) \/ Release(q) PROVE Goal
  <2> DEFINE g == pass[q].host
             n == pass[q].msg
             k == tbl[g][n].attempts + 1
  <2>1. Carries(pass[q])
    BY <1>10 DEF AcknowledgeOutbound, Release, At, Carries
  <2>2. g \in Hosts /\ n \in MsgId /\ Exists(g, n) /\ tbl[g][n] \in Row
    BY <1>0, <2>1, PayloadFacts, Known
  <2>3. \E s, d : tbl' = [tbl EXCEPT ![g][n] =
            [tbl[g][n] EXCEPT !.state = s, !.owner = Nobody, !.age = 0, !.due = d,
                              !.attempts = Least(k, MaxExponent)]]
    BY <1>10 DEF AcknowledgeOutbound, Release
  <2>4. PICK s, d : tbl' = [tbl EXCEPT ![g][n] =
            [tbl[g][n] EXCEPT !.state = s, !.owner = Nobody, !.age = 0, !.due = d,
                              !.attempts = Least(k, MaxExponent)]]
    BY <2>3
  <2> DEFINE new == [tbl[g][n] EXCEPT !.state = s, !.owner = Nobody, !.age = 0, !.due = d,
                                      !.attempts = Least(k, MaxExponent)]
  <2>5. tbl' = [tbl EXCEPT ![g][n] = new]
    BY <2>4
  <2>6. new.notified = tbl[g][n].notified
    BY <1>3, <2>2
  <2> HIDE DEF new
  <2>7. tbl'[h][m] = IF h = g /\ m = n THEN new ELSE tbl[h][m]
    BY <1>0, <2>5 DEF Table
  <2>. QED
    BY <1>1, <1>2, <2>2, <2>6, <2>7
<1>11. ASSUME NEW q \in Passes, RecordNotified(q) PROVE Goal
  <2>1. CASE h = pass[q].host /\ m \in pass[q].group
    BY <1>11, <2>1 DEF RecordNotified
  <2>2. CASE ~(h = pass[q].host /\ m \in pass[q].group)
    <3>1. tbl'[h][m] = tbl[h][m]
      BY <1>0, <1>11, <2>2 DEF RecordNotified, Table
    <3>. QED
      BY <1>1, <3>1
  <2>. QED
    BY <2>1, <2>2
<1>12. ASSUME NEW q \in Passes, Crash(q) PROVE Goal
  <2>1. pass[q].host \in Hosts
    BY <1>12 DEF PassHolds, Crash, At
  <2> DEFINE new == [tbl[h][m] EXCEPT !.owner = Nobody]
  <2>2. tbl'[h][m] = tbl[h][m] \/ (Exists(h, m) /\ tbl'[h][m] = new)
    BY <1>0, <1>12, <2>1 DEF Crash, Table
  <2>3. Exists(h, m) => new.notified = tbl[h][m].notified
    BY <1>0, <1>3, Known
  <2> HIDE DEF new
  <2>. QED
    BY <1>1, <1>2, <2>2, <2>3
<1>13. ASSUME Tick PROVE Goal
  <2>1. tbl'[h][m] = Older(tbl[h][m])
    BY <1>13 DEF Tick
  <2>2. Exists(h, m)
    BY <2>1 DEF Older, Exists
  <2> DEFINE a == IF tbl[h][m].state = "sending" THEN Least(tbl[h][m].age + 1, Lease)
                  ELSE tbl[h][m].age
             d == IF tbl[h][m].due > 0 THEN tbl[h][m].due - 1 ELSE 0
             new == [tbl[h][m] EXCEPT !.age = a, !.due = d]
  <2>3. tbl'[h][m] = new
    BY <2>1, <2>2 DEF Older, Exists
  <2> HIDE DEF a, d
  <2>4. new.notified = tbl[h][m].notified
    BY <1>0, <1>3, <2>2, Known
  <2> HIDE DEF new
  <2>. QED
    BY <1>2, <2>2, <2>3, <2>4
<1>14. ASSUME NEW q \in Passes, Deliver(q) PROVE Goal
  <2>1. Carries(pass[q])
    BY <1>14 DEF Deliver, At, Carries
  <2>2. Payload(q) \in Requests /\ tbl' = Received(Payload(q))
    BY <1>14, <2>1, PayloadFacts DEF Deliver
  <2>. QED
    BY <1>6, <2>2
<1>15. ASSUME NEW q \in Passes, PassStep(q) PROVE Goal
  <2>1. CASE Return(q) \/ GiveUp(q) \/ ClaimLost(q)
    BY <1>1, <2>1 DEF Return, GiveUp, ClaimLost
  <2>2. CASE NoticeStep(q) /\ ~RecordNotified(q)
    BY <1>1, <2>2 DEF NoticeStep, ReadPending, Wake, WakeFailed
  <2>. QED
    BY <1>9, <1>10, <1>11, <1>14, <1>15, <2>1, <2>2 DEF PassStep, DeliveryStep
<1>16. ASSUME NEW q \in Passes, NEW g \in Hosts, BeginDelivery(q, g) \/ BeginNotices(q, g)
       PROVE  Goal
  BY <1>1, <1>16 DEF BeginDelivery, BeginNotices, Begins
<1>17. ASSUME NEW r \in Requests, ArriveLate(r) PROVE Goal
  BY <1>6, <1>17 DEF ArriveLate
<1>18. ASSUME \/ \E mi \in Missions : StartPM(mi)
              \/ \E l, r \in Missions, d \in Upserted : UpsertRoute(l, r, d)
       PROVE  Goal
  BY <1>1, <1>18 DEF StartPM, UpsertRoute
<1> HIDE DEF Goal
<1>19. Goal
  BY <1>5, <1>7, <1>12, <1>13, <1>15, <1>16, <1>17, <1>18 DEF Next
<1>. QED
  BY <1>19 DEF Goal

\* A pass comes to record a prompt by making it.
LEMMA RecordFollowsWake ==
    ASSUME TypeOK, Next, NEW q \in Passes, pass'[q].phase = "record"
    PROVE  \/ /\ pass[q].phase = "record"
              /\ pass'[q].host = pass[q].host /\ pass'[q].group = pass[q].group
           \/ \E mi \in Missions : Wake(q, mi)
<1> DEFINE Goal == \/ /\ pass[q].phase = "record"
                      /\ pass'[q].host = pass[q].host /\ pass'[q].group = pass[q].group
                   \/ \E mi \in Missions : Wake(q, mi)
<1>0. pass \in [Passes -> Pass] /\ \A p \in Passes : pass[p] \in Pass
  BY DEF TypeOK
<1>1. ASSUME UNCHANGED pass PROVE Goal
  BY <1>1
<1>2. ASSUME NEW p \in Passes, NEW x, pass' = [pass EXCEPT ![p] = x],
             p = q => x.phase # "record"
      PROVE  Goal
  BY <1>0, <1>2
<1>3. ASSUME NEW p \in Passes, NEW phase \in {"deliver", "notify", "resolve"},
             TurnsTo(p, phase) \/ Goes(p, phase)
      PROVE  Goal
  <2> DEFINE turned == [Idle EXCEPT !.phase = phase, !.host = pass[p].host]
             gone == [pass[p] EXCEPT !.phase = phase, !.age = 0]
  <2>1. turned.phase # "record" /\ gone.phase # "record"
    BY <1>0 DEF Idle, Pass
  <2>2. pass' = [pass EXCEPT ![p] = turned] \/ pass' = [pass EXCEPT ![p] = gone]
    BY <1>3 DEF TurnsTo, Goes
  <2> HIDE DEF turned, gone
  <2>. QED
    BY <1>2, <2>1, <2>2
<1>4. ASSUME NEW p \in Passes, Quits(p) PROVE Goal
  BY <1>2, <1>4 DEF Quits, Idle
<1>5. ASSUME NEW p \in Passes, Claim(p) \/ Deliver(p) \/ GiveUp(p) PROVE Goal
  <2>0. pass[p] \in Pass
    BY <1>0
  <2>1. CASE Claim(p)
    <3>1. PICK m \in Oldest(pass[p].host) :
            pass' = [pass EXCEPT ![p].phase = "send", ![p].msg = m, ![p].verdict = "none",
                                 ![p].age = 0]
      BY <2>1 DEF Claim
    <3> DEFINE x == [pass[p] EXCEPT !.phase = "send", !.msg = m, !.verdict = "none", !.age = 0]
    <3>2. pass' = [pass EXCEPT ![p] = x]
      BY <3>1
    <3>3. x.phase # "record"
      BY <2>0 DEF Pass
    <3> HIDE DEF x
    <3>. QED
      BY <1>2, <3>2, <3>3
  <2>2. CASE Deliver(p)
    <3> DEFINE x == [pass[p] EXCEPT !.verdict = Answer(Payload(p))]
    <3>1. pass' = [pass EXCEPT ![p] = x] /\ pass[p].phase = "send"
      BY <2>2 DEF Deliver, At
    <3>2. x.phase # "record"
      BY <2>0, <3>1 DEF Pass
    <3> HIDE DEF x
    <3>. QED
      BY <1>2, <3>1, <3>2
  <2>3. CASE GiveUp(p)
    <3> DEFINE x == [pass[p] EXCEPT !.phase = "resolve", !.age = 0, !.verdict = "failed"]
    <3>1. pass' = [pass EXCEPT ![p] = x]
      BY <2>3 DEF GiveUp
    <3>2. x.phase # "record"
      BY <2>0 DEF Pass
    <3> HIDE DEF x
    <3>. QED
      BY <1>2, <3>1, <3>2
  <2>. QED
    BY <1>5, <2>1, <2>2, <2>3
<1>6. ASSUME NEW p \in Passes, NoticeStep(p) PROVE Goal
  <2>1. pass[p] \in Pass
    BY <1>0
  <2>2. ASSUME NEW rest PROVE AfterGroup(p, rest).phase # "record"
    BY <2>1 DEF AfterGroup, Idle, Pass
  <2>3. CASE ReadPending(p)
    <3> DEFINE u == Unannounced(pass[p].host)
               x == IF u = {} THEN Idle
                    ELSE [pass[p] EXCEPT !.phase = "wake", !.age = 0, !.todo = u]
    <3>1. pass' = [pass EXCEPT ![p] = x]
      BY <2>3 DEF ReadPending
    <3> HIDE DEF u
    <3>2. x.phase # "record"
      BY <2>1 DEF Idle, Pass
    <3> HIDE DEF x
    <3>. QED
      BY <1>2, <3>1, <3>2
  <2>4. ASSUME NEW mi \in Missions, Wake(p, mi) PROVE Goal
    <3>1. CASE p = q
      BY <2>4, <3>1
    <3>2. CASE p # q
      <4>1. pass'[q] = pass[q]
        BY <1>0, <2>4, <3>2 DEF Wake
      <4>. QED
        BY <4>1
    <3>. QED
      BY <3>1, <3>2
  <2>5. ASSUME NEW mi \in Missions, WakeFailed(p, mi) PROVE Goal
    BY <1>2, <2>2, <2>5 DEF WakeFailed
  <2>6. CASE RecordNotified(p)
    BY <1>2, <2>2, <2>6 DEF RecordNotified
  <2>. QED
    BY <1>6, <2>3, <2>4, <2>5, <2>6 DEF NoticeStep
<1>7. ASSUME NEW p \in Passes, PassStep(p) PROVE Goal
  <2>1. CASE ClaimNothing(p) \/ Return(p) \/ AcknowledgeOutbound(p) \/ Release(p) \/ ClaimLost(p)
    BY <1>3, <1>4, <2>1 DEF ClaimNothing, Return, AcknowledgeOutbound, Release, ClaimLost
  <2>. QED
    BY <1>5, <1>6, <1>7, <2>1 DEF PassStep, DeliveryStep
<1>8. ASSUME NEW p \in Passes, NEW h \in Hosts, BeginDelivery(p, h) \/ BeginNotices(p, h)
      PROVE  Goal
  <2>1. PICK phase \in {"deliver", "notify"} :
            pass' = [pass EXCEPT ![p] = [Idle EXCEPT !.phase = phase, !.host = h]]
    BY <1>8 DEF BeginDelivery, BeginNotices, Begins
  <2>2. [Idle EXCEPT !.phase = phase, !.host = h].phase # "record"
    BY DEF Idle
  <2>. QED
    BY <1>2, <2>1, <2>2
<1>9. ASSUME NEW p \in Passes, Crash(p) PROVE Goal
  BY <1>4, <1>9 DEF Crash
<1>10. ASSUME Tick PROVE Goal
  <2>1. pass'[q] = [pass[q] EXCEPT !.age = AgeAfter(q)]
    BY <1>10 DEF Tick
  <2>. QED
    BY <1>0, <2>1 DEF Pass
<1>11. ASSUME NEW r \in Requests, Queue(r) \/ ArriveLate(r) PROVE Goal
  BY <1>1, <1>11 DEF Queue, ArriveLate
<1>12. ASSUME \/ \E mi \in Missions : StartPM(mi)
              \/ \E h \in Hosts, m \in MsgId : Handle(h, m)
              \/ \E l, r \in Missions, d \in Upserted : UpsertRoute(l, r, d)
       PROVE  Goal
  BY <1>1, <1>12 DEF StartPM, Handle, UpsertRoute
<1> HIDE DEF Goal
<1>13. Goal
  BY <1>7, <1>8, <1>9, <1>10, <1>11, <1>12 DEF Next
<1>. QED
  BY <1>13 DEF Goal

LEMMA AnnouncedGrows == Next => announced \subseteq announced'
<1> SUFFICES ASSUME Next PROVE announced \subseteq announced'
  OBVIOUS
<1>1. ASSUME NEW p \in Passes, PassStep(p) PROVE announced \subseteq announced'
  BY <1>1 DEF PassStep, DeliveryStep, NoticeStep, Claim, ClaimNothing, Deliver, Return, GiveUp,
      AcknowledgeOutbound, Release, ClaimLost, ReadPending, Wake, WakeFailed, RecordNotified
<1>2. ASSUME NEW p \in Passes, NEW h \in Hosts, BeginDelivery(p, h) \/ BeginNotices(p, h)
      PROVE  announced \subseteq announced'
  BY <1>2 DEF BeginDelivery, BeginNotices, Begins
<1>3. ASSUME NEW p \in Passes, Crash(p) PROVE announced \subseteq announced'
  BY <1>3 DEF Crash
<1>4. ASSUME NEW r \in Requests, Queue(r) \/ ArriveLate(r) PROVE announced \subseteq announced'
  BY <1>4 DEF Queue, ArriveLate
<1>5. ASSUME \/ \E mi \in Missions : StartPM(mi)
             \/ \E h \in Hosts, m \in MsgId : Handle(h, m)
             \/ \E l, r \in Missions, d \in Upserted : UpsertRoute(l, r, d)
             \/ Tick
      PROVE  announced \subseteq announced'
  BY <1>5 DEF StartPM, Handle, UpsertRoute, Tick
<1>. QED
  BY <1>1, <1>2, <1>3, <1>4, <1>5 DEF Next

LEMMA PromptsStep ==
    ASSUME TypeOK, PromptsAnnounce, Next
    PROVE  PromptsAnnounce'
<1>1. ASSUME NEW q \in Passes, pass'[q].phase = "record"
      PROVE  {pass'[q].host} \X pass'[q].group \subseteq announced'
  <2>1. CASE /\ pass[q].phase = "record"
             /\ pass'[q].host = pass[q].host /\ pass'[q].group = pass[q].group
    <3>1. {pass[q].host} \X pass[q].group \subseteq announced
      BY <2>1 DEF PromptsAnnounce, At
    <3>. QED
      BY <2>1, <3>1, AnnouncedGrows
  <2>2. ASSUME NEW mi \in Missions, Wake(q, mi)
        PROVE  {pass'[q].host} \X pass'[q].group \subseteq announced'
    <3> DEFINE g == GroupOf(q, mi)
               x == [pass[q] EXCEPT !.phase = "record", !.age = 0, !.group = g, !.todo = @ \ g]
    <3>1. pass' = [pass EXCEPT ![q] = x] /\ announced' = announced \cup ({pass[q].host} \X g)
      BY <2>2 DEF Wake
    <3> HIDE DEF g
    <3>2. x.host = pass[q].host /\ x.group = g
      BY DEF TypeOK, Pass
    <3> HIDE DEF x
    <3>3. pass'[q] = x
      BY <3>1 DEF TypeOK
    <3>. QED
      BY <3>1, <3>2, <3>3
  <2>. QED
    BY <1>1, <2>1, <2>2, RecordFollowsWake
<1>. QED
  BY <1>1 DEF PromptsAnnounce, At

\* A row is marked as announced only after a prompt that included it was accepted
\* (notify_peer_inboxes, update_notification_rows).
THEOREM MarksAreTrue == Spec => []NotifiedWasAnnounced
<1> DEFINE I == TypeOK /\ PassHolds /\ PromptsAnnounce /\ NotifiedWasAnnounced
<1>1. Init => I
  <2>1. ASSUME Init, NEW p \in Passes PROVE ~At(p, "record")
    BY <2>1 DEF Init, Idle, At
  <2>2. ASSUME Init, NEW h \in Hosts, NEW m \in MsgId PROVE ~Exists(h, m)
    BY <2>2 DEF Init, Exists
  <2>. QED
    BY <2>1, <2>2, TypeInit DEF PromptsAnnounce, NotifiedWasAnnounced
<1>2. I /\ [Next]_vars => I'
  <2> SUFFICES ASSUME I, [Next]_vars PROVE (PromptsAnnounce /\ NotifiedWasAnnounced)'
    BY TypeStep
  <2>1. CASE Next
    <3>1. ASSUME NEW h \in Hosts, NEW m \in MsgId, tbl'[h][m] # NoRow, tbl'[h][m].notified
          PROVE  <<h, m>> \in announced'
      <4>1. <<h, m>> \in announced
        BY <2>1, <3>1, MarkStays DEF PromptsAnnounce, NotifiedWasAnnounced
      <4>. QED
        BY <2>1, <4>1, AnnouncedGrows
    <3>. QED
      BY <2>1, <3>1, PromptsStep DEF NotifiedWasAnnounced, Exists
  <2>2. CASE UNCHANGED vars
    BY <2>2 DEF vars, PromptsAnnounce, NotifiedWasAnnounced, At, Exists
  <2>. QED
    BY <2>1, <2>2
<1>. QED
  BY <1>1, <1>2, PTL DEF Spec
=============================================================================
