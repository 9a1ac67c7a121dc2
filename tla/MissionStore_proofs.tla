------------------------- MODULE MissionStore_proofs ------------------------
(***************************************************************************)
(* Proofs about the durable store: its types, and that it implements the   *)
(* reducer's life cycle, for any number of drivers, rows, assignments,     *)
(* attempts and ticks.                                                     *)
(***************************************************************************)
EXTENDS MissionStore, SequenceTheorems, TLAPS

USE ReducerAssumption

-----------------------------------------------------------------------------
\* The reducer keeps its types (restated for instance R).

LEMMA ReducerRow ==
    ASSUME R!TypeOK, NEW a \in AsgId, asg[a].state # "none"
    PROVE  asg[a] \in R!Assignment /\ a < nextAsg /\ R!Root(a) \in AsgId
<1>1. asg[a] \in R!Assignment /\ a < nextAsg
  BY DEF R!TypeOK, R!Absent, AsgId, R!AsgId
<1>. QED
  BY <1>1 DEF R!Root, R!Assignment, AsgId, R!AsgId, R!NoAsg

LEMMA ReducerSettled ==
    ASSUME R!TypeOK, NEW a \in AsgId, asg[a].state # "none", NEW k \in R!ReplyKinds
    PROVE  R!Settled(a, k) \in R!Assignment /\ R!Settled(a, k).state # "none"
<1>1. asg[a] \in R!Assignment
  BY ReducerRow
<1>2. R!SettledState(k) \in R!States /\ R!SettledState(k) # "none"
  BY DEF R!SettledState, R!ReplyKinds, R!States, R!Open, R!Terminal
<1>. QED
  BY <1>1, <1>2 DEF R!Settled, R!Assignment

LEMMA ReducerNew ==
    ASSUME NEW r \in R!Owners, NEW k \in R!Kinds, NEW p \in AsgId \cup {NoAsg},
           NEW n \in 0 .. MaxRounds
    PROVE  /\ R!NewAssignment(r, k, p, n) \in R!Assignment
           /\ R!NewAssignment(r, k, p, n).state = "queued"
BY DEF R!NewAssignment, R!Assignment, R!States, R!Open, AsgId, R!AsgId, NoAsg, R!NoAsg

LEMMA ReducerFollowUp ==
    ASSUME R!TypeOK, NEW a \in AsgId, asg[a].state # "none", NEW k \in R!ReplyKinds,
           NEW f \in R!FollowUps(a, k)
    PROVE  f \in R!Assignment /\ f.state = "queued"
<1>1. asg[a].round \in 0 .. MaxRounds /\ R!Root(a) \in AsgId
  BY ReducerRow DEF R!Assignment
<1>2. f = R!NewAssignment("reviewer", "review", R!Root(a), asg[a].round)
        \/ (f = R!NewAssignment("worker", "fix", R!Root(a), asg[a].round + 1)
            /\ asg[a].round + 1 \in 0 .. MaxRounds)
  BY <1>1 DEF R!FollowUps
<1>. QED
  BY <1>1, <1>2, ReducerNew DEF R!Owners, R!Roles, R!Kinds

LEMMA ReducerTypeStep == R!TypeOK /\ R!Next => R!TypeOK'
<1> SUFFICES ASSUME R!TypeOK, R!Next PROVE R!TypeOK'
  OBVIOUS
<1>. USE DEF AsgId
<1>1. ASSUME NEW r \in R!Owners, NEW k \in R!Kinds, R!Dispatch(r, k) PROVE R!TypeOK'
  <2>1. /\ R!NewAssignment(r, k, R!NoAsg, 0) \in R!Assignment
        /\ R!NewAssignment(r, k, R!NoAsg, 0).state = "queued"
    BY ReducerNew DEF NoAsg
  <2>. QED
    BY <1>1, <2>1 DEF R!Dispatch, R!TypeOK, R!AsgId
<1>2. ASSUME NEW a \in R!AsgId, R!Activate(a) PROVE R!TypeOK'
  <2>1. asg[a] \in R!Assignment
    BY <1>2, ReducerRow DEF R!Activate
  <2>2. [asg[a] EXCEPT !.state = "active"] \in R!Assignment
    BY <2>1 DEF R!Assignment, R!States, R!Open
  <2>. QED
    BY <1>2, <2>1, <2>2 DEF R!Activate, R!TypeOK, R!AsgId
<1>3. ASSUME NEW a \in R!AsgId, R!Block(a) PROVE R!TypeOK'
  <2>1. R!Settled(a, "blocked") \in R!Assignment /\ R!Settled(a, "blocked").state # "none"
    BY <1>3, ReducerSettled DEF R!Block, R!ReplyKinds
  <2>. QED
    BY <1>3, <2>1 DEF R!Block, R!TypeOK, R!AsgId
<1>4. ASSUME NEW a \in R!AsgId, NEW k \in R!ReplyKinds, R!Reply(a, k) PROVE R!TypeOK'
  <2>1. asg[a].state # "none"
    BY <1>4 DEF R!Reply, R!ReplyAccepted
  <2>2. R!Settled(a, k) \in R!Assignment /\ R!Settled(a, k).state # "none" /\ a < nextAsg
    BY <2>1, ReducerSettled, ReducerRow
  <2>3. CASE asg' = [asg EXCEPT ![a] = R!Settled(a, k)] /\ UNCHANGED nextAsg
    BY <2>1, <2>2, <2>3 DEF R!TypeOK, R!AsgId
  <2>4. ASSUME NEW f \in R!FollowUps(a, k), nextAsg \in R!AsgId, nextAsg' = nextAsg + 1,
               asg' = [asg EXCEPT ![a] = R!Settled(a, k), ![nextAsg] = f]
        PROVE  R!TypeOK'
    <3>1. f \in R!Assignment /\ f.state = "queued"
      BY <2>1, ReducerFollowUp
    <3>. QED
      BY <2>1, <2>2, <2>4, <3>1 DEF R!TypeOK, R!AsgId
  <2>. QED
    BY <1>4, <2>3, <2>4 DEF R!Reply
<1>. QED
  BY <1>1, <1>2, <1>3, <1>4 DEF R!Next

-----------------------------------------------------------------------------
\* Every step of the store is a step of the reducer or leaves its rows alone.

LEMMA ReplyRefines ==
    ASSUME R!TypeOK, NEW a \in AsgId, NEW k \in R!ReplyKinds, Reply(a, k)
    PROVE  R!Reply(a, k)
<1>0. /\ R!ReplyAccepted(a, k) /\ R!ReplyKindAllowed(asg[a].role, k)
      /\ asg[a].round \in Nat
  BY ReducerRow DEF Reply, R!ReplyAccepted, R!Assignment
<1>1. CASE k = "completed" /\ ReplyCompleted(a)
  <2>1. R!FollowUps(a, k) =
          {R!NewAssignment("reviewer", "review", R!Root(a), asg[a].round)}
    BY <1>1 DEF ReplyCompleted, R!FollowUps
  <2>. QED
    BY <1>0, <1>1, <2>1 DEF ReplyCompleted, R!Reply, AsgId
<1>2. CASE k = "rejected" /\ ReplyRejected(a)
  <2>1. asg[a].role = "reviewer"
    BY <1>0, <1>2 DEF R!ReplyKindAllowed
  <2>2. R!FollowUps(a, k) =
          {R!NewAssignment("worker", "fix", R!Root(a), asg[a].round + 1)}
    BY <1>2, <2>1 DEF ReplyRejected, RoundsLeft, R!FollowUps
  <2>. QED
    BY <1>0, <1>2, <2>2 DEF ReplyRejected, R!Reply, AsgId
<1>3. CASE ReplyVerdict(a, k)
  <2>1. k = "approved" \/ (k = "rejected" /\ ~(asg[a].round + 1 <= MaxRounds))
    BY <1>0, <1>3 DEF ReplyVerdict, RoundsLeft
  <2>2. R!FollowUps(a, k) = {}
    BY <2>1 DEF R!FollowUps
  <2>. QED
    BY <1>0, <1>3, <2>2 DEF ReplyVerdict, R!Reply
<1>4. CASE ReplyReport(a, k)
  <2>1. R!FollowUps(a, k) = {}
    BY <1>4 DEF ReplyReport, R!FollowUps
  <2>. QED
    BY <1>0, <1>4, <2>1 DEF ReplyReport, R!Reply
<1>. QED
  BY <1>1, <1>2, <1>3, <1>4 DEF Reply

\* A driver reports about a row it has claimed; this and the outcome's type are
\* all the type invariant lacks to be inductive.
PassRows ==
    \A d \in Drivers :
        /\ drv[d].pc \in {"executing", "reporting"} => drv[d].row \in OutId
        /\ drv[d].pc = "reporting" => drv[d].outcome # "none"

TypeInv == TypeOK /\ PassRows

LEMMA StepRefines == ASSUME TypeInv, Next PROVE R!Next \/ UNCHANGED R!rvars
<1>0. R!TypeOK
  BY DEF TypeInv, TypeOK
<1>1. ASSUME NEW r \in Roles, NEW k \in R!Kinds, Dispatch(r, k) PROVE R!Next
  <2>1. r \in R!Owners
    BY <1>1 DEF Dispatch, R!AssignmentKindAllowed, R!Owners, R!Roles
  <2>2. R!Dispatch(r, k)
    BY <1>1 DEF Dispatch, R!Dispatch, NoAsg, AsgId
  <2>. QED
    BY <2>1, <2>2 DEF R!Next
<1>2. ASSUME NEW a \in AsgId, NEW k \in R!ReplyKinds, Reply(a, k) PROVE R!Next
  BY <1>0, <1>2, ReplyRefines DEF R!Next, AsgId
<1>3. ASSUME NEW a \in AsgId, NEW s \in 1 .. MaxSeq, NEW safe \in BOOLEAN, Settle(a, s, safe)
      PROVE  R!Next \/ UNCHANGED R!rvars
  <2>1. CASE SettleIgnored(a) \/ SettleResumed(a, safe)
    BY <1>3, <2>1 DEF Settle, SettleIgnored, SettleResumed, R!rvars
  <2>2. CASE SettleBlocked(a, safe)
    <3>1. R!Block(a)
      BY <1>3, <2>2 DEF Settle, SettleBlocked, R!Block
    <3>. QED
      BY <3>1 DEF R!Next, AsgId
  <2>. QED
    BY <1>3, <2>1, <2>2 DEF Settle
<1>4. ASSUME NEW d \in Drivers, ReportDelivered(d) PROVE R!Next \/ UNCHANGED R!rvars
  <2>. DEFINE a == outbox[drv[d].row].asg
  <2>1. CASE a = NoAsg
    BY <1>4, <2>1 DEF ReportDelivered, R!rvars
  <2>2. CASE a # NoAsg
    <3>1. R!Activate(a)
      BY <1>4, <2>2 DEF ReportDelivered, Activatable, Activated, R!Activate
    <3>2. drv[d].row \in OutId
      BY <1>4 DEF ReportDelivered, Reporting, TypeInv, PassRows
    <3>3. a \in R!AsgId
      BY <2>2, <3>2 DEF TypeInv, TypeOK, Row, NoRow, AsgId
    <3>. QED
      BY <3>1, <3>3 DEF R!Next
  <2>. QED
    BY <2>1, <2>2
<1>5. ASSUME NEW r \in Roles, Context(r) \/ ReplaceRole(r) PROVE UNCHANGED R!rvars
  BY <1>5 DEF Context, ReplaceRole, R!rvars
<1>6. ASSUME NEW d \in Drivers, PassStep(d) \/ Crash(d), ~ReportDelivered(d)
      PROVE  UNCHANGED R!rvars
  BY <1>6 DEF PassStep, Crash, BeginPass, ClaimNothing, Claim, EndPass, Execute,
              ReportDeferred, ReportRefused, R!rvars
<1>7. CASE Tick
  BY <1>7 DEF Tick, R!rvars
<1>. QED
  BY <1>1, <1>2, <1>3, <1>4, <1>5, <1>6, <1>7 DEF Next

-----------------------------------------------------------------------------
\* The types of the outbox.

OutboxTyped(ob, n) ==
    /\ n \in 1 .. MaxOut + 1
    /\ ob \in [OutId -> Row \cup {NoRow}]
    /\ \A o \in OutId : ob[o].status = "none" <=> o >= n

LEMMA AgeFacts == Long \in Age /\ 0 .. MaxPass \subseteq Age
                    /\ 0 - PendingBackoff \in Age /\ 0 - RetryBackoff \in Age
BY StoreBounds DEF Long, Age

LEMMA NewRowType ==
    ASSUME NEW r \in Roles, NEW a \in AsgId \cup {NoAsg}, nextOut \in OutId
    PROVE  NewRow(r, a) \in Row
BY StoreBounds, AgeFacts DEF NewRow, Row

\* A row that exists keeps its type when a claim, a report or a reply rewrites
\* its status, owner and age.
LEMMA RowUpdate ==
    ASSUME NEW row \in Row, NEW s \in {"queued", "retry", "sending", "delivered"},
           NEW w \in Drivers \cup {Nobody}, NEW g \in Age
    PROVE  [row EXCEPT !.status = s, !.owner = w, !.age = g] \in Row
BY DEF Row

\* Rewriting one existing row keeps the outbox typed.
LEMMA OutboxUpdate ==
    ASSUME NEW ob, NEW n, OutboxTyped(ob, n), NEW o \in OutId, ob[o].status # "none",
           NEW row \in Row
    PROVE  OutboxTyped([ob EXCEPT ![o] = row], n)
BY DEF OutboxTyped, Row

LEMMA ExistingRow ==
    ASSUME NEW ob, NEW n, OutboxTyped(ob, n), NEW o \in OutId, ob[o].status # "none"
    PROVE  ob[o] \in Row
BY DEF OutboxTyped, NoRow

LEMMA PostType ==
    ASSUME NEW base, OutboxTyped(base, nextOut), NEW rows \in Seq(Row), Post(base, rows)
    PROVE  OutboxTyped(outbox', nextOut')
<1>1. nextOut \in Nat /\ nextOut >= 1 /\ Len(rows) \in Nat /\ MaxOut \in Nat
  BY StoreBounds DEF OutboxTyped
<1>2. nextOut' \in 1 .. MaxOut + 1
  BY <1>1 DEF Post
<1>3. ASSUME NEW o \in OutId
      PROVE  /\ outbox'[o] \in Row \cup {NoRow}
             /\ outbox'[o].status = "none" <=> o >= nextOut'
  <2>1. CASE o \in nextOut .. nextOut + Len(rows) - 1
    <3>1. o - nextOut + 1 \in 1 .. Len(rows)
      BY <1>1, <2>1 DEF OutId
    <3>2. rows[o - nextOut + 1] \in Row
      BY <3>1, rows \in Seq(Row), ElementOfSeq
    <3>3. outbox'[o] = rows[o - nextOut + 1]
      BY <2>1 DEF Post
    <3>4. ~(o >= nextOut')
      BY <1>1, <2>1 DEF Post, OutId
    <3>5. rows[o - nextOut + 1].status # "none"
      BY <3>2 DEF Row
    <3>. QED
      BY <3>2, <3>3, <3>4, <3>5
  <2>2. CASE o \notin nextOut .. nextOut + Len(rows) - 1
    <3>1. outbox'[o] = base[o]
      BY <2>2 DEF Post
    <3>2. o >= nextOut' <=> o >= nextOut
      BY <1>1, <2>2 DEF Post, OutId
    <3>. QED
      BY <3>1, <3>2 DEF OutboxTyped
  <2>. QED
    BY <2>1, <2>2
<1>4. outbox' \in [OutId -> Row \cup {NoRow}]
  <2>1. outbox' = [o \in OutId |-> outbox'[o]]
    BY DEF Post
  <2>. QED
    BY <1>3, <2>1
<1>. QED
  BY <1>2, <1>3, <1>4 DEF OutboxTyped

LEMMA ClosedType ==
    ASSUME TypeInv, NEW a \in AsgId
    PROVE  OutboxTyped(DeliveriesClosed(a), nextOut)
<1>1. OutboxTyped(outbox, nextOut)
  BY DEF TypeInv, TypeOK, OutboxTyped
<1>2. ASSUME NEW o \in OutId
      PROVE  /\ DeliveriesClosed(a)[o] \in Row \cup {NoRow}
             /\ DeliveriesClosed(a)[o].status = "none" <=> outbox[o].status = "none"
  <2>1. CASE o \in Deliveries(a) /\ outbox[o].role = asg[a].role
    <3>1. outbox[o] \in Row /\ outbox[o].status # "none"
      BY <1>1, <2>1, ExistingRow DEF Deliveries
    <3>2. [outbox[o] EXCEPT !.status = "delivered", !.owner = Nobody, !.age = Long] \in Row
      BY <3>1, RowUpdate, AgeFacts, StoreBounds
    <3>. QED
      BY <2>1, <3>1, <3>2 DEF DeliveriesClosed, Row
  <2>2. CASE ~(o \in Deliveries(a) /\ outbox[o].role = asg[a].role)
    BY <1>1, <2>2 DEF DeliveriesClosed, OutboxTyped
  <2>. QED
    BY <2>1, <2>2
<1>. QED
  BY <1>1, <1>2 DEF OutboxTyped, DeliveriesClosed

LEMMA ReclaimedType ==
    ASSUME TypeInv, NEW d \in Drivers
    PROVE  OutboxTyped(Reclaimed(d), nextOut)
<1>1. OutboxTyped(outbox, nextOut)
  BY DEF TypeInv, TypeOK, OutboxTyped
<1>2. ASSUME NEW o \in OutId
      PROVE  /\ Reclaimed(d)[o] \in Row \cup {NoRow}
             /\ Reclaimed(d)[o].status = "none" <=> outbox[o].status = "none"
  <2>1. CASE Expired(o, d)
    <3>1. outbox[o] \in Row /\ outbox[o].status # "none"
      BY <1>1, <2>1, ExistingRow DEF Expired
    <3>2. [outbox[o] EXCEPT !.status = "retry", !.owner = Nobody, !.age = Long] \in Row
      BY <3>1, RowUpdate, AgeFacts, StoreBounds
    <3>. QED
      BY <2>1, <3>1, <3>2 DEF Reclaimed, Row
  <2>2. CASE ~Expired(o, d)
    BY <1>1, <2>2 DEF Reclaimed, OutboxTyped
  <2>. QED
    BY <2>1, <2>2
<1>. QED
  BY <1>1, <1>2 DEF OutboxTyped, Reclaimed

\* Every step keeps the outbox typed.
LEMMA OutboxStep == TypeInv /\ Next => OutboxTyped(outbox', nextOut')
<1> SUFFICES ASSUME TypeInv, Next PROVE OutboxTyped(outbox', nextOut')
  OBVIOUS
<1>0. OutboxTyped(outbox, nextOut) /\ R!TypeOK
  BY DEF TypeInv, TypeOK, OutboxTyped
<1>a. Nobody \in Drivers \cup {Nobody}
  OBVIOUS
<1>b. {"pm", "worker", "reviewer"} \subseteq Roles
  BY DEF Roles, R!Roles
<1>1. ASSUME NEW r \in Roles, NEW k \in R!Kinds, Dispatch(r, k)
      PROVE  OutboxTyped(outbox', nextOut')
  <2>1. Post(outbox, <<NewRow(r, nextAsg)>>) /\ nextAsg \in AsgId
    BY <1>1 DEF Dispatch
  <2>2. nextOut \in OutId
    BY <1>0, <2>1, StoreBounds DEF Post, OutId, OutboxTyped
  <2>3. <<NewRow(r, nextAsg)>> \in Seq(Row)
    BY <2>1, <2>2, NewRowType
  <2>. QED
    BY <1>0, <2>1, <2>3, PostType
<1>2. ASSUME NEW r \in Roles, Context(r) PROVE OutboxTyped(outbox', nextOut')
  <2>1. Post(outbox, <<NewRow(r, NoAsg)>>)
    BY <1>2 DEF Context
  <2>2. nextOut \in OutId
    BY <1>0, <2>1, StoreBounds DEF Post, OutId, OutboxTyped
  <2>3. <<NewRow(r, NoAsg)>> \in Seq(Row)
    BY <2>2, NewRowType
  <2>. QED
    BY <1>0, <2>1, <2>3, PostType
<1>3. ASSUME NEW a \in AsgId, NEW k \in R!ReplyKinds, Reply(a, k)
      PROVE  OutboxTyped(outbox', nextOut')
  <2>0. OutboxTyped(DeliveriesClosed(a), nextOut)
    BY ClosedType
  <2>1. ASSUME NEW rows, Post(DeliveriesClosed(a), rows), Len(rows) \in Nat \ {0}
        PROVE  nextOut \in OutId
    BY <1>0, <2>1, StoreBounds DEF Post, OutId, OutboxTyped
  <2>2. CASE ReplyCompleted(a)
    <3>1. nextAsg \in AsgId
            /\ Post(DeliveriesClosed(a), <<NewRow("pm", NoAsg), NewRow("reviewer", nextAsg)>>)
      BY <2>2 DEF ReplyCompleted
    <3>2. nextOut \in OutId
      BY <2>1, <3>1
    <3>3. <<NewRow("pm", NoAsg), NewRow("reviewer", nextAsg)>> \in Seq(Row)
      BY <1>b, <3>1, <3>2, NewRowType
    <3>. QED
      BY <2>0, <3>1, <3>3, PostType
  <2>3. CASE ReplyRejected(a)
    <3>1. nextAsg \in AsgId
            /\ Post(DeliveriesClosed(a),
                    <<NewRow("pm", NoAsg), NewRow("worker", nextAsg),
                      NewRow("pm", NoAsg), NewRow("worker", NoAsg)>>)
      BY <2>3 DEF ReplyRejected
    <3>2. nextOut \in OutId
      BY <2>1, <3>1
    <3>3. <<NewRow("pm", NoAsg), NewRow("worker", nextAsg),
            NewRow("pm", NoAsg), NewRow("worker", NoAsg)>> \in Seq(Row)
      BY <1>b, <3>1, <3>2, NewRowType
    <3>. QED
      BY <2>0, <3>1, <3>3, PostType
  <2>4. CASE ReplyVerdict(a, k)
    <3>1. Post(DeliveriesClosed(a),
               <<NewRow("pm", NoAsg), NewRow("pm", NoAsg), NewRow("worker", NoAsg)>>)
      BY <2>4 DEF ReplyVerdict
    <3>2. nextOut \in OutId
      BY <2>1, <3>1
    <3>3. <<NewRow("pm", NoAsg), NewRow("pm", NoAsg), NewRow("worker", NoAsg)>> \in Seq(Row)
      BY <1>b, <3>2, NewRowType
    <3>. QED
      BY <2>0, <3>1, <3>3, PostType
  <2>5. CASE ReplyReport(a, k)
    <3>1. Post(DeliveriesClosed(a), <<NewRow("pm", NoAsg)>>)
      BY <2>5 DEF ReplyReport
    <3>2. nextOut \in OutId
      BY <2>1, <3>1
    <3>3. <<NewRow("pm", NoAsg)>> \in Seq(Row)
      BY <1>b, <3>2, NewRowType
    <3>. QED
      BY <2>0, <3>1, <3>3, PostType
  <2>. QED
    BY <1>3, <2>2, <2>3, <2>4, <2>5 DEF Reply
<1>4. ASSUME NEW a \in AsgId, NEW s \in 1 .. MaxSeq, NEW safe \in BOOLEAN, Settle(a, s, safe)
      PROVE  OutboxTyped(outbox', nextOut')
  <2>1. CASE SettleIgnored(a)
    BY <1>0, <2>1 DEF SettleIgnored
  <2>2. CASE SettleResumed(a, safe)
    <3>1. PICK o \in OutId : /\ outbox[o].status # "none" /\ nextOut' = nextOut
                             /\ outbox' = [outbox EXCEPT ![o] =
                                  [outbox[o] EXCEPT !.status = "retry", !.owner = Nobody,
                                                    !.age = Long]]
      BY <2>2 DEF SettleResumed, Deliveries, TypeInv, TypeOK
    <3>2. [outbox[o] EXCEPT !.status = "retry", !.owner = Nobody, !.age = Long] \in Row
      BY <1>0, <3>1, ExistingRow, RowUpdate, AgeFacts
    <3>. QED
      BY <1>0, <3>1, <3>2, OutboxUpdate
  <2>3. CASE SettleBlocked(a, safe)
    <3>1. Post(outbox, <<NewRow("pm", NoAsg)>>)
      BY <2>3 DEF SettleBlocked
    <3>2. nextOut \in OutId
      BY <1>0, <3>1, StoreBounds DEF Post, OutId, OutboxTyped
    <3>3. <<NewRow("pm", NoAsg)>> \in Seq(Row)
      BY <1>b, <3>2, NewRowType
    <3>. QED
      BY <1>0, <3>1, <3>3, PostType
  <2>. QED
    BY <1>4, <2>1, <2>2, <2>3 DEF Settle
<1>5. ASSUME NEW d \in Drivers, Claim(d) PROVE OutboxTyped(outbox', nextOut')
  <2>0. OutboxTyped(Reclaimed(d), nextOut)
    BY ReclaimedType
  <2>. DEFINE ob == Reclaimed(d)
  <2>1. PICK o \in OutId :
          /\ ob[o].status \in {"queued", "retry"} /\ ob[o].attempts < MaxAttempts
          /\ outbox' = [ob EXCEPT ![o].status = "sending", ![o].owner = d,
                                  ![o].age = drv[d].age, ![o].attempts = @ + 1]
    BY <1>5 DEF Claim, NextToClaim, Claimable
  <2>2. ob[o] \in Row
    BY <2>0, <2>1, ExistingRow
  <2>3. drv[d].age \in Age
    BY AgeFacts DEF TypeInv, TypeOK, Pass
  <2>. DEFINE row == [ob[o] EXCEPT !.status = "sending", !.owner = d, !.age = drv[d].age,
                                   !.attempts = ob[o].attempts + 1]
  <2>4. row \in Row
    <3>1. ob[o].attempts + 1 \in 0 .. MaxAttempts
      BY <2>1, <2>2, StoreBounds DEF Row
    <3>. QED
      BY <2>2, <2>3, <3>1 DEF Row
  <2>5. outbox' = [ob EXCEPT ![o] = row]
    <3>1. ob \in [OutId -> Row \cup {NoRow}]
      BY <2>0 DEF OutboxTyped
    <3>. QED
      BY <2>1, <3>1
  <2>6. nextOut' = nextOut
    BY <1>5 DEF Claim
  <2>. HIDE DEF ob, row
  <2>7. OutboxTyped(ob, nextOut) /\ ob[o].status # "none"
    BY <2>0, <2>1 DEF ob
  <2>. QED
    BY <2>4, <2>5, <2>6, <2>7, OutboxUpdate
<1>6. ASSUME NEW d \in Drivers, ReportDelivered(d) \/ ReportDeferred(d)
      PROVE  OutboxTyped(outbox', nextOut')
  <2>. DEFINE o == drv[d].row
  <2>1. o \in OutId /\ outbox[o].status # "none" /\ nextOut' = nextOut
    BY <1>6 DEF ReportDelivered, ReportDeferred, Reporting, Authorized, TypeInv, PassRows
  <2>2. outbox[o] \in Row
    BY <1>0, <2>1, ExistingRow
  <2>3. CASE ReportDelivered(d)
    <3>1. outbox' = [outbox EXCEPT ![o] = [outbox[o] EXCEPT !.status = "delivered",
                                             !.owner = Nobody, !.age = Long]]
      BY <2>1, <2>3 DEF ReportDelivered, TypeInv, TypeOK
    <3>2. [outbox[o] EXCEPT !.status = "delivered", !.owner = Nobody, !.age = Long] \in Row
      BY <2>2, RowUpdate, AgeFacts
    <3>. QED
      BY <1>0, <2>1, <3>1, <3>2, OutboxUpdate
  <2>4. CASE ReportDeferred(d)
    <3>1. [outbox[o] EXCEPT !.status = "retry", !.owner = Nobody,
                            !.age = 0 - RetryBackoff] \in Row
      BY <2>2, RowUpdate, AgeFacts
    <3>2. [outbox[o] EXCEPT !.status = "queued", !.owner = Nobody,
                            !.age = 0 - PendingBackoff, !.attempts = 0] \in Row
      <4>1. 0 \in 0 .. MaxAttempts /\ 0 - PendingBackoff \in Age
        BY AgeFacts, StoreBounds
      <4>2. \A g \in Age : [outbox[o] EXCEPT !.status = "queued", !.owner = Nobody,
                                            !.age = g, !.attempts = 0] \in Row
        BY <2>2, <4>1 DEF Row
      <4>. QED
        BY <4>1, <4>2
    <3>3. PICK row \in Row : outbox' = [outbox EXCEPT ![o] = row]
      BY <2>4, <3>1, <3>2 DEF ReportDeferred, Parked
    <3>. QED
      BY <1>0, <2>1, <3>3, OutboxUpdate
  <2>. QED
    BY <1>6, <2>3, <2>4
<1>7. ASSUME NEW d \in Drivers, ClaimNothing(d) PROVE OutboxTyped(outbox', nextOut')
  BY <1>7, ReclaimedType DEF ClaimNothing
<1>8. CASE Tick
  <2>1. ASSUME NEW o \in OutId
        PROVE  /\ outbox'[o] \in Row \cup {NoRow}
               /\ outbox'[o].status = "none" <=> outbox[o].status = "none"
    <3>1. CASE outbox[o].age < Long
      <4>1. outbox[o] \in Row
        BY <1>0, <3>1, StoreBounds DEF OutboxTyped, NoRow, Long
      <4>2. outbox[o].age + 1 \in Age
        BY <3>1, <4>1, StoreBounds DEF Row, Age, Long
      <4>3. outbox'[o] = [outbox[o] EXCEPT !.age = outbox[o].age + 1]
        BY <1>8, <3>1 DEF Tick
      <4>. QED
        BY <4>1, <4>2, <4>3 DEF Row
    <3>2. CASE ~(outbox[o].age < Long)
      BY <1>0, <1>8, <3>2 DEF Tick, OutboxTyped
    <3>. QED
      BY <3>1, <3>2
  <2>2. outbox' = [o \in OutId |-> outbox'[o]] /\ nextOut' = nextOut
    BY <1>8 DEF Tick
  <2>. QED
    BY <1>0, <2>1, <2>2 DEF OutboxTyped
<1>9. CASE UNCHANGED <<outbox, nextOut>>
  BY <1>0, <1>9
<1>10. ASSUME NEW d \in Drivers, PassStep(d) \/ Crash(d),
              ~Claim(d), ~ClaimNothing(d), ~ReportDelivered(d), ~ReportDeferred(d)
       PROVE  UNCHANGED <<outbox, nextOut>>
  BY <1>10 DEF PassStep, Crash, BeginPass, EndPass, Execute, ReportRefused
<1>11. ASSUME NEW r \in Roles, ReplaceRole(r) PROVE UNCHANGED <<outbox, nextOut>>
  BY <1>11 DEF ReplaceRole
<1>. QED
  BY <1>1, <1>2, <1>3, <1>4, <1>5, <1>6, <1>7, <1>8, <1>9, <1>10, <1>11 DEF Next, PassStep

-----------------------------------------------------------------------------
\* The types of the passes and of the rest.

LEMMA DrvStep == TypeInv /\ Next => drv' \in [Drivers -> Pass] /\ PassRows'
<1> SUFFICES ASSUME TypeInv, Next PROVE drv' \in [Drivers -> Pass] /\ PassRows'
  OBVIOUS
<1>0. drv \in [Drivers -> Pass] /\ PassRows /\ gen \in [Roles -> 0 .. MaxGen]
  BY DEF TypeInv, TypeOK
<1>a. 0 \in 0 .. MaxPass /\ 0 \in 0 .. MaxGen
  BY StoreBounds
<1>b. Idle \in Pass /\ Idle.pc = "idle"
  BY <1>a DEF Idle, Pass
\* A step of one driver writes only that driver's pass.
<1>c. ASSUME NEW d \in Drivers, NEW p \in Pass, drv' = [drv EXCEPT ![d] = p],
             p.pc \in {"executing", "reporting"} => p.row \in OutId,
             p.pc = "reporting" => p.outcome # "none"
      PROVE  drv' \in [Drivers -> Pass] /\ PassRows'
  BY <1>0, <1>c DEF PassRows
<1>d. ASSUME NEW d \in Drivers
      PROVE  /\ drv[d].age \in 0 .. MaxPass
             /\ [Idle EXCEPT !.pc = "claiming"] \in Pass
             /\ [Idle EXCEPT !.pc = "claiming", !.age = drv[d].age] \in Pass
  BY <1>0, <1>a DEF Idle, Pass
<1>1. ASSUME NEW d \in Drivers,
             ClaimNothing(d) \/ EndPass(d) \/ ReportRefused(d) \/ Crash(d)
      PROVE  drv' \in [Drivers -> Pass] /\ PassRows'
  BY <1>1, <1>b, <1>c DEF ClaimNothing, EndPass, ReportRefused, Crash
<1>2. ASSUME NEW d \in Drivers, BeginPass(d)
      PROVE  drv' \in [Drivers -> Pass] /\ PassRows'
  <2>1. [Idle EXCEPT !.pc = "claiming"].pc = "claiming"
    BY DEF Idle
  <2>. QED
    BY <1>2, <1>c, <1>d, <2>1 DEF BeginPass
<1>3. ASSUME NEW d \in Drivers, ReportDelivered(d) \/ ReportDeferred(d)
      PROVE  drv' \in [Drivers -> Pass] /\ PassRows'
  <2>1. [Idle EXCEPT !.pc = "claiming", !.age = drv[d].age].pc = "claiming"
    BY DEF Idle
  <2>. QED
    BY <1>3, <1>c, <1>d, <2>1 DEF ReportDelivered, ReportDeferred, NextClaim
<1>4. ASSUME NEW d \in Drivers, Claim(d)
      PROVE  drv' \in [Drivers -> Pass] /\ PassRows'
  <2>0. OutboxTyped(outbox, nextOut)
    BY DEF TypeInv, TypeOK, OutboxTyped
  <2>1. PICK o \in OutId :
          /\ Reclaimed(d)[o].status \in {"queued", "retry"}
          /\ drv' = [drv EXCEPT ![d] =
                       IF gen[outbox[o].role] = 0 THEN Idle
                       ELSE [@ EXCEPT !.pc = "executing", !.row = o,
                                      !.gen = gen[outbox[o].role]]]
    BY <1>4 DEF Claim, NextToClaim, Claimable
  <2>2. outbox[o] \in Row
    <3>1. outbox[o].status # "none"
      BY <2>1 DEF Reclaimed, Expired
    <3>. QED
      BY <2>0, <3>1, ExistingRow
  <2>3. gen[outbox[o].role] \in 0 .. MaxGen
    BY <1>0, <2>2 DEF Row
  <2>. DEFINE p == [drv[d] EXCEPT !.pc = "executing", !.row = o,
                                  !.gen = gen[outbox[o].role]]
  <2>4. p \in Pass /\ p.pc = "executing" /\ p.row = o
    BY <1>0, <2>3 DEF Pass
  <2>5. drv' = [drv EXCEPT ![d] = Idle] \/ drv' = [drv EXCEPT ![d] = p]
    BY <1>0, <2>1
  <2>. HIDE DEF p
  <2>. QED
    BY <1>b, <1>c, <2>4, <2>5
<1>5. ASSUME NEW d \in Drivers, NEW out \in {"ok", "pending", "retry"}, Execute(d, out)
      PROVE  drv' \in [Drivers -> Pass] /\ PassRows'
  <2>. DEFINE p == [drv[d] EXCEPT !.pc = "reporting", !.outcome = out]
  <2>1. p \in Pass /\ p.pc = "reporting" /\ p.row = drv[d].row /\ p.outcome = out
    BY <1>0 DEF Pass
  <2>2. drv' = [drv EXCEPT ![d] = p]
    BY <1>0, <1>5 DEF Execute
  <2>3. drv[d].row \in OutId
    BY <1>0, <1>5 DEF Execute, PassRows
  <2>. HIDE DEF p
  <2>. QED
    BY <1>c, <2>1, <2>2, <2>3
<1>6. CASE Tick
  <2>1. ASSUME NEW d \in Drivers
        PROVE  /\ drv'[d] \in Pass /\ drv'[d].pc = drv[d].pc
               /\ drv'[d].row = drv[d].row /\ drv'[d].outcome = drv[d].outcome
    <3>1. CASE drv[d].pc = "idle"
      BY <1>0, <1>6, <3>1 DEF Tick
    <3>2. CASE drv[d].pc # "idle"
      <4>1. drv[d].age + 1 \in 0 .. MaxPass
        <5>1. drv[d].age < MaxPass
          BY <1>6, <3>2 DEF Tick
        <5>2. drv[d].age \in 0 .. MaxPass
          BY <1>d
        <5>. QED
          BY <5>1, <5>2, StoreBounds
      <4>2. drv'[d] = [drv[d] EXCEPT !.age = drv[d].age + 1]
        BY <1>6, <3>2 DEF Tick
      <4>. QED
        BY <1>0, <4>1, <4>2 DEF Pass
    <3>. QED
      BY <3>1, <3>2
  <2>2. drv' = [d \in Drivers |-> drv'[d]]
    BY <1>6 DEF Tick
  <2>. QED
    BY <1>0, <2>1, <2>2 DEF PassRows
<1>7. CASE UNCHANGED drv
  BY <1>0, <1>7 DEF PassRows
<1>8. ASSUME NEW a \in AsgId, NEW s \in 1 .. MaxSeq, NEW safe \in BOOLEAN, Settle(a, s, safe)
      PROVE  UNCHANGED drv
  BY <1>8 DEF Settle
<1>9. ASSUME NEW a \in AsgId, NEW k \in R!ReplyKinds, Reply(a, k) PROVE UNCHANGED drv
  BY <1>9 DEF Reply
<1>10. ASSUME NEW r \in Roles, NEW k \in R!Kinds,
              Dispatch(r, k) \/ Context(r) \/ ReplaceRole(r)
       PROVE  UNCHANGED drv
  BY <1>10 DEF Dispatch, Context, ReplaceRole
<1>11. R!Kinds # {}
  BY DEF R!Kinds
<1>. QED
  BY <1>1, <1>2, <1>3, <1>4, <1>5, <1>6, <1>7, <1>8, <1>9, <1>10, <1>11 DEF Next, PassStep

LEMMA RestStep ==
    TypeInv /\ Next => /\ gen' \in [Roles -> 0 .. MaxGen]
                       /\ settledSeqs' \subseteq R!Owners \X (1 .. MaxSeq)
                       /\ prompted' \subseteq AsgId
                       /\ crashes' \in 0 .. MaxCrashes
<1> SUFFICES ASSUME TypeInv, Next
             PROVE  /\ gen' \in [Roles -> 0 .. MaxGen]
                    /\ settledSeqs' \subseteq R!Owners \X (1 .. MaxSeq)
                    /\ prompted' \subseteq AsgId
                    /\ crashes' \in 0 .. MaxCrashes
  OBVIOUS
<1>0. /\ gen \in [Roles -> 0 .. MaxGen] /\ R!TypeOK
      /\ settledSeqs \subseteq R!Owners \X (1 .. MaxSeq)
      /\ prompted \subseteq AsgId /\ crashes \in 0 .. MaxCrashes
  BY DEF TypeInv, TypeOK
<1>1. gen' \in [Roles -> 0 .. MaxGen]
  <2>1. ASSUME NEW targets, GiveGeneration(targets) PROVE gen' \in [Roles -> 0 .. MaxGen]
    BY <1>0, <2>1, StoreBounds DEF GiveGeneration
  <2>2. ASSUME NEW r \in Roles, ReplaceRole(r) PROVE gen' \in [Roles -> 0 .. MaxGen]
    <3>1. gen[r] + 1 \in 0 .. MaxGen
      BY <1>0, <2>2, StoreBounds DEF ReplaceRole
    <3>. QED
      BY <1>0, <2>2, <3>1 DEF ReplaceRole
  <2>3. ASSUME NEW a \in AsgId, NEW k \in R!ReplyKinds, Reply(a, k)
        PROVE  gen' \in [Roles -> 0 .. MaxGen]
    BY <2>1, <2>3 DEF Reply, ReplyCompleted, ReplyRejected, ReplyVerdict, ReplyReport
  <2>4. ASSUME NEW d \in Drivers, PassStep(d) \/ Crash(d) PROVE UNCHANGED gen
    BY <2>4 DEF PassStep, Crash, BeginPass, ClaimNothing, Claim, EndPass, Execute,
                ReportDelivered, ReportDeferred, ReportRefused
  <2>. QED
    BY <1>0, <2>1, <2>2, <2>3, <2>4 DEF Next, Dispatch, Context, Settle, Tick
<1>2. settledSeqs' \subseteq R!Owners \X (1 .. MaxSeq)
  <2>1. ASSUME NEW a \in AsgId, NEW s \in 1 .. MaxSeq, NEW safe \in BOOLEAN,
               Settle(a, s, safe)
        PROVE  settledSeqs' \subseteq R!Owners \X (1 .. MaxSeq)
    <3>1. asg[a].role \in R!Owners
      BY <1>0, <2>1, ReducerRow DEF Settle, R!Assignment
    <3>. QED
      BY <1>0, <2>1, <3>1 DEF Settle
  <2>2. ASSUME NEW d \in Drivers, PassStep(d) \/ Crash(d) PROVE UNCHANGED settledSeqs
    BY <2>2 DEF PassStep, Crash, BeginPass, ClaimNothing, Claim, EndPass, Execute,
                ReportDelivered, ReportDeferred, ReportRefused
  <2>. QED
    BY <1>0, <2>1, <2>2 DEF Next, Dispatch, Context, Reply, ReplaceRole, Tick
<1>3. prompted' \subseteq AsgId /\ crashes' \in 0 .. MaxCrashes
  <2>1. ASSUME NEW d \in Drivers, NEW out \in {"ok", "pending", "retry"}, Execute(d, out)
        PROVE  prompted' \subseteq AsgId /\ crashes' = crashes
    <3>1. drv[d].row \in OutId
      BY <2>1 DEF Execute, TypeInv, PassRows
    <3>2. outbox[drv[d].row].asg \in AsgId \cup {NoAsg}
      BY <3>1 DEF TypeInv, TypeOK, Row, NoRow
    <3>. QED
      BY <1>0, <2>1, <3>2 DEF Execute
  <2>2. ASSUME NEW d \in Drivers, Crash(d)
        PROVE  prompted' = prompted /\ crashes' \in 0 .. MaxCrashes
    BY <1>0, <2>2, StoreBounds DEF Crash
  <2>3. ASSUME NEW d \in Drivers, PassStep(d),
               \A out \in {"ok", "pending", "retry"} : ~Execute(d, out)
        PROVE  prompted' = prompted /\ crashes' = crashes
    BY <2>3 DEF PassStep, BeginPass, ClaimNothing, Claim, EndPass,
                ReportDelivered, ReportDeferred, ReportRefused
  <2>. QED
    BY <1>0, <2>1, <2>2, <2>3 DEF Next, Dispatch, Context, Reply, Settle, ReplaceRole, Tick
<1>. QED
  BY <1>1, <1>2, <1>3

LEMMA TypeInvInit == Init => TypeInv
<1> SUFFICES ASSUME Init PROVE TypeInv
  OBVIOUS
<1>1. R!TypeOK
  BY DEF Init, R!Init, R!TypeOK, R!AsgId, R!Absent
<1>2. Idle \in Pass /\ Idle.pc = "idle"
  BY StoreBounds DEF Idle, Pass
<1>3. OutboxTyped(outbox, nextOut)
  BY StoreBounds DEF Init, OutboxTyped, NoRow, OutId
<1>. QED
  BY <1>1, <1>2, <1>3, StoreBounds
  DEF Init, TypeInv, TypeOK, PassRows, OutboxTyped

LEMMA TypeInvStep == TypeInv /\ [Next]_vars => TypeInv'
<1> SUFFICES ASSUME TypeInv, [Next]_vars PROVE TypeInv'
  OBVIOUS
<1>1. CASE Next
  <2>1. R!TypeOK'
    <3>1. R!TypeOK /\ (R!Next \/ UNCHANGED R!rvars)
      BY <1>1, StepRefines DEF TypeInv, TypeOK
    <3>2. CASE UNCHANGED R!rvars
      BY <3>1, <3>2 DEF R!TypeOK, R!rvars
    <3>. QED
      BY <3>1, <3>2, ReducerTypeStep
  <2>2. OutboxTyped(outbox', nextOut')
    BY <1>1, OutboxStep
  <2>. QED
    BY <1>1, <2>1, <2>2, DrvStep, RestStep DEF TypeInv, TypeOK, OutboxTyped
<1>2. CASE UNCHANGED vars
  <2>1. R!TypeOK'
    BY <1>2 DEF vars, TypeInv, TypeOK, R!TypeOK
  <2>. QED
    BY <1>2, <2>1 DEF vars, TypeInv, TypeOK, PassRows
<1>. QED
  BY <1>1, <1>2

\* Type correctness of the store, for every value of its constants.
THEOREM TypeCorrect == Spec => []TypeOK
<1>1. TypeInv => TypeOK
  BY DEF TypeInv
<1>. QED
  BY <1>1, TypeInvInit, TypeInvStep, PTL DEF Spec

\* The store implements the reducer: what its tables say of the assignments is
\* at every moment what the reducer alone would say, whatever is claimed,
\* reclaimed, delivered twice or lost meanwhile.
THEOREM Refinement == Spec => ReducerSpec
<1>1. Init => R!Init
  BY DEF Init
<1>2. TypeInv /\ [Next]_vars => [R!Next]_R!rvars
  BY StepRefines DEF vars, R!rvars
<1>. QED
  BY <1>1, <1>2, TypeInvInit, TypeInvStep, PTL DEF Spec, ReducerSpec, R!Spec

-----------------------------------------------------------------------------
\* One delivery of a role at a time.

\* What DeliveryExclusive needs to be inductive: a row's target is the owner of
\* the assignment it delivers, so that the row and the assignment compete for
\* the same role.
DeliveryRows ==
    \A o \in OutId : outbox[o].asg # NoAsg =>
        asg[outbox[o].asg].state # "none" /\ outbox[o].role = asg[outbox[o].asg].role

ExclusiveInv == TypeInv /\ DeliveryRows /\ DeliveryExclusive

\* Only a delivery activates an assignment, only a command queues one, and an
\* assignment keeps its owner.
Kept ==
    \A b \in AsgId :
        /\ asg[b].state # "none" => asg'[b].state # "none" /\ asg'[b].role = asg[b].role
        /\ asg'[b].state = "queued" => asg[b].state \in {"queued", "none"}

NoneActivated ==
    \A b \in AsgId : asg'[b].state = "active" => asg[b].state = "active"

LEMMA DispatchKeeps ==
    ASSUME R!TypeOK, NEW r \in R!Owners, NEW k \in R!Kinds, R!Dispatch(r, k)
    PROVE  Kept /\ NoneActivated
<1>. PICK n \in AsgId : n = nextAsg
  BY DEF R!Dispatch, AsgId
<1>1. asg[n].state = "none" /\ asg' = [asg EXCEPT ![n] = R!NewAssignment(r, k, R!NoAsg, 0)]
  BY DEF R!TypeOK, R!Dispatch, AsgId, R!AsgId
<1>2. R!NewAssignment(r, k, R!NoAsg, 0).state = "queued"
  BY DEF R!NewAssignment
<1>. QED
  BY <1>1, <1>2 DEF Kept, NoneActivated, R!TypeOK, AsgId

LEMMA SettlingKeeps ==
    ASSUME R!TypeOK, NEW a \in AsgId, asg[a].state # "none", NEW k \in R!ReplyKinds,
           \/ asg' = [asg EXCEPT ![a] = R!Settled(a, k)]
           \/ /\ nextAsg \in AsgId
              /\ \E f \in R!FollowUps(a, k) :
                    asg' = [asg EXCEPT ![a] = R!Settled(a, k), ![nextAsg] = f]
    PROVE  Kept /\ NoneActivated
<1>1. /\ R!Settled(a, k).state \notin {"none", "queued", "active"}
      /\ R!Settled(a, k).role = asg[a].role
  <2>1. asg[a] \in R!Assignment
    BY ReducerRow
  <2>2. R!SettledState(k) \notin {"none", "queued", "active"}
    BY DEF R!SettledState, R!ReplyKinds
  <2>. QED
    BY <2>1, <2>2 DEF R!Settled, R!Assignment
<1>2. CASE asg' = [asg EXCEPT ![a] = R!Settled(a, k)]
  BY <1>1, <1>2 DEF Kept, NoneActivated, R!TypeOK, AsgId
<1>3. ASSUME NEW f \in R!FollowUps(a, k), nextAsg \in AsgId,
             asg' = [asg EXCEPT ![a] = R!Settled(a, k), ![nextAsg] = f]
      PROVE  Kept /\ NoneActivated
  <2>1. f.state = "queued"
    BY ReducerFollowUp
  <2>. PICK n \in AsgId : n = nextAsg
    BY <1>3
  <2>2. asg[n].state = "none" /\ n # a
    BY DEF R!TypeOK, AsgId, R!AsgId
  <2>. QED
    BY <1>1, <1>3, <2>1, <2>2 DEF Kept, NoneActivated, R!TypeOK, AsgId
<1>. QED
  BY <1>2, <1>3

\* A step that activates nothing and puts no further delivery of a queued
\* assignment under way keeps deliveries exclusive.
LEMMA QuietStep ==
    ASSUME ExclusiveInv, Kept, NoneActivated, asg' \in [AsgId -> R!Assignment \cup {R!Absent}],
           outbox' \in [OutId -> Row \cup {NoRow}],
           \A o \in OutId :
              outbox'[o].status = "sending" /\ outbox'[o].asg # NoAsg
                => outbox[o].status = "sending" /\ outbox'[o].asg = outbox[o].asg
                     /\ outbox'[o].role = outbox[o].role
    PROVE  DeliveryExclusive'
<1>1. ASSUME NEW o \in OutId, InFlight(o)'
      PROVE  /\ InFlight(o) /\ outbox'[o].asg = outbox[o].asg /\ outbox'[o].asg \in AsgId
             /\ outbox'[o].role = outbox[o].role
  <2>1. /\ outbox[o].status = "sending" /\ outbox'[o].asg = outbox[o].asg
        /\ outbox'[o].role = outbox[o].role /\ outbox[o].asg # NoAsg
    BY <1>1 DEF InFlight
  <2>2. outbox'[o].asg \in AsgId
    BY <2>1 DEF ExclusiveInv, TypeInv, TypeOK, Row, NoRow
  <2>3. asg[outbox[o].asg].state = "queued"
    BY <1>1, <2>1, <2>2 DEF InFlight, Kept, ExclusiveInv, DeliveryRows
  <2>. QED
    BY <2>1, <2>2, <2>3 DEF InFlight
<1>2. ASSUME NEW a \in AsgId, asg[a].state # "none", R!ActiveElsewhere(a)'
      PROVE  R!ActiveElsewhere(a)
  BY <1>2 DEF R!ActiveElsewhere, Kept, NoneActivated, AsgId
<1>3. SUFFICES ASSUME NEW o \in OutId, InFlight(o)'
               PROVE  /\ \A p \in OutId : InFlight(p)' /\ outbox'[p].role = outbox'[o].role
                                            => p = o
                      /\ ~R!ActiveElsewhere(outbox[o].asg)'
  BY DEF DeliveryExclusive
<1>4. ASSUME NEW p \in OutId, InFlight(p)', outbox'[p].role = outbox'[o].role PROVE p = o
  <2>1. InFlight(o) /\ InFlight(p) /\ outbox[p].role = outbox[o].role
    BY <1>1, <1>3, <1>4
  <2>. QED
    BY <2>1 DEF ExclusiveInv, DeliveryExclusive
<1>5. ~R!ActiveElsewhere(outbox[o].asg)'
  <2>. PICK a \in AsgId : a = outbox'[o].asg
    BY <1>1, <1>3
  <2>1. InFlight(o) /\ a = outbox[o].asg /\ a = outbox'[o].asg
    BY <1>1, <1>3
  <2>2. asg[a].state # "none" /\ ~R!ActiveElsewhere(a)
    BY <2>1 DEF ExclusiveInv, DeliveryExclusive, InFlight
  <2>3. ~R!ActiveElsewhere(a)'
    BY <1>2, <2>2
  <2>. QED
    BY <2>1, <2>3 DEF R!ActiveElsewhere
<1>. QED
  BY <1>4, <1>5

\* What a step may do to a row: create it, or rewrite it without changing whom
\* it is for and what it delivers.
RowFits(row) ==
    /\ row.status = "queued"
    /\ row.asg # NoAsg => asg'[row.asg].state # "none" /\ row.role = asg'[row.asg].role

RowNew(o) == RowFits(outbox'[o])

RowKept(o) == outbox'[o].asg = outbox[o].asg /\ outbox'[o].role = outbox[o].role

RowQuiet(o) ==
    RowNew(o) \/ (RowKept(o) /\ (outbox'[o].status = "sending" => outbox[o].status = "sending"))

LEMMA RowsMatch ==
    ASSUME ExclusiveInv, Kept, \A o \in OutId : RowNew(o) \/ RowKept(o)
    PROVE  DeliveryRows'
<1> SUFFICES ASSUME NEW o \in OutId, outbox'[o].asg # NoAsg
             PROVE  /\ asg'[outbox'[o].asg].state # "none"
                    /\ outbox'[o].role = asg'[outbox'[o].asg].role
  BY DEF DeliveryRows
<1>1. CASE RowNew(o)
  BY <1>1 DEF RowNew, RowFits
<1>2. CASE RowKept(o)
  <2>1. outbox[o].asg \in AsgId
    BY <1>2 DEF RowKept, ExclusiveInv, TypeInv, TypeOK, Row, NoRow
  <2>2. asg[outbox[o].asg].state # "none" /\ outbox[o].role = asg[outbox[o].asg].role
    BY <2>1 DEF ExclusiveInv, DeliveryRows, NoAsg, R!NoAsg, AsgId, R!AsgId
  <2>. QED
    BY <1>2, <2>1, <2>2 DEF RowKept, Kept
<1>. QED
  BY <1>1, <1>2

LEMMA QuietRows ==
    ASSUME ExclusiveInv, TypeInv', Kept, NoneActivated, \A o \in OutId : RowQuiet(o)
    PROVE  DeliveryRows' /\ DeliveryExclusive'
<1>1. DeliveryRows'
  BY RowsMatch DEF RowQuiet
<1>2. /\ asg' \in [AsgId -> R!Assignment \cup {R!Absent}]
      /\ outbox' \in [OutId -> Row \cup {NoRow}]
  BY DEF TypeInv, TypeOK, R!TypeOK, AsgId
<1>3. \A o \in OutId :
         outbox'[o].status = "sending" /\ outbox'[o].asg # NoAsg
           => outbox[o].status = "sending" /\ outbox'[o].asg = outbox[o].asg
                /\ outbox'[o].role = outbox[o].role
  BY DEF RowQuiet, RowNew, RowFits, RowKept
<1>. QED
  BY <1>1, <1>2, <1>3, QuietStep

\* Rows added to an outbox that differs from the present one by closed
\* deliveries only.
LEMMA PostQuiet ==
    ASSUME TypeInv, NEW base,
           \A o \in OutId : /\ base[o].asg = outbox[o].asg /\ base[o].role = outbox[o].role
                            /\ base[o].status = "sending" => outbox[o].status = "sending",
           NEW rows \in Seq(Row), Post(base, rows),
           \A i \in 1 .. Len(rows) : RowFits(rows[i])
    PROVE  \A o \in OutId : RowQuiet(o)
<1> SUFFICES ASSUME NEW o \in OutId PROVE RowQuiet(o)
  OBVIOUS
<1>0. nextOut \in Nat /\ Len(rows) \in Nat /\ o \in Nat
  BY StoreBounds DEF TypeInv, TypeOK, OutId
<1>1. CASE o \in nextOut .. nextOut + Len(rows) - 1
  <2>1. PICK i \in 1 .. Len(rows) : i = o - nextOut + 1
    BY <1>0, <1>1
  <2>2. outbox'[o] = rows[i]
    BY <1>1, <2>1 DEF Post
  <2>. QED
    BY <2>2 DEF RowQuiet, RowNew
<1>2. CASE o \notin nextOut .. nextOut + Len(rows) - 1
  <2>1. outbox'[o] = base[o]
    BY <1>2 DEF Post
  <2>. QED
    BY <2>1 DEF RowQuiet, RowKept
<1>. QED
  BY <1>1, <1>2

LEMMA NewRowFields ==
    ASSUME NEW r, NEW a
    PROVE  NewRow(r, a).status = "queued" /\ NewRow(r, a).asg = a /\ NewRow(r, a).role = r
BY DEF NewRow

LEMMA ClosedQuiet ==
    ASSUME TypeInv, NEW a \in AsgId, NEW o \in OutId
    PROVE  /\ DeliveriesClosed(a)[o].asg = outbox[o].asg
           /\ DeliveriesClosed(a)[o].role = outbox[o].role
           /\ DeliveriesClosed(a)[o].status = "sending" => outbox[o].status = "sending"
<1>1. outbox[o] \in Row \cup {NoRow}
  BY DEF TypeInv, TypeOK
<1>2. CASE o \in Deliveries(a) /\ outbox[o].role = asg[a].role
  <2>1. outbox[o] \in Row
    BY <1>1, <1>2 DEF Deliveries, NoRow
  <2>2. DeliveriesClosed(a)[o] = [outbox[o] EXCEPT !.status = "delivered",
                                                   !.owner = Nobody, !.age = Long]
    BY <1>2 DEF DeliveriesClosed
  <2>. QED
    BY <2>1, <2>2 DEF Row
<1>3. CASE ~(o \in Deliveries(a) /\ outbox[o].role = asg[a].role)
  BY <1>3 DEF DeliveriesClosed
<1>. QED
  BY <1>2, <1>3

LEMMA ReclaimedQuiet ==
    ASSUME TypeInv, NEW d \in Drivers, NEW o \in OutId
    PROVE  /\ Reclaimed(d)[o].asg = outbox[o].asg /\ Reclaimed(d)[o].role = outbox[o].role
           /\ Reclaimed(d)[o].status = "sending" => outbox[o].status = "sending"
<1>1. outbox[o] \in Row \cup {NoRow}
  BY DEF TypeInv, TypeOK
<1>2. CASE Expired(o, d)
  <2>1. outbox[o] \in Row
    BY <1>1, <1>2 DEF Expired, NoRow
  <2>2. Reclaimed(d)[o] = [outbox[o] EXCEPT !.status = "retry", !.owner = Nobody,
                                            !.age = Long]
    BY <1>2 DEF Reclaimed
  <2>. QED
    BY <2>1, <2>2 DEF Row
<1>3. CASE ~Expired(o, d)
  BY <1>3 DEF Reclaimed
<1>. QED
  BY <1>2, <1>3

LEMMA SameAssignments == asg' = asg => Kept /\ NoneActivated
BY DEF Kept, NoneActivated

\* A claim takes a row only while its role has no other delivery under way and
\* no active assignment.
LEMMA ClaimExclusive ==
    ASSUME ExclusiveInv, TypeInv', NEW d \in Drivers, Claim(d)
    PROVE  DeliveryRows' /\ DeliveryExclusive'
<1>. DEFINE ob == Reclaimed(d)
<1>0. /\ asg' = asg
      /\ \A p \in OutId : outbox[p] \in Row \cup {NoRow} /\ ob[p] \in Row \cup {NoRow}
  BY ReclaimedType DEF Claim, ExclusiveInv, TypeInv, TypeOK, OutboxTyped
<1>1. PICK o \in OutId :
        /\ ob[o].status \in {"queued", "retry"} /\ ~WaitsForCapacity(ob, o)
        /\ outbox' = [ob EXCEPT ![o].status = "sending", ![o].owner = d,
                                ![o].age = drv[d].age, ![o].attempts = @ + 1]
  BY DEF Claim, NextToClaim, Claimable
<1>2. ob[o] \in Row /\ ob \in [OutId -> Row \cup {NoRow}]
  <2>1. OutboxTyped(ob, nextOut)
    BY ReclaimedType DEF ExclusiveInv
  <2>. QED
    BY <1>1, <2>1, ExistingRow DEF OutboxTyped
<1>3. \A p \in OutId : /\ outbox'[p].asg = ob[p].asg /\ outbox'[p].role = ob[p].role
                       /\ p # o => outbox'[p] = ob[p]
  BY <1>1, <1>2 DEF Row
<1>4. \A p \in OutId : /\ ob[p].asg = outbox[p].asg /\ ob[p].role = outbox[p].role
                       /\ ob[p].status = "sending" => outbox[p].status = "sending"
  BY ReclaimedQuiet DEF ExclusiveInv
<1>. HIDE DEF ob
<1>5. DeliveryRows'
  <2>1. Kept
    BY <1>0, SameAssignments
  <2>2. \A p \in OutId : RowKept(p)
    BY <1>3, <1>4 DEF RowKept
  <2>. QED
    BY <2>1, <2>2, RowsMatch
<1>6. ASSUME NEW p \in OutId, p # o, InFlight(p)'
      PROVE  InFlight(p) /\ ob[p].status = "sending"
  BY <1>0, <1>3, <1>4, <1>6 DEF InFlight
<1>7. ASSUME InFlight(o)'
      PROVE  /\ ~R!ActiveElsewhere(ob[o].asg)
             /\ \A p \in OutId \ {o} : ~(InFlight(p)' /\ outbox'[p].role = outbox'[o].role)
  <2>1. ob[o].asg # NoAsg /\ asg[ob[o].asg].state = "queued"
    BY <1>0, <1>3, <1>7 DEF InFlight
  <2>2. /\ ~R!ActiveElsewhere(ob[o].asg)
        /\ \A p \in OutId \ {o} :
              ~(/\ ob[p].status = "sending" /\ ob[p].role = ob[o].role
                /\ ob[p].asg # NoAsg /\ asg[ob[p].asg].state = "queued")
    BY <1>1, <2>1 DEF WaitsForCapacity
  <2>3. ASSUME NEW p \in OutId \ {o}, InFlight(p)', outbox'[p].role = outbox'[o].role
        PROVE  FALSE
    BY <1>3, <1>4, <1>6, <2>2, <2>3 DEF InFlight
  <2>. QED
    BY <2>2, <2>3
<1>8. ASSUME NEW p \in OutId, InFlight(p)' PROVE ~R!ActiveElsewhere(outbox[p].asg)'
  <2>1. ~R!ActiveElsewhere(outbox[p].asg)
    BY <1>4, <1>6, <1>7, <1>8 DEF ExclusiveInv, DeliveryExclusive
  <2>2. outbox'[p].asg = outbox[p].asg
    BY <1>3, <1>4
  <2>. QED
    BY <1>0, <2>1, <2>2 DEF R!ActiveElsewhere
<1>9. ASSUME NEW p \in OutId, NEW q \in OutId, InFlight(p)', InFlight(q)',
             outbox'[q].role = outbox'[p].role
      PROVE  q = p
  <2>1. CASE p = o \/ q = o
    BY <1>7, <1>9, <2>1
  <2>2. CASE p # o /\ q # o
    <3>1. InFlight(p) /\ InFlight(q) /\ outbox[q].role = outbox[p].role
      BY <1>3, <1>4, <1>6, <1>9, <2>2
    <3>. QED
      BY <3>1 DEF ExclusiveInv, DeliveryExclusive
  <2>. QED
    BY <2>1, <2>2
<1>. QED
  BY <1>5, <1>8, <1>9 DEF DeliveryExclusive

\* The delivery that activates an assignment was the only one of its role, so
\* none is left that could find the role taken.
LEMMA ReportExclusive ==
    ASSUME ExclusiveInv, TypeInv', NEW d \in Drivers, ReportDelivered(d)
    PROVE  DeliveryRows' /\ DeliveryExclusive'
<1>. DEFINE o == drv[d].row
            a == outbox[o].asg
<1>0. /\ o \in OutId /\ outbox[o].status = "sending" /\ outbox[o] \in Row
      /\ outbox' = [outbox EXCEPT ![o].status = "delivered", ![o].owner = Nobody,
                                  ![o].age = Long]
      /\ outbox \in [OutId -> Row \cup {NoRow}]
  <2>1. o \in OutId /\ outbox[o].status = "sending"
    BY DEF ReportDelivered, Reporting, Authorized, ExclusiveInv, TypeInv, PassRows
  <2>. QED
    BY <2>1 DEF ReportDelivered, ExclusiveInv, TypeInv, TypeOK, NoRow
<1>1. /\ \A p \in OutId : RowKept(p) /\ (p # o => outbox'[p] = outbox[p])
      /\ outbox'[o].status = "delivered"
  BY <1>0 DEF RowKept, Row
<1>. HIDE DEF o
<1>2. \A p \in OutId : RowQuiet(p)
  BY <1>1 DEF RowQuiet
<1>3. CASE asg' = asg
  BY <1>2, <1>3, SameAssignments, QuietRows
<1>4. CASE asg' # asg
  <2>1. /\ a \in AsgId /\ a # NoAsg /\ asg[a].state = "queued"
        /\ asg' = [asg EXCEPT ![a].state = "active"]
    BY <1>0, <1>4 DEF ReportDelivered, Activatable, Activated, Row, o
  <2>2. /\ asg \in [AsgId -> R!Assignment \cup {R!Absent}] /\ asg[a] \in R!Assignment
        /\ R!TypeOK
    BY <2>1, ReducerRow DEF ExclusiveInv, TypeInv, TypeOK, R!TypeOK, AsgId
  <2>3. \A b \in AsgId : /\ asg'[b].role = asg[b].role
                         /\ b # a => asg'[b] = asg[b]
    BY <2>1, <2>2 DEF R!Assignment
  <2>4. asg'[a].state = "active"
    BY <2>1, <2>2 DEF R!Assignment
  <2>5. Kept
    BY <2>1, <2>3, <2>4 DEF Kept
  <2>6. DeliveryRows'
    BY <1>1, <2>5, RowsMatch
  <2>7. InFlight(o) /\ outbox[o].role = asg[a].role
    BY <1>0, <2>1 DEF InFlight, ExclusiveInv, DeliveryRows
  <2>8. ASSUME NEW p \in OutId, InFlight(p)'
        PROVE  /\ p # o /\ InFlight(p) /\ outbox[p].asg \in AsgId \ {a}
               /\ outbox'[p] = outbox[p]
    <3>1. p # o /\ outbox'[p] = outbox[p]
      BY <1>1, <2>8 DEF InFlight
    <3>2. outbox[p].asg \in AsgId /\ outbox[p].asg # a
      BY <1>0, <2>4, <2>8, <3>1 DEF InFlight, Row, NoRow
    <3>3. InFlight(p)
      BY <2>3, <2>8, <3>1, <3>2 DEF InFlight
    <3>. QED
      BY <3>1, <3>2, <3>3
  <2>9. ASSUME NEW p \in OutId, InFlight(p)' PROVE ~R!ActiveElsewhere(outbox[p].asg)'
    <3>1. InFlight(p) /\ outbox[p].role # outbox[o].role
      BY <1>0, <2>7, <2>8, <2>9 DEF ExclusiveInv, DeliveryExclusive
    <3>. PICK b \in AsgId \ {a} : b = outbox[p].asg /\ b = outbox'[p].asg
      BY <2>8, <2>9
    <3>2. ~R!ActiveElsewhere(b) /\ asg[b].role # asg[a].role
      BY <2>7, <3>1 DEF ExclusiveInv, DeliveryExclusive, DeliveryRows, InFlight
    <3>3. ~R!ActiveElsewhere(b)'
      BY <2>3, <3>2 DEF R!ActiveElsewhere, AsgId
    <3>. QED
      BY <3>3 DEF R!ActiveElsewhere
  <2>10. ASSUME NEW p \in OutId, NEW q \in OutId, InFlight(p)', InFlight(q)',
                outbox'[q].role = outbox'[p].role
         PROVE  q = p
    BY <2>8, <2>10 DEF ExclusiveInv, DeliveryExclusive
  <2>. QED
    BY <2>6, <2>9, <2>10 DEF DeliveryExclusive
<1>. QED
  BY <1>3, <1>4

LEMMA ExclusiveStep == ExclusiveInv /\ [Next]_vars => ExclusiveInv'
<1> SUFFICES ASSUME ExclusiveInv, [Next]_vars PROVE ExclusiveInv'
  OBVIOUS
<1>0. TypeInv' /\ TypeInv /\ R!TypeOK
  BY TypeInvStep DEF ExclusiveInv, TypeInv, TypeOK
<1>. SUFFICES DeliveryRows' /\ DeliveryExclusive'
  BY <1>0 DEF ExclusiveInv
<1>a. \A o \in OutId : outbox[o] \in Row \cup {NoRow}
  BY <1>0 DEF TypeInv, TypeOK
\* The rows a command posts, on top of the outbox or of closed deliveries.
<1>b. ASSUME NEW base,
             base = outbox \/ \E a \in AsgId : base = DeliveriesClosed(a),
             NEW rows \in Seq(Row), Post(base, rows), Kept, NoneActivated,
             \A i \in 1 .. Len(rows) : RowFits(rows[i])
      PROVE  DeliveryRows' /\ DeliveryExclusive'
  <2>1. \A o \in OutId : /\ base[o].asg = outbox[o].asg /\ base[o].role = outbox[o].role
                         /\ base[o].status = "sending" => outbox[o].status = "sending"
    BY <1>0, <1>b, ClosedQuiet
  <2>2. \A o \in OutId : RowQuiet(o)
    BY <1>0, <1>b, <2>1, PostQuiet
  <2>. QED
    BY <1>0, <1>b, <2>2, QuietRows
<1>c. {"pm", "worker", "reviewer"} \subseteq Roles
  BY DEF Roles, R!Roles
<1>d. ASSUME NEW base, NEW rows, Post(base, rows), Len(rows) \in Nat \ {0}
      PROVE  nextOut \in OutId
  BY <1>0, <1>d, StoreBounds DEF Post, OutId, TypeInv, TypeOK
<1>1. ASSUME NEW r \in Roles, NEW k \in R!Kinds, Dispatch(r, k)
      PROVE  DeliveryRows' /\ DeliveryExclusive'
  <2>1. r \in R!Owners /\ R!Dispatch(r, k)
    BY <1>1 DEF Dispatch, R!AssignmentKindAllowed, R!Owners, R!Roles, R!Dispatch,
                NoAsg, AsgId
  <2>2. Kept /\ NoneActivated
    BY <1>0, <2>1, DispatchKeeps
  <2>. DEFINE rows == <<NewRow(r, nextAsg)>>
  <2>3. /\ nextAsg \in AsgId /\ Post(outbox, rows)
        /\ asg'[nextAsg].state # "none" /\ asg'[nextAsg].role = r
    BY <1>0, <1>1 DEF Dispatch, R!NewAssignment, R!TypeOK, AsgId
  <2>4. rows \in Seq(Row) /\ Len(rows) = 1
    BY <1>d, <2>3, NewRowType
  <2>5. \A i \in 1 .. Len(rows) : RowFits(rows[i])
    BY <2>3, <2>4, NewRowFields DEF RowFits
  <2>. HIDE DEF rows
  <2>. QED
    BY <1>b, <2>2, <2>3, <2>4, <2>5
<1>2. ASSUME NEW r \in Roles, Context(r) PROVE DeliveryRows' /\ DeliveryExclusive'
  <2>. DEFINE rows == <<NewRow(r, NoAsg)>>
  <2>1. Post(outbox, rows) /\ Kept /\ NoneActivated
    BY <1>2, SameAssignments DEF Context
  <2>2. rows \in Seq(Row) /\ Len(rows) = 1
    BY <1>d, <2>1, NewRowType
  <2>3. \A i \in 1 .. Len(rows) : RowFits(rows[i])
    BY <2>2, NewRowFields DEF RowFits
  <2>. HIDE DEF rows
  <2>. QED
    BY <1>b, <2>1, <2>2, <2>3
<1>3. ASSUME NEW a \in AsgId, NEW k \in R!ReplyKinds, Reply(a, k)
      PROVE  DeliveryRows' /\ DeliveryExclusive'
  <2>1. R!Reply(a, k) /\ asg[a].state # "none"
    BY <1>0, <1>3, ReplyRefines DEF Reply, R!ReplyAccepted
  <2>2. Kept /\ NoneActivated
    BY <1>0, <2>1, SettlingKeeps DEF R!Reply, AsgId
  <2>3. nextAsg \in AsgId => nextAsg # a
    BY <1>0, <2>1, ReducerRow DEF AsgId, R!AsgId, R!TypeOK
  <2>4. CASE ReplyCompleted(a)
    <3>. DEFINE rows == <<NewRow("pm", NoAsg), NewRow("reviewer", nextAsg)>>
    <3>1. /\ nextAsg \in AsgId /\ Post(DeliveriesClosed(a), rows)
          /\ asg'[nextAsg].state # "none" /\ asg'[nextAsg].role = "reviewer"
      <4>. PICK n \in AsgId : n = nextAsg
        BY <2>4 DEF ReplyCompleted
      <4>1. \E new : /\ new.state = "queued" /\ new.role = "reviewer"
                     /\ asg' = [asg EXCEPT ![a] = R!Settled(a, "completed"), ![n] = new]
        BY <2>4 DEF ReplyCompleted, R!NewAssignment
      <4>2. asg'[n].state = "queued" /\ asg'[n].role = "reviewer"
        BY <1>0, <4>1 DEF R!TypeOK, AsgId
      <4>. QED
        BY <2>4, <4>2 DEF ReplyCompleted
    <3>2. rows \in Seq(Row) /\ Len(rows) = 2
      <4>1. nextOut \in OutId
        BY <1>d, <3>1
      <4>. QED
        BY <1>c, <3>1, <4>1, NewRowType
    <3>3. \A i \in 1 .. Len(rows) : RowFits(rows[i])
      BY <3>1, <3>2, NewRowFields DEF RowFits
    <3>. HIDE DEF rows
    <3>. QED
      BY <1>b, <2>2, <3>1, <3>2, <3>3
  <2>5. CASE ReplyRejected(a)
    <3>. DEFINE rows == <<NewRow("pm", NoAsg), NewRow("worker", nextAsg),
                          NewRow("pm", NoAsg), NewRow("worker", NoAsg)>>
    <3>1. /\ nextAsg \in AsgId /\ Post(DeliveriesClosed(a), rows)
          /\ asg'[nextAsg].state # "none" /\ asg'[nextAsg].role = "worker"
      <4>. PICK n \in AsgId : n = nextAsg
        BY <2>5 DEF ReplyRejected
      <4>1. \E new : /\ new.state = "queued" /\ new.role = "worker"
                     /\ asg' = [asg EXCEPT ![a] = R!Settled(a, "rejected"), ![n] = new]
        BY <2>5 DEF ReplyRejected, R!NewAssignment
      <4>2. asg'[n].state = "queued" /\ asg'[n].role = "worker"
        BY <1>0, <4>1 DEF R!TypeOK, AsgId
      <4>. QED
        BY <2>5, <4>2 DEF ReplyRejected
    <3>2. rows \in Seq(Row) /\ Len(rows) = 4
      <4>1. nextOut \in OutId
        BY <1>d, <3>1
      <4>. QED
        BY <1>c, <3>1, <4>1, NewRowType
    <3>3. \A i \in 1 .. Len(rows) : RowFits(rows[i])
      BY <3>1, <3>2, NewRowFields DEF RowFits
    <3>. HIDE DEF rows
    <3>. QED
      BY <1>b, <2>2, <3>1, <3>2, <3>3
  <2>6. CASE ReplyVerdict(a, k)
    <3>. DEFINE rows == <<NewRow("pm", NoAsg), NewRow("pm", NoAsg), NewRow("worker", NoAsg)>>
    <3>1. Post(DeliveriesClosed(a), rows)
      BY <2>6 DEF ReplyVerdict
    <3>2. rows \in Seq(Row) /\ Len(rows) = 3
      <4>1. nextOut \in OutId
        BY <1>d, <3>1
      <4>. QED
        BY <1>c, <3>1, <4>1, NewRowType
    <3>3. \A i \in 1 .. Len(rows) : RowFits(rows[i])
      BY <3>1, <3>2, NewRowFields DEF RowFits
    <3>. HIDE DEF rows
    <3>. QED
      BY <1>b, <2>2, <3>1, <3>2, <3>3
  <2>7. CASE ReplyReport(a, k)
    <3>. DEFINE rows == <<NewRow("pm", NoAsg)>>
    <3>1. Post(DeliveriesClosed(a), rows)
      BY <2>7 DEF ReplyReport
    <3>2. rows \in Seq(Row) /\ Len(rows) = 1
      <4>1. nextOut \in OutId
        BY <1>d, <3>1
      <4>. QED
        BY <1>c, <3>1, <4>1, NewRowType
    <3>3. \A i \in 1 .. Len(rows) : RowFits(rows[i])
      BY <3>2, NewRowFields DEF RowFits
    <3>. HIDE DEF rows
    <3>. QED
      BY <1>b, <2>2, <3>1, <3>2, <3>3
  <2>. QED
    BY <1>3, <2>4, <2>5, <2>6, <2>7 DEF Reply
<1>4. ASSUME NEW a \in AsgId, NEW s \in 1 .. MaxSeq, NEW safe \in BOOLEAN, Settle(a, s, safe)
      PROVE  DeliveryRows' /\ DeliveryExclusive'
  <2>1. CASE SettleIgnored(a)
    <3>1. asg' = asg /\ outbox' = outbox
      BY <2>1 DEF SettleIgnored
    <3>2. \A o \in OutId : RowQuiet(o)
      BY <3>1 DEF RowQuiet, RowKept
    <3>. QED
      BY <1>0, <3>1, <3>2, SameAssignments, QuietRows
  <2>2. CASE SettleResumed(a, safe)
    <3>1. PICK o \in OutId :
            /\ outbox[o].status = "delivered" /\ asg' = asg
            /\ outbox' = [outbox EXCEPT ![o].status = "retry", ![o].owner = Nobody,
                                        ![o].age = Long]
      BY <2>2 DEF SettleResumed, Resumable, Deliveries
    <3>2. outbox[o] \in Row
      BY <1>a, <3>1 DEF NoRow
    <3>. DEFINE row == [outbox[o] EXCEPT !.status = "retry", !.owner = Nobody, !.age = Long]
    <3>3. row.status = "retry" /\ row.asg = outbox[o].asg /\ row.role = outbox[o].role
      BY <3>2 DEF Row
    <3>4. outbox \in [OutId -> Row \cup {NoRow}] /\ outbox' = [outbox EXCEPT ![o] = row]
      BY <1>0, <3>1 DEF TypeInv, TypeOK
    <3>. HIDE DEF row
    <3>5. \A p \in OutId : RowQuiet(p)
      BY <3>3, <3>4 DEF RowQuiet, RowKept
    <3>. QED
      BY <1>0, <3>1, <3>5, SameAssignments, QuietRows
  <2>3. CASE SettleBlocked(a, safe)
    <3>. DEFINE rows == <<NewRow("pm", NoAsg)>>
    <3>1. /\ Post(outbox, rows)
          /\ asg' = [asg EXCEPT ![a] = R!Settled(a, "blocked")]
          /\ asg[a].state # "none" /\ "blocked" \in R!ReplyKinds
      BY <2>3 DEF SettleBlocked, R!ReplyKinds
    <3>2. Kept /\ NoneActivated
      BY <1>0, <3>1, SettlingKeeps
    <3>3. rows \in Seq(Row) /\ Len(rows) = 1
      <4>1. nextOut \in OutId
        BY <1>d, <3>1
      <4>. QED
        BY <1>c, <3>1, <4>1, NewRowType
    <3>4. \A i \in 1 .. Len(rows) : RowFits(rows[i])
      BY <3>3, NewRowFields DEF RowFits
    <3>. HIDE DEF rows
    <3>. QED
      BY <1>b, <3>1, <3>2, <3>3, <3>4
  <2>. QED
    BY <1>4, <2>1, <2>2, <2>3 DEF Settle
<1>5. ASSUME NEW d \in Drivers, ReportDeferred(d) PROVE DeliveryRows' /\ DeliveryExclusive'
  <2>. DEFINE o == drv[d].row
  <2>1. /\ o \in OutId /\ outbox[o].status = "sending" /\ asg' = asg
        /\ outbox \in [OutId -> Row \cup {NoRow}]
    BY <1>0, <1>5 DEF ReportDeferred, Reporting, Authorized, TypeInv, TypeOK, PassRows
  <2>2. outbox[o] \in Row
    BY <2>1 DEF NoRow
  <2>3. /\ \A p \in OutId \ {o} : outbox'[p] = outbox[p]
        /\ RowKept(o) /\ outbox'[o].status # "sending"
    BY <1>5, <2>1, <2>2 DEF ReportDeferred, Parked, RowKept, Row
  <2>4. \A p \in OutId : RowQuiet(p)
    BY <2>3 DEF RowQuiet, RowKept
  <2>. QED
    BY <1>0, <2>1, <2>4, SameAssignments, QuietRows
<1>6. ASSUME NEW d \in Drivers, ClaimNothing(d) PROVE DeliveryRows' /\ DeliveryExclusive'
  <2>1. asg' = asg /\ outbox' = Reclaimed(d)
    BY <1>6 DEF ClaimNothing
  <2>2. \A o \in OutId : RowQuiet(o)
    BY <1>0, <2>1, ReclaimedQuiet DEF RowQuiet, RowKept
  <2>. QED
    BY <1>0, <2>1, <2>2, SameAssignments, QuietRows
<1>7. CASE Tick
  <2>1. asg' = asg
    BY <1>7 DEF Tick
  <2>2. ASSUME NEW o \in OutId
        PROVE  RowKept(o) /\ outbox'[o].status = outbox[o].status
    <3>1. outbox'[o] = outbox[o] \/ outbox'[o] = [outbox[o] EXCEPT !.age = outbox[o].age + 1]
      BY <1>7 DEF Tick
    <3>. QED
      BY <1>a, <3>1 DEF RowKept, Row, NoRow
  <2>3. \A o \in OutId : RowQuiet(o)
    BY <2>2 DEF RowQuiet
  <2>. QED
    BY <1>0, <2>1, <2>3, SameAssignments, QuietRows
<1>8. CASE UNCHANGED <<asg, outbox>>
  <2>1. \A o \in OutId : RowQuiet(o)
    BY <1>8 DEF RowQuiet, RowKept
  <2>. QED
    BY <1>0, <1>8, <2>1, SameAssignments, QuietRows
<1>9. ASSUME NEW d \in Drivers, PassStep(d) \/ Crash(d)
      PROVE  DeliveryRows' /\ DeliveryExclusive'
  <2>1. CASE Claim(d)
    BY <1>0, <2>1, ClaimExclusive
  <2>2. CASE ReportDelivered(d)
    BY <1>0, <2>2, ReportExclusive
  <2>3. CASE ~Claim(d) /\ ~ReportDelivered(d) /\ ~ReportDeferred(d) /\ ~ClaimNothing(d)
    <3>1. UNCHANGED <<asg, outbox>>
      BY <1>9, <2>3 DEF PassStep, Crash, BeginPass, EndPass, Execute, ReportRefused
    <3>. QED
      BY <1>8, <3>1
  <2>. QED
    BY <1>5, <1>6, <2>1, <2>2, <2>3
<1>10. ASSUME NEW r \in Roles, ReplaceRole(r) PROVE UNCHANGED <<asg, outbox>>
  BY <1>10 DEF ReplaceRole
<1>11. CASE UNCHANGED vars
  BY <1>8, <1>11 DEF vars
<1>. QED
  BY <1>1, <1>2, <1>3, <1>4, <1>7, <1>8, <1>9, <1>10, <1>11 DEF Next

\* Whatever leases run out and whoever takes the rows over, a role never has two
\* deliveries of queued assignments under way, nor one beside an active
\* assignment.
THEOREM Exclusive == Spec => []DeliveryExclusive
<1>1. Init => ExclusiveInv
  <2>1. Init => DeliveryRows /\ DeliveryExclusive
    BY DEF Init, DeliveryRows, DeliveryExclusive, InFlight, NoRow
  <2>. QED
    BY <2>1, TypeInvInit DEF ExclusiveInv
<1>2. ExclusiveInv => DeliveryExclusive
  BY DEF ExclusiveInv
<1>. QED
  BY <1>1, <1>2, ExclusiveStep, PTL DEF Spec

-----------------------------------------------------------------------------
\* What one step does to a delivery row, to an assignment and to a pass.  The
\* properties that follow hold because no step does anything else.

Settling == {"none", "queued", "active"}

\* A row that exists keeps its target and what it delivers; its status changes
\* by an expired claim, a reply, a resumption, a claim or a report.
Turned(o) ==
    \/ outbox'[o].status = outbox[o].status
    \/ /\ outbox'[o].status = "retry"
       /\ \E d \in Drivers : Expired(o, d) /\ drv[d].pc = "claiming"
    \/ /\ outbox'[o].status = "delivered" /\ outbox[o].asg # NoAsg
       /\ asg'[outbox[o].asg].state \notin Settling
    \/ /\ outbox'[o].status = "retry" /\ outbox[o].status = "delivered"
       /\ outbox[o].asg # NoAsg /\ asg[outbox[o].asg].state = "active" /\ asg' = asg
    \/ outbox[o].status \in {"queued", "retry"} /\ outbox'[o].status = "sending"
    \/ /\ outbox[o].status = "sending"
       /\ outbox'[o].status \in {"delivered", "queued", "retry"}
       /\ outbox'[o].status = "delivered" /\ outbox[o].asg # NoAsg
             => asg'[outbox[o].asg].state = "active"
       /\ \E d \in Drivers : /\ outbox[o].owner = d /\ drv[d].row = o
                             /\ drv[d].pc = "reporting" /\ drv[d].gen = gen[outbox[o].role]

RowTurn(o) == outbox[o].status # "none" => RowKept(o) /\ outbox'[o].status # "none" /\ Turned(o)

AsgTurn(a) ==
    \/ asg'[a] = asg[a]
    \/ /\ asg[a].state = "none" /\ asg'[a].state = "queued"
       /\ \E o \in OutId : /\ outbox'[o].asg = a /\ outbox'[o].role = asg'[a].role
                           /\ outbox'[o].status = "queued"
    \/ /\ asg[a].state = "queued" /\ asg'[a].state = "active" /\ asg'[a].role = asg[a].role
       /\ \E d \in Drivers : Reporting(d) /\ Succeeded(d) /\ outbox[drv[d].row].asg = a
    \/ /\ asg[a].state \in {"active", "blocked"} /\ asg'[a].state \notin Settling
       /\ asg'[a].role = asg[a].role
       /\ \A o \in Deliveries(a) :
             outbox[o].role = asg[a].role => outbox'[o].status = "delivered"

AllTurn == (\A o \in OutId : RowTurn(o)) /\ (\A a \in AsgId : AsgTurn(a))

LEMMA SameRows == outbox' = outbox => \A o \in OutId : RowTurn(o)
BY DEF RowTurn, RowKept, Turned

LEMMA PostKeeps ==
    ASSUME TypeInv, NEW base, NEW rows, Len(rows) \in Nat, Post(base, rows)
    PROVE  /\ \A o \in OutId : outbox[o].status # "none" => outbox'[o] = base[o]
           /\ \A i \in 1 .. Len(rows) :
                 nextOut + i - 1 \in OutId /\ outbox'[nextOut + i - 1] = rows[i]
<1>1. nextOut \in 1 .. MaxOut + 1 /\ MaxOut \in Nat
  BY StoreBounds DEF TypeInv, TypeOK
<1>2. ASSUME NEW o \in OutId, outbox[o].status # "none" PROVE outbox'[o] = base[o]
  <2>1. o < nextOut
    BY <1>1, <1>2 DEF TypeInv, TypeOK, OutId
  <2>2. o \notin nextOut .. nextOut + Len(rows) - 1
    BY <1>1, <2>1
  <2>3. QED
    BY <2>2 DEF Post
<1>3. ASSUME NEW i \in 1 .. Len(rows)
      PROVE  nextOut + i - 1 \in OutId /\ outbox'[nextOut + i - 1] = rows[i]
  <2> DEFINE o == nextOut + i - 1
  <2>1. o \in nextOut .. nextOut + Len(rows) - 1 /\ o - nextOut + 1 = i /\ o \in OutId
    BY <1>1 DEF Post, OutId
  <2>2. outbox'[o] = rows[o - nextOut + 1]
    BY <2>1 DEF Post
  <2>3. QED
    BY <2>1, <2>2
<1>4. QED
  BY <1>2, <1>3

\* A command that settles nothing.
LEMMA PlainPost ==
    ASSUME TypeInv, NEW rows, Len(rows) \in Nat, Post(outbox, rows)
    PROVE  \A o \in OutId : RowTurn(o)
BY PostKeeps DEF RowTurn, RowKept, Turned

LEMMA DispatchTurns ==
    ASSUME TypeInv, NEW r \in Roles, NEW k \in R!Kinds, Dispatch(r, k)
    PROVE  AllTurn
<1> DEFINE rows == <<NewRow(r, nextAsg)>>
<1>1. /\ Post(outbox, rows) /\ nextAsg \in AsgId
      /\ asg' = [asg EXCEPT ![nextAsg] = R!NewAssignment(r, k, NoAsg, 0)]
      /\ asg \in [AsgId -> R!Assignment \cup {R!Absent}] /\ asg[nextAsg].state = "none"
  BY DEF Dispatch, TypeInv, TypeOK, R!TypeOK, AsgId, R!AsgId
<1>2. Len(rows) = 1 /\ rows[1] = NewRow(r, nextAsg)
  OBVIOUS
<1> HIDE DEF rows
<1>3. \A o \in OutId : RowTurn(o)
  BY <1>1, <1>2, PlainPost
<1>4. \E o \in OutId : outbox'[o] = NewRow(r, nextAsg)
  <2>1. 1 \in 1 .. Len(rows)
    BY <1>2
  <2>2. nextOut + 1 - 1 \in OutId /\ outbox'[nextOut + 1 - 1] = rows[1]
    BY <1>1, <1>2, <2>1, PostKeeps
  <2>3. QED
    BY <1>2, <2>2
<1>5. asg'[nextAsg].state = "queued" /\ asg'[nextAsg].role = r
      /\ \A a \in AsgId \ {nextAsg} : asg'[a] = asg[a]
  BY <1>1 DEF R!NewAssignment
<1>6. AsgTurn(nextAsg)
  BY <1>1, <1>4, <1>5, NewRowFields DEF AsgTurn
<1>7. QED
  BY <1>1, <1>3, <1>5, <1>6 DEF AllTurn, AsgTurn

\* A reply: its assignment is settled and the deliveries of it closed.
LEMMA ReplyRows ==
    ASSUME TypeInv, NEW a \in AsgId, asg[a].state # "none", asg'[a].state \notin Settling,
           NEW rows, Len(rows) \in Nat, Post(DeliveriesClosed(a), rows)
    PROVE  /\ \A o \in OutId : RowTurn(o)
           /\ \A o \in Deliveries(a) :
                 outbox[o].role = asg[a].role => outbox'[o].status = "delivered"
<1>1. \A o \in OutId : outbox[o].status # "none" => outbox'[o] = DeliveriesClosed(a)[o]
  BY PostKeeps
<1>2. a # NoAsg
  BY DEF AsgId, R!AsgId, NoAsg, R!NoAsg
<1>3. ASSUME NEW o \in OutId, outbox[o].status # "none"
      PROVE  /\ RowKept(o) /\ outbox'[o].status # "none"
             /\ outbox[o].asg = a /\ outbox[o].role = asg[a].role
                  => outbox'[o].status = "delivered"
             /\ ~(outbox[o].asg = a /\ outbox[o].role = asg[a].role)
                  => outbox'[o].status = outbox[o].status
  <2>1. outbox[o] \in Row
    BY <1>3 DEF TypeInv, TypeOK, NoRow
  <2>2. QED
    BY <1>1, <1>3, <2>1 DEF DeliveriesClosed, Deliveries, Row, RowKept
<1>4. \A o \in OutId : RowTurn(o)
  BY <1>2, <1>3 DEF RowTurn, Turned
<1>5. QED
  BY <1>3, <1>4 DEF Deliveries

LEMMA ReplyTurns ==
    ASSUME TypeInv, NEW a \in AsgId, NEW k \in R!ReplyKinds, Reply(a, k)
    PROVE  AllTurn
<1>1. /\ asg[a].state \in {"active", "blocked"} /\ asg[a].state # "none"
      /\ asg \in [AsgId -> R!Assignment \cup {R!Absent}]
      /\ nextAsg \in AsgId => asg[nextAsg].state = "none"
  BY DEF Reply, R!ReplyAccepted, TypeInv, TypeOK, R!TypeOK, AsgId, R!AsgId
<1>2. /\ R!Settled(a, k).state \notin Settling
      /\ R!Settled(a, k).role = asg[a].role
  <2>1. asg[a] \in R!Assignment
    BY <1>1 DEF R!Absent
  <2>2. QED
    BY <2>1 DEF R!Settled, R!SettledState, R!Assignment, R!ReplyKinds, Settling
\* With a follow-up, whose delivery is the second row.
<1>3. ASSUME NEW r, NEW kind, NEW parent, NEW round, NEW rows, Len(rows) \in 2 .. 4,
             nextAsg \in AsgId, Post(DeliveriesClosed(a), rows), rows[2] = NewRow(r, nextAsg),
             asg' = [asg EXCEPT ![a] = R!Settled(a, k),
                                ![nextAsg] = R!NewAssignment(r, kind, parent, round)]
      PROVE  AllTurn
  <2>1. nextAsg # a
    BY <1>1, <1>3
  <2>2. /\ asg'[a] = R!Settled(a, k) /\ asg'[nextAsg].state = "queued" /\ asg'[nextAsg].role = r
        /\ \A b \in AsgId \ {a, nextAsg} : asg'[b] = asg[b]
    BY <1>1, <1>3, <2>1 DEF R!NewAssignment
  <2>3. /\ \A o \in OutId : RowTurn(o)
        /\ \A o \in Deliveries(a) :
              outbox[o].role = asg[a].role => outbox'[o].status = "delivered"
        /\ Len(rows) \in Nat
    BY <1>1, <1>2, <1>3, <2>2, ReplyRows
  <2>4. \E o \in OutId : outbox'[o] = NewRow(r, nextAsg)
    <3>1. 2 \in 1 .. Len(rows)
      BY <1>3
    <3>2. QED
      BY <1>3, <2>3, <3>1, PostKeeps
  <2>5. AsgTurn(nextAsg)
    BY <1>1, <1>3, <2>2, <2>4, NewRowFields DEF AsgTurn
  <2>6. AsgTurn(a)
    BY <1>1, <1>2, <2>2, <2>3 DEF AsgTurn
  <2>7. QED
    BY <2>2, <2>3, <2>5, <2>6 DEF AllTurn, AsgTurn
\* Without one.
<1>4. ASSUME NEW rows, Len(rows) \in Nat, Post(DeliveriesClosed(a), rows),
             asg' = [asg EXCEPT ![a] = R!Settled(a, k)]
      PROVE  AllTurn
  <2>1. asg'[a] = R!Settled(a, k) /\ \A b \in AsgId \ {a} : asg'[b] = asg[b]
    BY <1>1, <1>4
  <2>2. /\ \A o \in OutId : RowTurn(o)
        /\ \A o \in Deliveries(a) :
              outbox[o].role = asg[a].role => outbox'[o].status = "delivered"
    BY <1>1, <1>2, <1>4, <2>1, ReplyRows
  <2>3. AsgTurn(a)
    BY <1>1, <1>2, <2>1, <2>2 DEF AsgTurn
  <2>4. QED
    BY <2>1, <2>2, <2>3 DEF AllTurn, AsgTurn
<1>5. CASE k = "completed" /\ ReplyCompleted(a)
  <2> DEFINE rows == <<NewRow("pm", NoAsg), NewRow("reviewer", nextAsg)>>
  <2>1. Len(rows) \in 2 .. 4 /\ rows[2] = NewRow("reviewer", nextAsg)
    OBVIOUS
  <2>2. /\ nextAsg \in AsgId /\ Post(DeliveriesClosed(a), rows)
        /\ asg' = [asg EXCEPT ![a] = R!Settled(a, k),
                     ![nextAsg] = R!NewAssignment("reviewer", "review", R!Root(a), asg[a].round)]
    BY <1>5 DEF ReplyCompleted
  <2> HIDE DEF rows
  <2>3. QED
    BY <1>3, <2>1, <2>2
<1>6. CASE k = "rejected" /\ ReplyRejected(a)
  <2> DEFINE rows == <<NewRow("pm", NoAsg), NewRow("worker", nextAsg),
                       NewRow("pm", NoAsg), NewRow("worker", NoAsg)>>
  <2>1. Len(rows) \in 2 .. 4 /\ rows[2] = NewRow("worker", nextAsg)
    OBVIOUS
  <2>2. /\ nextAsg \in AsgId /\ Post(DeliveriesClosed(a), rows)
        /\ asg' = [asg EXCEPT ![a] = R!Settled(a, k),
                     ![nextAsg] = R!NewAssignment("worker", "fix", R!Root(a), asg[a].round + 1)]
    BY <1>6 DEF ReplyRejected
  <2> HIDE DEF rows
  <2>3. QED
    BY <1>3, <2>1, <2>2
<1>7. CASE ReplyVerdict(a, k)
  <2> DEFINE rows == <<NewRow("pm", NoAsg), NewRow("pm", NoAsg), NewRow("worker", NoAsg)>>
  <2>1. Len(rows) \in Nat
    OBVIOUS
  <2>2. Post(DeliveriesClosed(a), rows) /\ asg' = [asg EXCEPT ![a] = R!Settled(a, k)]
    BY <1>7 DEF ReplyVerdict
  <2> HIDE DEF rows
  <2>3. QED
    BY <1>4, <2>1, <2>2
<1>8. CASE ReplyReport(a, k)
  <2> DEFINE rows == <<NewRow("pm", NoAsg)>>
  <2>1. Len(rows) \in Nat
    OBVIOUS
  <2>2. Post(DeliveriesClosed(a), rows) /\ asg' = [asg EXCEPT ![a] = R!Settled(a, k)]
    BY <1>8 DEF ReplyReport
  <2> HIDE DEF rows
  <2>3. QED
    BY <1>4, <2>1, <2>2
<1>9. QED
  BY <1>5, <1>6, <1>7, <1>8 DEF Reply

LEMMA SettleTurns ==
    ASSUME TypeInv, NEW a \in AsgId, NEW safe \in BOOLEAN,
           SettleIgnored(a) \/ SettleResumed(a, safe) \/ SettleBlocked(a, safe)
    PROVE  AllTurn
<1>1. CASE SettleIgnored(a)
  BY <1>1, SameRows DEF SettleIgnored, AllTurn, AsgTurn
<1>2. CASE SettleResumed(a, safe)
  <2>1. PICK o \in OutId :
          /\ outbox[o].status = "delivered" /\ asg' = asg /\ outbox[o].asg = a
          /\ asg[a].state = "active"
          /\ outbox' = [outbox EXCEPT ![o].status = "retry", ![o].owner = Nobody,
                                      ![o].age = Long]
    BY <1>2 DEF SettleResumed, Resumable, Deliveries
  <2>2. outbox[o] \in Row /\ a # NoAsg
    BY <2>1 DEF TypeInv, TypeOK, NoRow, AsgId, R!AsgId, NoAsg, R!NoAsg
  <2>3. /\ \A q \in OutId \ {o} : outbox'[q] = outbox[q]
        /\ outbox'[o].status = "retry" /\ RowKept(o)
    BY <2>1, <2>2 DEF Row, TypeInv, TypeOK, RowKept
  <2>4. RowTurn(o)
    BY <2>1, <2>2, <2>3 DEF RowTurn, Turned
  <2>5. \A q \in OutId \ {o} : RowTurn(q)
    BY <2>3 DEF RowTurn, Turned, RowKept
  <2>6. QED
    BY <2>1, <2>4, <2>5 DEF AllTurn, AsgTurn
<1>3. CASE SettleBlocked(a, safe)
  <2> DEFINE rows == <<NewRow("pm", NoAsg)>>
  <2>1. Len(rows) \in Nat
    OBVIOUS
  <2>2. /\ Post(outbox, rows) /\ asg' = [asg EXCEPT ![a] = R!Settled(a, "blocked")]
        /\ asg[a].state = "active" /\ \A o \in Deliveries(a) : ~Pending(o)
    BY <1>3 DEF SettleBlocked
  <2> HIDE DEF rows
  <2>3. \A o \in OutId : RowTurn(o)
    BY <2>1, <2>2, PlainPost
  <2>4. asg[a] \in R!Assignment /\ asg \in [AsgId -> R!Assignment \cup {R!Absent}]
    BY <2>2 DEF TypeInv, TypeOK, R!TypeOK, R!Absent, AsgId, R!AsgId
  <2>5. /\ asg'[a].state = "blocked" /\ asg'[a].role = asg[a].role
        /\ \A b \in AsgId \ {a} : asg'[b] = asg[b]
    BY <2>2, <2>4 DEF R!Settled, R!SettledState, R!Assignment
  <2>6. ASSUME NEW o \in Deliveries(a) PROVE outbox'[o].status = "delivered"
    <3>1. o \in OutId /\ outbox[o].status # "none" /\ outbox[o] \in Row
      BY DEF Deliveries, TypeInv, TypeOK, NoRow
    <3>2. outbox[o].status = "delivered"
      BY <2>2, <3>1 DEF Pending, Row
    <3>3. outbox'[o] = outbox[o]
      BY <2>1, <2>2, <3>1, PostKeeps
    <3>4. QED
      BY <3>2, <3>3
  <2>7. AsgTurn(a)
    BY <2>2, <2>5, <2>6 DEF AsgTurn, Settling
  <2>8. QED
    BY <2>3, <2>5, <2>7 DEF AllTurn, AsgTurn
<1>4. QED
  BY <1>1, <1>2, <1>3

\* Taking back the expired claims, and claiming a row after that.
LEMMA ReclaimTurns ==
    ASSUME TypeInv, NEW d \in Drivers, drv[d].pc = "claiming", NEW o \in OutId,
           outbox[o].status # "none"
    PROVE  LET row == Reclaimed(d)[o] IN
           /\ row.asg = outbox[o].asg /\ row.role = outbox[o].role
           /\ row.status # "none"
           /\ \/ row.status = outbox[o].status
              \/ row.status = "retry" /\ Expired(o, d)
<1>1. outbox[o] \in Row
  BY DEF TypeInv, TypeOK, NoRow
<1>2. QED
  BY <1>1 DEF Reclaimed, Row

LEMMA ClaimTurns ==
    ASSUME TypeInv, NEW d \in Drivers, Claim(d)
    PROVE  AllTurn
<1> DEFINE ob == Reclaimed(d)
<1>1. PICK o \in OutId :
        /\ ob[o].status \in {"queued", "retry"}
        /\ outbox' = [ob EXCEPT ![o].status = "sending", ![o].owner = d,
                                ![o].age = drv[d].age, ![o].attempts = @ + 1]
  BY DEF Claim, NextToClaim, Claimable
<1>2. asg' = asg /\ drv[d].pc = "claiming"
  BY DEF Claim
<1>3. OutboxTyped(ob, nextOut)
  BY ReclaimedType
<1>4. ob[o] \in Row /\ ob \in [OutId -> Row \cup {NoRow}]
  BY <1>1, <1>3, ExistingRow DEF OutboxTyped
<1>5. ASSUME NEW q \in OutId, outbox[q].status # "none"
      PROVE  /\ ob[q].asg = outbox[q].asg /\ ob[q].role = outbox[q].role
             /\ ob[q].status # "none"
             /\ \/ ob[q].status = outbox[q].status
                \/ ob[q].status = "retry" /\ Expired(q, d)
  BY <1>2, <1>5, ReclaimTurns
<1> HIDE DEF ob
<1>6. /\ outbox'[o].status = "sending" /\ outbox'[o].asg = ob[o].asg
      /\ outbox'[o].role = ob[o].role
      /\ \A q \in OutId \ {o} : outbox'[q] = ob[q]
  BY <1>1, <1>4 DEF Row
<1>7. RowTurn(o)
  BY <1>1, <1>5, <1>6 DEF RowTurn, RowKept, Turned, Expired
<1>8. \A q \in OutId \ {o} : RowTurn(q)
  BY <1>2, <1>5, <1>6 DEF RowTurn, RowKept, Turned
<1>9. QED
  BY <1>2, <1>7, <1>8 DEF AllTurn, AsgTurn

\* A report about a row the pass still owns.
LEMMA ReportTurns ==
    ASSUME TypeInv, NEW d \in Drivers, ReportDelivered(d) \/ ReportDeferred(d)
    PROVE  AllTurn
<1>1. PICK o : o = drv[d].row
  OBVIOUS
<1>2. /\ o \in OutId /\ outbox[o].status = "sending" /\ outbox[o].owner = d
      /\ drv[d].pc = "reporting" /\ drv[d].gen = gen[outbox[o].role] /\ Reporting(d)
  BY <1>1 DEF ReportDelivered, ReportDeferred, Reporting, Authorized, TypeInv, PassRows
<1>3. outbox[o] \in Row /\ outbox \in [OutId -> Row \cup {NoRow}]
  BY <1>2 DEF TypeInv, TypeOK, NoRow
<1>4. CASE ReportDelivered(d)
  <2>1. PICK a : a = outbox[o].asg
    OBVIOUS
  <2>2. /\ a # NoAsg => Activatable(a) /\ asg' = Activated(a)
        /\ a = NoAsg => asg' = asg
        /\ outbox' = [outbox EXCEPT ![o].status = "delivered", ![o].owner = Nobody,
                                    ![o].age = Long]
        /\ Succeeded(d)
    BY <1>1, <1>4, <2>1 DEF ReportDelivered
  <2>3. /\ \A q \in OutId \ {o} : outbox'[q] = outbox[q]
        /\ outbox'[o].status = "delivered" /\ RowKept(o)
    BY <1>2, <1>3, <2>2 DEF Row, RowKept
  <2>4. CASE a = NoAsg
    <3>1. RowTurn(o)
      BY <1>1, <1>2, <2>1, <2>3, <2>4 DEF RowTurn, Turned
    <3>2. QED
      BY <2>2, <2>3, <2>4, <3>1 DEF AllTurn, AsgTurn, RowTurn, Turned, RowKept
  <2>5. CASE a # NoAsg
    <3>1. /\ a \in AsgId /\ asg[a].state = "queued"
          /\ asg' = [asg EXCEPT ![a].state = "active"]
          /\ asg \in [AsgId -> R!Assignment \cup {R!Absent}]
      BY <1>3, <2>1, <2>2, <2>5 DEF Activatable, Activated, Row, TypeInv, TypeOK, R!TypeOK,
                                    AsgId, R!AsgId
    <3>2. asg[a] \in R!Assignment
      BY <3>1 DEF R!Absent
    <3>3. /\ asg'[a].state = "active" /\ asg'[a].role = asg[a].role
          /\ \A b \in AsgId \ {a} : asg'[b] = asg[b]
      BY <3>1, <3>2 DEF R!Assignment
    <3>4. RowTurn(o)
      BY <1>1, <1>2, <2>1, <2>3, <3>3 DEF RowTurn, Turned
    <3>5. AsgTurn(a)
      BY <1>1, <1>2, <2>1, <2>2, <3>1, <3>3 DEF AsgTurn
    <3>6. QED
      BY <2>3, <3>3, <3>4, <3>5 DEF AllTurn, AsgTurn, RowTurn, Turned, RowKept
  <2>6. QED
    BY <2>4, <2>5
<1>5. CASE ReportDeferred(d)
  <2>1. /\ \A q \in OutId \ {o} : outbox'[q] = outbox[q]
        /\ outbox'[o].status \in {"queued", "retry"} /\ RowKept(o) /\ asg' = asg
    BY <1>1, <1>2, <1>3, <1>5 DEF ReportDeferred, Parked, Row, RowKept
  <2>2. RowTurn(o)
    BY <1>1, <1>2, <2>1 DEF RowTurn, Turned
  <2>3. QED
    BY <2>1, <2>2 DEF AllTurn, AsgTurn, RowTurn, Turned, RowKept
<1>6. QED
  BY <1>4, <1>5

LEMMA StepTurns == TypeInv /\ [Next]_vars => AllTurn
<1> SUFFICES ASSUME TypeInv, [Next]_vars PROVE AllTurn
  OBVIOUS
<1>1. ASSUME UNCHANGED <<asg, outbox>> PROVE AllTurn
  BY <1>1, SameRows DEF AllTurn, AsgTurn
<1>2. ASSUME NEW r \in Roles, NEW k \in R!Kinds, Dispatch(r, k) PROVE AllTurn
  BY <1>2, DispatchTurns
<1>3. ASSUME NEW r \in Roles, Context(r) PROVE AllTurn
  <2> DEFINE rows == <<NewRow(r, NoAsg)>>
  <2>1. Len(rows) \in Nat
    OBVIOUS
  <2>2. Post(outbox, rows) /\ asg' = asg
    BY <1>3 DEF Context
  <2> HIDE DEF rows
  <2>3. QED
    BY <2>1, <2>2, PlainPost DEF AllTurn, AsgTurn
<1>4. ASSUME NEW a \in AsgId, NEW k \in R!ReplyKinds, Reply(a, k) PROVE AllTurn
  BY <1>4, ReplyTurns
<1>5. ASSUME NEW a \in AsgId, NEW s \in 1 .. MaxSeq, NEW safe \in BOOLEAN, Settle(a, s, safe)
      PROVE  AllTurn
  BY <1>5, SettleTurns DEF Settle
<1>6. ASSUME NEW d \in Drivers, ClaimNothing(d) PROVE AllTurn
  <2>1. outbox' = Reclaimed(d) /\ asg' = asg /\ drv[d].pc = "claiming"
    BY <1>6 DEF ClaimNothing
  <2>2. \A o \in OutId : RowTurn(o)
    BY <2>1, ReclaimTurns DEF RowTurn, RowKept, Turned
  <2>3. QED
    BY <2>1, <2>2 DEF AllTurn, AsgTurn
<1>7. CASE Tick
  <2>1. asg' = asg
    BY <1>7 DEF Tick
  <2>2. ASSUME NEW o \in OutId, outbox[o].status # "none" PROVE RowTurn(o)
    <3>1. outbox[o] \in Row
      BY <2>2 DEF TypeInv, TypeOK, NoRow
    <3>2. outbox'[o] = outbox[o] \/ outbox'[o] = [outbox[o] EXCEPT !.age = outbox[o].age + 1]
      BY <1>7 DEF Tick
    <3>3. QED
      BY <2>2, <3>1, <3>2 DEF RowTurn, RowKept, Turned, Row
  <2>3. QED
    BY <2>1, <2>2 DEF AllTurn, AsgTurn, RowTurn
<1>8. ASSUME NEW d \in Drivers, PassStep(d) \/ Crash(d) PROVE AllTurn
  <2>1. CASE Claim(d)
    BY <2>1, ClaimTurns
  <2>2. CASE ReportDelivered(d) \/ ReportDeferred(d)
    BY <2>2, ReportTurns
  <2>3. CASE ~Claim(d) /\ ~ReportDelivered(d) /\ ~ReportDeferred(d) /\ ~ClaimNothing(d)
    <3>1. UNCHANGED <<asg, outbox>>
      BY <1>8, <2>3 DEF PassStep, Crash, BeginPass, EndPass, Execute, ReportRefused
    <3>2. QED
      BY <1>1, <3>1
  <2>4. QED
    BY <1>6, <2>1, <2>2, <2>3
<1>9. ASSUME NEW r \in Roles, ReplaceRole(r) PROVE AllTurn
  BY <1>1, <1>9 DEF ReplaceRole
<1>10. CASE UNCHANGED vars
  BY <1>1, <1>10 DEF vars
<1>11. QED
  BY <1>2, <1>3, <1>4, <1>5, <1>7, <1>8, <1>9, <1>10 DEF Next

\* The assignments that are known stay known to the owner they had.
LEMMA KnownTurn ==
    ASSUME NEW a \in AsgId, AsgTurn(a), asg'[a].state # "none"
    PROVE  \/ /\ asg[a].state = "none" /\ asg'[a].state = "queued"
              /\ \E o \in OutId : /\ outbox'[o].asg = a /\ outbox'[o].role = asg'[a].role
                                  /\ outbox'[o].status = "queued"
           \/ asg[a].state # "none" /\ asg'[a].role = asg[a].role
BY DEF AsgTurn, Settling

\* The row that delivers a queued assignment stays pending and the one of a
\* settled assignment stays delivered, whatever is claimed, reclaimed, resumed or
\* answered meanwhile.
LEMMA DeliveryStep ==
    ASSUME TypeInv, TypeInv', DeliveryMatchesState, AllTurn
    PROVE  DeliveryMatchesState'
<1>1. ASSUME NEW a \in AsgId, asg'[a].state # "none"
      PROVE  \E o \in OutId :
                /\ outbox'[o].asg = a /\ outbox'[o].role = asg'[a].role
                /\ asg'[a].state = "queued" => Pending(o)'
                /\ asg'[a].state \notin {"queued", "active"} => outbox'[o].status = "delivered"
  <2>1. CASE asg[a].state = "none"
    <3>1. PICK o \in OutId : /\ outbox'[o].asg = a /\ outbox'[o].role = asg'[a].role
                             /\ outbox'[o].status = "queued" /\ asg'[a].state = "queued"
      BY <1>1, <2>1, KnownTurn DEF AllTurn
    <3>2. QED
      BY <3>1 DEF Pending
  <2>2. CASE asg[a].state # "none"
    <3>1. PICK o \in OutId :
            /\ outbox[o].asg = a /\ outbox[o].role = asg[a].role
            /\ asg[a].state = "queued" => Pending(o)
            /\ asg[a].state \notin {"queued", "active"} => outbox[o].status = "delivered"
      BY <2>2 DEF DeliveryMatchesState, R!Known, AsgId
    <3>2. outbox[o].status # "none" /\ a # NoAsg
      <4>1. a # NoAsg
        BY DEF AsgId, R!AsgId, NoAsg, R!NoAsg
      <4>2. outbox[o] # NoRow /\ outbox[o] \in Row \cup {NoRow}
        BY <3>1, <4>1 DEF TypeInv, TypeOK, NoRow
      <4>3. QED
        BY <4>1, <4>2 DEF Row
    <3>3. AsgTurn(a) /\ RowKept(o) /\ Turned(o) /\ asg'[a].role = asg[a].role
      BY <1>1, <2>2, <3>2, KnownTurn DEF AllTurn, RowTurn
    <3>4. outbox'[o].asg = a /\ outbox'[o].role = asg'[a].role
      BY <3>1, <3>3 DEF RowKept
    <3>5. ASSUME asg'[a].state = "queued" PROVE Pending(o)'
      <4>1. asg[a].state = "queued" /\ Pending(o)
        BY <2>2, <3>1, <3>3, <3>5 DEF AsgTurn, Settling
      <4>2. QED
        BY <3>1, <3>2, <3>3, <3>5, <4>1 DEF Turned, Pending, Settling
    <3>6. ASSUME asg'[a].state \notin {"queued", "active"} PROVE outbox'[o].status = "delivered"
      <4>1. CASE asg[a].state \in {"queued", "active"}
        <5>1. o \in Deliveries(a)
          BY <3>1, <3>2 DEF Deliveries
        <5>2. QED
          BY <3>1, <3>3, <3>6, <4>1, <5>1 DEF AsgTurn, Settling
      <4>2. CASE asg[a].state \notin {"queued", "active"}
        BY <3>1, <3>3, <4>2 DEF Turned, Expired
      <4>3. QED
        BY <4>1, <4>2
    <3>7. QED
      BY <3>4, <3>5, <3>6
  <2>3. QED
    BY <2>1, <2>2
<1>2. QED
  BY <1>1 DEF DeliveryMatchesState, R!Known, AsgId

\* A queued assignment keeps a pending delivery and an answered one is not sent
\* again: no crash, expired claim, resumption or early reply parts the two tables.
THEOREM DeliveriesMatch == Spec => []DeliveryMatchesState
<1>1. Init => DeliveryMatchesState
  BY DEF Init, R!Init, DeliveryMatchesState, R!Known, R!Absent
<1>2. TypeInv /\ TypeInv' /\ DeliveryMatchesState /\ [Next]_vars => DeliveryMatchesState'
  BY StepTurns, DeliveryStep
<1>3. QED
  BY <1>1, <1>2, TypeInvInit, TypeInvStep, PTL DEF Spec

\* A claim ends by its owner's report for the generation the role still has, by a
\* reply or because its lease ran out.
THEOREM ClaimsEnd == Spec => ClaimsEndByRight
<1>1. ASSUME TypeInv, [Next]_vars, NEW o \in OutId,
             outbox[o].status = "sending", outbox'[o].status # "sending"
      PROVE  \/ \E d \in Drivers : Expired(o, d) /\ drv[d].pc = "claiming"
             \/ outbox[o].asg # NoAsg /\ asg'[outbox[o].asg].state \notin {"queued", "active"}
             \/ \E d \in Drivers :
                  /\ outbox[o].owner = d /\ drv[d].row = o /\ drv[d].pc = "reporting"
                  /\ drv[d].gen = gen[outbox[o].role]
  <2>1. Turned(o)
    BY <1>1, StepTurns DEF AllTurn, RowTurn
  <2>2. QED
    BY <1>1, <2>1 DEF Turned, Settling
<1>2. TypeInv /\ [Next]_vars
        => [\A o \in OutId : outbox[o].status = "sending" /\ outbox'[o].status # "sending" =>
              \/ \E d \in Drivers : Expired(o, d) /\ drv[d].pc = "claiming"
              \/ outbox[o].asg # NoAsg /\ asg'[outbox[o].asg].state \notin {"queued", "active"}
              \/ \E d \in Drivers :
                   /\ outbox[o].owner = d /\ drv[d].row = o /\ drv[d].pc = "reporting"
                   /\ drv[d].gen = gen[outbox[o].role]]_vars
  BY <1>1
<1>3. QED
  BY <1>2, TypeInvInit, TypeInvStep, PTL DEF Spec, ClaimsEndByRight

-----------------------------------------------------------------------------
\* What a pass is about to report as delivered, an agent has accepted.
PassesKnow ==
    \A d \in Drivers :
        /\ drv[d].pc \in {"executing", "reporting"} => outbox[drv[d].row].status # "none"
        /\ drv[d].pc = "reporting" /\ drv[d].outcome = "ok" /\ outbox[drv[d].row].asg # NoAsg
             => outbox[drv[d].row].asg \in prompted

\* What a step does to a pass: it ends, claims, goes on, or hears of its prompt.
PassTurn(d) ==
    \/ drv'[d].pc \notin {"executing", "reporting"}
    \/ /\ drv'[d].pc = "executing" /\ drv'[d].row \in OutId
       /\ outbox'[drv'[d].row].status # "none"
    \/ /\ drv'[d].pc = drv[d].pc /\ drv'[d].row = drv[d].row /\ drv'[d].outcome = drv[d].outcome
    \/ /\ drv[d].pc = "executing" /\ drv'[d].pc = "reporting" /\ drv'[d].row = drv[d].row
       /\ drv'[d].outcome = "ok" => {outbox[drv[d].row].asg} \ {NoAsg} \subseteq prompted'

LEMMA PassTurns ==
    TypeInv /\ [Next]_vars => prompted \subseteq prompted' /\ \A d \in Drivers : PassTurn(d)
<1> SUFFICES ASSUME TypeInv, [Next]_vars
             PROVE  prompted \subseteq prompted' /\ \A d \in Drivers : PassTurn(d)
  OBVIOUS
<1>0. drv \in [Drivers -> Pass] /\ \A d \in Drivers : drv[d] \in Pass
  BY DEF TypeInv, TypeOK
<1>1. ASSUME UNCHANGED <<drv, prompted>>
      PROVE  prompted \subseteq prompted' /\ \A d \in Drivers : PassTurn(d)
  BY <1>1 DEF PassTurn
<1>2. ASSUME NEW d \in Drivers, NEW pass, drv' = [drv EXCEPT ![d] = pass],
             pass.pc \notin {"executing", "reporting"}, UNCHANGED prompted
      PROVE  prompted \subseteq prompted' /\ \A c \in Drivers : PassTurn(c)
  BY <1>0, <1>2 DEF PassTurn
<1>3. Idle.pc = "idle" /\ [Idle EXCEPT !.pc = "claiming"].pc = "claiming"
      /\ \A g : [Idle EXCEPT !.pc = "claiming", !.age = g].pc = "claiming"
  BY DEF Idle
<1>4. ASSUME NEW d \in Drivers, BeginPass(d) \/ ClaimNothing(d) \/ EndPass(d) \/ ReportDelivered(d)
                                  \/ ReportDeferred(d) \/ ReportRefused(d) \/ Crash(d)
      PROVE  prompted \subseteq prompted' /\ \A c \in Drivers : PassTurn(c)
  <2>1. /\ \E pass : drv' = [drv EXCEPT ![d] = pass] /\ pass.pc \notin {"executing", "reporting"}
        /\ prompted' = prompted
    BY <1>3, <1>4 DEF BeginPass, ClaimNothing, EndPass, ReportDelivered, ReportDeferred,
                      ReportRefused, Crash, NextClaim
  <2>2. QED
    BY <1>2, <2>1
<1>5. ASSUME NEW d \in Drivers, Claim(d)
      PROVE  prompted \subseteq prompted' /\ \A c \in Drivers : PassTurn(c)
  <2>1. PICK o \in OutId :
          /\ outbox' = [Reclaimed(d) EXCEPT ![o].status = "sending", ![o].owner = d,
                                            ![o].age = drv[d].age, ![o].attempts = @ + 1]
          /\ drv' = [drv EXCEPT ![d] = IF gen[outbox[o].role] = 0 THEN Idle
                                       ELSE [@ EXCEPT !.pc = "executing", !.row = o,
                                                      !.gen = gen[outbox[o].role]]]
          /\ prompted' = prompted
          /\ Reclaimed(d)[o].status \in {"queued", "retry"}
    BY <1>5 DEF Claim, NextToClaim, Claimable
  <2>2. Reclaimed(d)[o] \in Row /\ Reclaimed(d) \in [OutId -> Row \cup {NoRow}]
    <3>1. OutboxTyped(Reclaimed(d), nextOut)
      BY ReclaimedType
    <3>2. QED
      BY <2>1, <3>1, ExistingRow DEF OutboxTyped
  <2>3. outbox'[o].status = "sending"
    BY <2>1, <2>2 DEF Row
  <2>4. drv'[d].pc = "idle" \/ (drv'[d].pc = "executing" /\ drv'[d].row = o)
    <3>1. drv'[d] = IF gen[outbox[o].role] = 0 THEN Idle
                    ELSE [drv[d] EXCEPT !.pc = "executing", !.row = o,
                                        !.gen = gen[outbox[o].role]]
      BY <1>0, <2>1
    <3>2. \A g : LET new == [drv[d] EXCEPT !.pc = "executing", !.row = o, !.gen = g]
                IN  new.pc = "executing" /\ new.row = o
      BY <1>0 DEF Pass
    <3>3. QED
      BY <1>3, <3>1, <3>2
  <2>5. \A c \in Drivers \ {d} : drv'[c] = drv[c]
    BY <1>0, <2>1
  <2>6. QED
    BY <2>1, <2>3, <2>4, <2>5 DEF PassTurn
<1>6. ASSUME NEW d \in Drivers, NEW out \in {"ok", "pending", "retry"}, Execute(d, out)
      PROVE  prompted \subseteq prompted' /\ \A c \in Drivers : PassTurn(c)
  <2>1. /\ drv[d].pc = "executing" /\ drv' = [drv EXCEPT ![d].pc = "reporting", ![d].outcome = out]
        /\ prompted' = IF out = "ok" THEN prompted \cup ({outbox[drv[d].row].asg} \ {NoAsg})
                                     ELSE prompted
    BY <1>6 DEF Execute
  <2>2. /\ drv'[d].pc = "reporting" /\ drv'[d].row = drv[d].row /\ drv'[d].outcome = out
        /\ \A c \in Drivers \ {d} : drv'[c] = drv[c]
    BY <1>0, <2>1 DEF Pass
  <2>3. QED
    BY <2>1, <2>2 DEF PassTurn
<1>7. CASE Tick
  <2>1. /\ prompted' = prompted
        /\ \A d \in Drivers : drv'[d] = drv[d] \/ drv'[d] = [drv[d] EXCEPT !.age = drv[d].age + 1]
    BY <1>7 DEF Tick
  <2>2. \A d \in Drivers : /\ drv'[d].pc = drv[d].pc /\ drv'[d].row = drv[d].row
                           /\ drv'[d].outcome = drv[d].outcome
    BY <1>0, <2>1 DEF Pass
  <2>3. QED
    BY <2>1, <2>2 DEF PassTurn
<1>8. ASSUME NEW r \in Roles, NEW k \in R!Kinds, Dispatch(r, k) PROVE UNCHANGED <<drv, prompted>>
  BY <1>8 DEF Dispatch
<1>9. ASSUME NEW r \in Roles, Context(r) \/ ReplaceRole(r) PROVE UNCHANGED <<drv, prompted>>
  BY <1>9 DEF Context, ReplaceRole
<1>10. ASSUME NEW a \in AsgId, NEW k \in R!ReplyKinds, Reply(a, k) PROVE UNCHANGED <<drv, prompted>>
  BY <1>10 DEF Reply
<1>11. ASSUME NEW a \in AsgId, NEW s \in 1 .. MaxSeq, NEW safe \in BOOLEAN, Settle(a, s, safe)
       PROVE  UNCHANGED <<drv, prompted>>
  BY <1>11 DEF Settle
<1>12. CASE UNCHANGED vars
  BY <1>1, <1>12 DEF vars
<1>13. QED
  BY <1>1, <1>4, <1>5, <1>6, <1>7, <1>8, <1>9, <1>10, <1>11, <1>12 DEF Next, PassStep

PromptInv == TypeInv /\ PassesKnow /\ StartedWasPrompted

LEMMA PromptStep == PromptInv /\ [Next]_vars => PromptInv'
<1> SUFFICES ASSUME PromptInv, [Next]_vars PROVE PromptInv'
  OBVIOUS
<1>0. TypeInv /\ TypeInv' /\ AllTurn
  BY TypeInvStep, StepTurns DEF PromptInv
<1>1. prompted \subseteq prompted' /\ \A d \in Drivers : PassTurn(d)
  BY <1>0, PassTurns
<1>2. ASSUME NEW d \in Drivers
      PROVE  /\ drv'[d].pc \in {"executing", "reporting"} => outbox'[drv'[d].row].status # "none"
             /\ drv'[d].pc = "reporting" /\ drv'[d].outcome = "ok"
                  /\ outbox'[drv'[d].row].asg # NoAsg
                  => outbox'[drv'[d].row].asg \in prompted'
  <2>1. CASE /\ drv[d].pc \in {"executing", "reporting"} /\ drv'[d].row = drv[d].row
    <3>1. PICK o \in OutId : o = drv[d].row
      BY <1>0, <2>1 DEF TypeInv, PassRows
    <3>2. outbox[o].status # "none" /\ RowTurn(o)
      BY <1>0, <2>1, <3>1 DEF PromptInv, PassesKnow, AllTurn
    <3>3. outbox'[o].asg = outbox[o].asg /\ outbox'[o].status # "none"
      BY <3>2 DEF RowTurn, RowKept
    <3>4. QED
      BY <1>1, <2>1, <3>1, <3>3 DEF PassTurn, PromptInv, PassesKnow
  <2>2. CASE ~(drv[d].pc \in {"executing", "reporting"} /\ drv'[d].row = drv[d].row)
    BY <1>1, <2>2 DEF PassTurn
  <2>3. QED
    BY <2>1, <2>2
<1>3. PassesKnow'
  BY <1>2 DEF PassesKnow
<1>4. ASSUME NEW a \in AsgId, asg'[a].state \notin {"none", "queued"} PROVE a \in prompted'
  <2>1. CASE asg[a].state \notin {"none", "queued"}
    BY <1>1, <2>1 DEF PromptInv, StartedWasPrompted
  <2>2. CASE asg[a].state \in {"none", "queued"}
    <3>1. \E d \in Drivers : Reporting(d) /\ Succeeded(d) /\ outbox[drv[d].row].asg = a
      BY <1>0, <1>4, <2>2 DEF AllTurn, AsgTurn
    <3>2. a # NoAsg
      BY DEF AsgId, R!AsgId, NoAsg, R!NoAsg
    <3>3. QED
      BY <1>1, <3>1, <3>2 DEF Reporting, Succeeded, PromptInv, PassesKnow
  <2>3. QED
    BY <2>1, <2>2
<1>5. QED
  BY <1>0, <1>3, <1>4 DEF PromptInv, StartedWasPrompted

\* An assignment is worked on, answered or blocked only after an agent accepted
\* its prompt, however often the prompt was claimed, lost or sent again.
THEOREM StartedPrompted == Spec => []StartedWasPrompted
<1>1. Init => PromptInv
  <2>1. Init => PassesKnow /\ StartedWasPrompted
    BY DEF Init, R!Init, R!Absent, PassesKnow, StartedWasPrompted, Idle, AsgId
  <2>2. QED
    BY <2>1, TypeInvInit DEF PromptInv
<1>2. PromptInv => StartedWasPrompted
  BY DEF PromptInv
<1>3. QED
  BY <1>1, <1>2, PromptStep, PTL DEF Spec

-----------------------------------------------------------------------------
\* Why an accepted prompt may be refused.

\* Whatever delivers a settled assignment is closed: not one of its rows, but all.
\* With it a claimed row is known to belong to an open assignment.
AnsweredRowsClosed ==
    \A o \in OutId :
        outbox[o].asg # NoAsg /\ asg[outbox[o].asg].state \notin {"queued", "active"} =>
            outbox[o].status = "delivered"

\* The rows a transaction adds, one by one.
LEMMA PostFresh ==
    ASSUME TypeInv, NEW base, NEW rows, Len(rows) \in Nat, Post(base, rows),
           \A o \in OutId : base[o].asg = outbox[o].asg,
           NEW o \in OutId, outbox[o].status = "none", outbox'[o].asg # NoAsg
    PROVE  \E i \in 1 .. Len(rows) : outbox'[o] = rows[i]
<1>1. nextOut \in Nat /\ o \in Nat /\ outbox[o].asg = NoAsg
  <2>1. outbox[o] \in Row \cup {NoRow} /\ nextOut \in Nat /\ o \in Nat
    BY StoreBounds DEF TypeInv, TypeOK, OutId
  <2>2. outbox[o] = NoRow
    BY <2>1 DEF Row
  <2>3. QED
    BY <2>1, <2>2 DEF NoRow
<1>2. CASE o \in nextOut .. nextOut + Len(rows) - 1
  <2>1. o - nextOut + 1 \in 1 .. Len(rows)
    BY <1>1, <1>2
  <2>2. outbox'[o] = rows[o - nextOut + 1]
    BY <1>2 DEF Post
  <2>3. QED
    BY <2>1, <2>2
<1>3. CASE o \notin nextOut .. nextOut + Len(rows) - 1
  BY <1>1, <1>3 DEF Post
<1>4. QED
  BY <1>2, <1>3

\* A row that is new and delivers anything delivers the assignment queued with it.
LEMMA FreshRows ==
    ASSUME TypeInv, TypeInv', [Next]_vars,
           NEW o \in OutId, outbox[o].status = "none", outbox'[o].asg # NoAsg
    PROVE  asg'[outbox'[o].asg].state = "queued"
<1>0. /\ asg \in [AsgId -> R!Assignment \cup {R!Absent}]
      /\ \A q \in OutId : outbox[q].asg = outbox[q].asg
  BY DEF TypeInv, TypeOK, R!TypeOK, AsgId, R!AsgId
<1>1. ASSUME nextOut' = nextOut PROVE FALSE
  <2>1. outbox'[o].status = "none" /\ outbox'[o] \in Row \cup {NoRow}
    BY <1>1 DEF TypeInv, TypeOK
  <2>2. outbox'[o] = NoRow
    BY <2>1 DEF Row
  <2>3. QED
    BY <2>2 DEF NoRow
<1>2. ASSUME NEW base, NEW rows, Len(rows) \in Nat, Post(base, rows),
             \A q \in OutId : base[q].asg = outbox[q].asg,
             \A i \in 1 .. Len(rows) : rows[i].asg # NoAsg => asg'[rows[i].asg].state = "queued"
      PROVE  asg'[outbox'[o].asg].state = "queued"
  <2>1. PICK i \in 1 .. Len(rows) : outbox'[o] = rows[i]
    BY <1>2, PostFresh
  <2>2. QED
    BY <1>2, <2>1
<1>3. ASSUME NEW r \in Roles, NEW k \in R!Kinds, Dispatch(r, k)
      PROVE  asg'[outbox'[o].asg].state = "queued"
  <2> DEFINE rows == <<NewRow(r, nextAsg)>>
  <2>1. Post(outbox, rows) /\ Len(rows) = 1 /\ rows[1].asg = nextAsg
    BY <1>3, NewRowFields DEF Dispatch
  <2>2. asg'[nextAsg].state = "queued"
    BY <1>0, <1>3 DEF Dispatch, R!NewAssignment
  <2> HIDE DEF rows
  <2>3. QED
    BY <1>0, <1>2, <2>1, <2>2
<1>4. ASSUME NEW r \in Roles, Context(r) PROVE asg'[outbox'[o].asg].state = "queued"
  <2> DEFINE rows == <<NewRow(r, NoAsg)>>
  <2>1. Post(outbox, rows) /\ Len(rows) = 1 /\ rows[1].asg = NoAsg
    BY <1>4, NewRowFields DEF Context
  <2> HIDE DEF rows
  <2>2. QED
    BY <1>0, <1>2, <2>1
<1>5. ASSUME NEW a \in AsgId, NEW k \in R!ReplyKinds, Reply(a, k)
      PROVE  asg'[outbox'[o].asg].state = "queued"
  <2>0. \A q \in OutId : DeliveriesClosed(a)[q].asg = outbox[q].asg
    BY ClosedQuiet
  <2>1. CASE ReplyCompleted(a)
    <3> DEFINE rows == <<NewRow("pm", NoAsg), NewRow("reviewer", nextAsg)>>
    <3>1. /\ Post(DeliveriesClosed(a), rows) /\ Len(rows) = 2
          /\ rows[1].asg = NoAsg /\ rows[2].asg = nextAsg
      BY <2>1, NewRowFields DEF ReplyCompleted
    <3>2. asg'[nextAsg].state = "queued"
      BY <1>0, <2>1 DEF ReplyCompleted, R!NewAssignment
    <3> HIDE DEF rows
    <3>3. QED
      BY <1>2, <2>0, <3>1, <3>2
  <2>2. CASE ReplyRejected(a)
    <3> DEFINE rows == <<NewRow("pm", NoAsg), NewRow("worker", nextAsg),
                         NewRow("pm", NoAsg), NewRow("worker", NoAsg)>>
    <3>1. /\ Post(DeliveriesClosed(a), rows) /\ Len(rows) = 4
          /\ rows[1].asg = NoAsg /\ rows[2].asg = nextAsg
          /\ rows[3].asg = NoAsg /\ rows[4].asg = NoAsg
      BY <2>2, NewRowFields DEF ReplyRejected
    <3>2. asg'[nextAsg].state = "queued"
      BY <1>0, <2>2 DEF ReplyRejected, R!NewAssignment
    <3> HIDE DEF rows
    <3>3. QED
      BY <1>2, <2>0, <3>1, <3>2
  <2>3. CASE ReplyVerdict(a, k)
    <3> DEFINE rows == <<NewRow("pm", NoAsg), NewRow("pm", NoAsg), NewRow("worker", NoAsg)>>
    <3>1. /\ Post(DeliveriesClosed(a), rows) /\ Len(rows) = 3
          /\ rows[1].asg = NoAsg /\ rows[2].asg = NoAsg /\ rows[3].asg = NoAsg
      BY <2>3, NewRowFields DEF ReplyVerdict
    <3> HIDE DEF rows
    <3>2. QED
      BY <1>2, <2>0, <3>1
  <2>4. CASE ReplyReport(a, k)
    <3> DEFINE rows == <<NewRow("pm", NoAsg)>>
    <3>1. Post(DeliveriesClosed(a), rows) /\ Len(rows) = 1 /\ rows[1].asg = NoAsg
      BY <2>4, NewRowFields DEF ReplyReport
    <3> HIDE DEF rows
    <3>2. QED
      BY <1>2, <2>0, <3>1
  <2>5. QED
    BY <1>5, <2>1, <2>2, <2>3, <2>4 DEF Reply
<1>6. ASSUME NEW a \in AsgId, NEW s \in 1 .. MaxSeq, NEW safe \in BOOLEAN, Settle(a, s, safe)
      PROVE  asg'[outbox'[o].asg].state = "queued"
  <2>1. CASE SettleBlocked(a, safe)
    <3> DEFINE rows == <<NewRow("pm", NoAsg)>>
    <3>1. Post(outbox, rows) /\ Len(rows) = 1 /\ rows[1].asg = NoAsg
      BY <2>1, NewRowFields DEF SettleBlocked
    <3> HIDE DEF rows
    <3>2. QED
      BY <1>0, <1>2, <3>1
  <2>2. CASE SettleIgnored(a) \/ SettleResumed(a, safe)
    BY <1>1, <2>2 DEF SettleIgnored, SettleResumed
  <2>3. QED
    BY <1>6, <2>1, <2>2 DEF Settle
<1>7. ASSUME NEW d \in Drivers, PassStep(d) \/ Crash(d) PROVE nextOut' = nextOut
  BY <1>7 DEF PassStep, Crash, BeginPass, ClaimNothing, Claim, EndPass, Execute,
              ReportDelivered, ReportDeferred, ReportRefused
<1>8. CASE Tick \/ UNCHANGED vars \/ \E r \in Roles : ReplaceRole(r)
  BY <1>1, <1>8 DEF Tick, vars, ReplaceRole
<1>9. QED
  BY <1>1, <1>3, <1>4, <1>5, <1>6, <1>7, <1>8 DEF Next

LEMMA AnsweredStep ==
    ASSUME ExclusiveInv, TypeInv', [Next]_vars, AnsweredRowsClosed
    PROVE  AnsweredRowsClosed'
<1>0. TypeInv /\ AllTurn
  BY StepTurns DEF ExclusiveInv
<1>1. SUFFICES ASSUME NEW o \in OutId, outbox'[o].asg # NoAsg,
                      asg'[outbox'[o].asg].state \notin {"queued", "active"}
               PROVE  outbox'[o].status = "delivered"
  BY DEF AnsweredRowsClosed
<1>2. outbox[o].status # "none"
  BY <1>0, <1>1, FreshRows
<1>3. PICK a \in AsgId : a = outbox[o].asg /\ a = outbox'[o].asg
  BY <1>0, <1>1, <1>2 DEF AllTurn, RowTurn, RowKept, TypeInv, TypeOK, Row, NoRow
<1>4. RowTurn(o) /\ AsgTurn(a) /\ asg[a].state # "none" /\ outbox[o].role = asg[a].role
  BY <1>0, <1>1, <1>3 DEF AllTurn, ExclusiveInv, DeliveryRows
<1>5. CASE asg[a].state \in {"queued", "active"}
  <2>1. o \in Deliveries(a)
    BY <1>2, <1>3 DEF Deliveries
  <2>2. QED
    BY <1>1, <1>3, <1>4, <1>5, <2>1 DEF AsgTurn
<1>6. CASE asg[a].state \notin {"queued", "active"}
  <2>1. outbox[o].status = "delivered"
    BY <1>1, <1>3, <1>6 DEF AnsweredRowsClosed
  <2>2. Turned(o)
    BY <1>2, <1>4 DEF RowTurn
  <2>3. QED
    BY <1>3, <1>6, <2>1, <2>2 DEF Turned, Expired
<1>7. QED
  BY <1>5, <1>6

\* A prompt that an agent accepted and whose claim still stands is refused for one
\* reason only, that its assignment is active already: the capacity its role had
\* when the row was claimed is still free, and an answer would have closed the row.
THEOREM ResumptionsOnly == Spec => []OnlyResumptionsAreRefused
<1>1. Init => ExclusiveInv /\ AnsweredRowsClosed
  <2>1. Init => DeliveryRows /\ DeliveryExclusive /\ AnsweredRowsClosed
    BY DEF Init, DeliveryRows, DeliveryExclusive, InFlight, AnsweredRowsClosed, NoRow
  <2>2. QED
    BY <2>1, TypeInvInit DEF ExclusiveInv
<1>2. ExclusiveInv => TypeInv
  BY DEF ExclusiveInv
<1>3. ExclusiveInv /\ TypeInv' /\ [Next]_vars /\ AnsweredRowsClosed => AnsweredRowsClosed'
  BY AnsweredStep
<1>4. ASSUME ExclusiveInv, AnsweredRowsClosed PROVE OnlyResumptionsAreRefused
  <2>1. SUFFICES ASSUME NEW d \in Drivers, NEW a, a = outbox[drv[d].row].asg,
                        Reporting(d), a # NoAsg
                 PROVE  Activatable(a) \/ asg[a].state = "active"
    BY DEF OnlyResumptionsAreRefused
  <2>2. PICK o \in OutId : o = drv[d].row
    BY <1>4, <2>1 DEF Reporting, ExclusiveInv, TypeInv, PassRows
  <2>3. outbox[o].status = "sending" /\ outbox[o].asg = a
    BY <2>1, <2>2 DEF Reporting, Authorized
  <2>4. asg[a].state \in {"queued", "active"}
    BY <1>4, <2>1, <2>2, <2>3 DEF AnsweredRowsClosed
  <2>5. ASSUME asg[a].state = "queued" PROVE ~R!ActiveElsewhere(a)
    BY <1>4, <2>1, <2>2, <2>3, <2>5 DEF ExclusiveInv, DeliveryExclusive, InFlight
  <2>6. QED
    BY <2>4, <2>5 DEF Activatable
<1>5. QED
  BY <1>1, <1>2, <1>3, <1>4, ExclusiveStep, TypeInvInit, TypeInvStep, PTL DEF Spec

-----------------------------------------------------------------------------
\* A claim that is lost stays lost.

\* The generation a pass claimed for is one its role has reached: it may be
\* replaced under the pass, and no later generation is ever the claimed one again.
PassGenerations ==
    \A d \in Drivers : Carrying(d) =>
        /\ outbox[drv[d].row].status # "none"
        /\ drv[d].gen <= gen[outbox[drv[d].row].role]

\* What a step does to a pass that carries a prompt, or starts to.
CarryTurn(d) ==
    Carrying(d)' =>
        \/ Carrying(d) /\ drv'[d].row = drv[d].row /\ drv'[d].gen = drv[d].gen
        \/ /\ drv'[d].row \in OutId /\ outbox'[drv'[d].row].status # "none"
           /\ drv[d].pc = "claiming" /\ gen' = gen
           /\ drv'[d].gen = gen[outbox'[drv'[d].row].role]

LEMMA CarryTurns == TypeInv /\ [Next]_vars => \A d \in Drivers : CarryTurn(d)
<1> SUFFICES ASSUME TypeInv, [Next]_vars PROVE \A d \in Drivers : CarryTurn(d)
  OBVIOUS
<1>0. drv \in [Drivers -> Pass] /\ \A d \in Drivers : drv[d] \in Pass
  BY DEF TypeInv, TypeOK
<1>1. ASSUME UNCHANGED drv PROVE \A d \in Drivers : CarryTurn(d)
  BY <1>1 DEF CarryTurn, Carrying
<1>2. ASSUME NEW d \in Drivers, NEW pass, drv' = [drv EXCEPT ![d] = pass],
             pass.pc \notin {"executing", "reporting"}
      PROVE  \A c \in Drivers : CarryTurn(c)
  BY <1>0, <1>2 DEF CarryTurn, Carrying
<1>3. Idle.pc = "idle" /\ [Idle EXCEPT !.pc = "claiming"].pc = "claiming"
      /\ \A g : [Idle EXCEPT !.pc = "claiming", !.age = g].pc = "claiming"
  BY DEF Idle
<1>4. ASSUME NEW d \in Drivers, BeginPass(d) \/ ClaimNothing(d) \/ EndPass(d) \/ ReportDelivered(d)
                                  \/ ReportDeferred(d) \/ ReportRefused(d) \/ Crash(d)
      PROVE  \A c \in Drivers : CarryTurn(c)
  <2>1. \E pass : drv' = [drv EXCEPT ![d] = pass] /\ pass.pc \notin {"executing", "reporting"}
    BY <1>3, <1>4 DEF BeginPass, ClaimNothing, EndPass, ReportDelivered, ReportDeferred,
                      ReportRefused, Crash, NextClaim
  <2>2. QED
    BY <1>2, <2>1
<1>5. ASSUME NEW d \in Drivers, Claim(d) PROVE \A c \in Drivers : CarryTurn(c)
  <2>1. PICK o \in OutId :
          /\ outbox' = [Reclaimed(d) EXCEPT ![o].status = "sending", ![o].owner = d,
                                            ![o].age = drv[d].age, ![o].attempts = @ + 1]
          /\ drv' = [drv EXCEPT ![d] = IF gen[outbox[o].role] = 0 THEN Idle
                                       ELSE [@ EXCEPT !.pc = "executing", !.row = o,
                                                      !.gen = gen[outbox[o].role]]]
          /\ drv[d].pc = "claiming" /\ gen' = gen
          /\ Reclaimed(d)[o].status \in {"queued", "retry"}
    BY <1>5 DEF Claim, NextToClaim, Claimable
  <2>2. Reclaimed(d)[o] \in Row /\ Reclaimed(d) \in [OutId -> Row \cup {NoRow}]
    <3>1. OutboxTyped(Reclaimed(d), nextOut)
      BY ReclaimedType
    <3>2. QED
      BY <2>1, <3>1, ExistingRow DEF OutboxTyped
  <2>3. outbox'[o].status = "sending" /\ outbox'[o].role = outbox[o].role
    <3>1. outbox'[o].status = "sending" /\ outbox'[o].role = Reclaimed(d)[o].role
      BY <2>1, <2>2 DEF Row
    <3>2. QED
      BY <3>1, ReclaimedQuiet
  <2>4. \/ drv'[d].pc = "idle"
        \/ drv'[d].pc = "executing" /\ drv'[d].row = o /\ drv'[d].gen = gen[outbox[o].role]
    <3>1. drv'[d] = IF gen[outbox[o].role] = 0 THEN Idle
                    ELSE [drv[d] EXCEPT !.pc = "executing", !.row = o,
                                        !.gen = gen[outbox[o].role]]
      BY <1>0, <2>1
    <3>2. \A g : LET new == [drv[d] EXCEPT !.pc = "executing", !.row = o, !.gen = g]
                 IN  new.pc = "executing" /\ new.row = o /\ new.gen = g
      BY <1>0 DEF Pass
    <3>3. QED
      BY <1>3, <3>1, <3>2
  <2>5. \A c \in Drivers \ {d} : drv'[c] = drv[c]
    BY <1>0, <2>1
  <2>6. CarryTurn(d)
    BY <2>1, <2>3, <2>4 DEF CarryTurn, Carrying
  <2>7. \A c \in Drivers \ {d} : CarryTurn(c)
    BY <2>5 DEF CarryTurn, Carrying
  <2>8. QED
    BY <2>6, <2>7
<1>6. ASSUME NEW d \in Drivers, NEW out \in {"ok", "pending", "retry"}, Execute(d, out)
      PROVE  \A c \in Drivers : CarryTurn(c)
  <2>1. drv[d].pc = "executing" /\ drv' = [drv EXCEPT ![d].pc = "reporting", ![d].outcome = out]
    BY <1>6 DEF Execute
  <2>2. /\ drv'[d].row = drv[d].row /\ drv'[d].gen = drv[d].gen
        /\ \A c \in Drivers \ {d} : drv'[c] = drv[c]
    BY <1>0, <2>1 DEF Pass
  <2>3. QED
    BY <2>1, <2>2 DEF CarryTurn, Carrying
<1>7. CASE Tick
  <2>1. \A d \in Drivers : drv'[d] = drv[d] \/ drv'[d] = [drv[d] EXCEPT !.age = drv[d].age + 1]
    BY <1>7 DEF Tick
  <2>2. \A d \in Drivers : /\ drv'[d].pc = drv[d].pc /\ drv'[d].row = drv[d].row
                           /\ drv'[d].gen = drv[d].gen
    BY <1>0, <2>1 DEF Pass
  <2>3. QED
    BY <2>2 DEF CarryTurn, Carrying
<1>8. ASSUME NEW r \in Roles, NEW k \in R!Kinds, Dispatch(r, k) PROVE UNCHANGED drv
  BY <1>8 DEF Dispatch
<1>9. ASSUME NEW r \in Roles, Context(r) \/ ReplaceRole(r) PROVE UNCHANGED drv
  BY <1>9 DEF Context, ReplaceRole
<1>10. ASSUME NEW a \in AsgId, NEW k \in R!ReplyKinds, Reply(a, k) PROVE UNCHANGED drv
  BY <1>10 DEF Reply
<1>11. ASSUME NEW a \in AsgId, NEW s \in 1 .. MaxSeq, NEW safe \in BOOLEAN, Settle(a, s, safe)
       PROVE  UNCHANGED drv
  BY <1>11 DEF Settle
<1>12. CASE UNCHANGED vars
  BY <1>1, <1>12 DEF vars
<1>13. QED
  BY <1>1, <1>4, <1>5, <1>6, <1>7, <1>8, <1>9, <1>10, <1>11, <1>12 DEF Next, PassStep

\* A role's generation never falls.
LEMMA GenerationsGrow ==
    ASSUME TypeInv, [Next]_vars, NEW r \in Roles
    PROVE  gen[r] <= gen'[r]
<1>0. gen \in [Roles -> 0 .. MaxGen] /\ gen[r] \in Nat
  BY StoreBounds DEF TypeInv, TypeOK
<1>1. ASSUME NEW targets, GiveGeneration(targets) PROVE gen[r] <= gen'[r]
  BY <1>0, <1>1 DEF GiveGeneration
<1>2. ASSUME UNCHANGED gen PROVE gen[r] <= gen'[r]
  BY <1>0, <1>2
<1>3. ASSUME NEW t \in Roles, NEW k \in R!Kinds, Dispatch(t, k) PROVE gen[r] <= gen'[r]
  BY <1>1, <1>3 DEF Dispatch
<1>4. ASSUME NEW t \in Roles, Context(t) PROVE gen[r] <= gen'[r]
  BY <1>1, <1>4 DEF Context
<1>5. ASSUME NEW t \in Roles, ReplaceRole(t) PROVE gen[r] <= gen'[r]
  BY <1>0, <1>5 DEF ReplaceRole
<1>6. ASSUME NEW a \in AsgId, NEW k \in R!ReplyKinds, Reply(a, k) PROVE gen[r] <= gen'[r]
  <2>1. \E targets : GiveGeneration(targets)
    BY <1>6 DEF Reply, ReplyCompleted, ReplyRejected, ReplyVerdict, ReplyReport
  <2>2. QED
    BY <1>1, <2>1
<1>7. ASSUME NEW a \in AsgId, NEW s \in 1 .. MaxSeq, NEW safe \in BOOLEAN, Settle(a, s, safe)
      PROVE  UNCHANGED gen
  BY <1>7 DEF Settle
<1>8. ASSUME NEW d \in Drivers, PassStep(d) \/ Crash(d) PROVE UNCHANGED gen
  BY <1>8 DEF PassStep, Crash, BeginPass, ClaimNothing, Claim, EndPass, Execute,
              ReportDelivered, ReportDeferred, ReportRefused
<1>9. CASE Tick \/ UNCHANGED vars
  BY <1>2, <1>9 DEF Tick, vars
<1>10. QED
  BY <1>2, <1>3, <1>4, <1>5, <1>6, <1>7, <1>8, <1>9 DEF Next

\* Only its own claim gives a driver a row it does not hold.
LEMMA OwnersClaim ==
    ASSUME TypeInv, [Next]_vars, NEW o \in OutId, outbox[o].status # "none",
           NEW d \in Drivers, outbox'[o].status = "sending", outbox'[o].owner = d
    PROVE  (outbox[o].status = "sending" /\ outbox[o].owner = d) \/ drv[d].pc = "claiming"
<1>0. /\ outbox[o] \in Row /\ outbox \in [OutId -> Row \cup {NoRow}]
      /\ d # Nobody
  BY NobodyAssumption DEF TypeInv, TypeOK, NoRow
<1>1. ASSUME outbox'[o].status = outbox[o].status, outbox'[o].owner = outbox[o].owner
      PROVE  outbox[o].status = "sending" /\ outbox[o].owner = d
  BY <1>1
<1>2. ASSUME NEW base, NEW rows, Len(rows) \in Nat, Post(base, rows) PROVE outbox'[o] = base[o]
  BY <1>2, PostKeeps
<1>3. ASSUME NEW r \in Roles, NEW k \in R!Kinds, Dispatch(r, k) PROVE outbox'[o] = outbox[o]
  <2> DEFINE rows == <<NewRow(r, nextAsg)>>
  <2>1. Post(outbox, rows) /\ Len(rows) \in Nat
    BY <1>3 DEF Dispatch
  <2> HIDE DEF rows
  <2>2. QED
    BY <1>2, <2>1
<1>4. ASSUME NEW r \in Roles, Context(r) PROVE outbox'[o] = outbox[o]
  <2> DEFINE rows == <<NewRow(r, NoAsg)>>
  <2>1. Post(outbox, rows) /\ Len(rows) \in Nat
    BY <1>4 DEF Context
  <2> HIDE DEF rows
  <2>2. QED
    BY <1>2, <2>1
<1>5. ASSUME NEW a \in AsgId, NEW k \in R!ReplyKinds, Reply(a, k)
      PROVE  outbox[o].status = "sending" /\ outbox[o].owner = d
  <2>1. PICK rows : Len(rows) \in Nat /\ Post(DeliveriesClosed(a), rows)
    <3>1. /\ Len(<<NewRow("pm", NoAsg)>>) \in Nat
          /\ Len(<<NewRow("pm", NoAsg), NewRow("reviewer", nextAsg)>>) \in Nat
          /\ Len(<<NewRow("pm", NoAsg), NewRow("pm", NoAsg), NewRow("worker", NoAsg)>>) \in Nat
          /\ Len(<<NewRow("pm", NoAsg), NewRow("worker", nextAsg),
                   NewRow("pm", NoAsg), NewRow("worker", NoAsg)>>) \in Nat
      OBVIOUS
    <3>2. QED
      BY <1>5, <3>1 DEF Reply, ReplyCompleted, ReplyRejected, ReplyVerdict, ReplyReport
  <2>2. outbox'[o] = DeliveriesClosed(a)[o]
    BY <1>2, <2>1
  <2>3. outbox'[o] = outbox[o]
          \/ outbox'[o] = [outbox[o] EXCEPT !.status = "delivered", !.owner = Nobody, !.age = Long]
    BY <2>2 DEF DeliveriesClosed
  <2>4. QED
    BY <1>0, <2>3 DEF Row
<1>6. ASSUME NEW a \in AsgId, NEW s \in 1 .. MaxSeq, NEW safe \in BOOLEAN, Settle(a, s, safe)
      PROVE  outbox[o].status = "sending" /\ outbox[o].owner = d
  <2>1. CASE SettleBlocked(a, safe)
    <3> DEFINE rows == <<NewRow("pm", NoAsg)>>
    <3>1. Post(outbox, rows) /\ Len(rows) \in Nat
      BY <2>1 DEF SettleBlocked
    <3> HIDE DEF rows
    <3>2. QED
      BY <1>1, <1>2, <3>1
  <2>2. CASE SettleIgnored(a)
    BY <1>1, <2>2 DEF SettleIgnored
  <2>3. CASE SettleResumed(a, safe)
    <3>1. PICK q \in OutId : outbox' = [outbox EXCEPT ![q].status = "retry", ![q].owner = Nobody,
                                                     ![q].age = Long]
      BY <2>3 DEF SettleResumed, Deliveries
    <3>2. outbox'[o] = outbox[o]
            \/ outbox'[o] = [outbox[o] EXCEPT !.status = "retry", !.owner = Nobody, !.age = Long]
      BY <1>0, <3>1
    <3>3. QED
      BY <1>0, <3>2 DEF Row
  <2>4. QED
    BY <1>6, <2>1, <2>2, <2>3 DEF Settle
<1>7. ASSUME NEW c \in Drivers
      PROVE  Reclaimed(c)[o] = outbox[o] \/ Reclaimed(c)[o].status = "retry"
  BY <1>0 DEF Reclaimed, Row
<1>8. ASSUME NEW c \in Drivers, ClaimNothing(c)
      PROVE  outbox[o].status = "sending" /\ outbox[o].owner = d
  BY <1>7, <1>8 DEF ClaimNothing
<1>9. ASSUME NEW c \in Drivers, Claim(c)
      PROVE  (outbox[o].status = "sending" /\ outbox[o].owner = d) \/ drv[d].pc = "claiming"
  <2>1. PICK q \in OutId :
          /\ outbox' = [Reclaimed(c) EXCEPT ![q].status = "sending", ![q].owner = c,
                                            ![q].age = drv[c].age, ![q].attempts = @ + 1]
          /\ drv[c].pc = "claiming"
    BY <1>9 DEF Claim, NextToClaim
  <2>2. Reclaimed(c) \in [OutId -> Row \cup {NoRow}] /\ Reclaimed(c)[o] \in Row
    <3>1. OutboxTyped(Reclaimed(c), nextOut)
      BY ReclaimedType
    <3>2. Reclaimed(c)[o].status # "none"
      BY <1>7
    <3>3. QED
      BY <3>1, <3>2, ExistingRow DEF OutboxTyped
  <2>3. CASE q = o
    <3>1. outbox'[o].owner = c
      BY <2>1, <2>2, <2>3 DEF Row
    <3>2. QED
      BY <2>1, <3>1
  <2>4. CASE q # o
    <3>1. outbox'[o] = Reclaimed(c)[o]
      BY <2>1, <2>2, <2>4
    <3>2. QED
      BY <1>7, <3>1
  <2>5. QED
    BY <2>3, <2>4
<1>10. ASSUME NEW c \in Drivers, ReportDelivered(c) \/ ReportDeferred(c)
       PROVE  outbox[o].status = "sending" /\ outbox[o].owner = d
  <2>1. PICK q \in OutId : q = drv[c].row
    BY <1>10 DEF ReportDelivered, ReportDeferred, Reporting, TypeInv, PassRows
  <2>2. \/ outbox' = [outbox EXCEPT ![q].status = "delivered", ![q].owner = Nobody, ![q].age = Long]
        \/ outbox' = [outbox EXCEPT ![q] = Parked(outbox[q], drv[c].outcome)]
    BY <1>10, <2>1 DEF ReportDelivered, ReportDeferred
  <2>3. \/ outbox'[o] = outbox[o]
        \/ outbox'[o] = [outbox[o] EXCEPT !.status = "delivered", !.owner = Nobody, !.age = Long]
        \/ outbox'[o] = Parked(outbox[o], drv[c].outcome)
    BY <1>0, <2>2
  <2>4. QED
    BY <1>0, <2>3 DEF Row, Parked
<1>11. CASE Tick
  <2>1. outbox'[o] = outbox[o] \/ outbox'[o] = [outbox[o] EXCEPT !.age = outbox[o].age + 1]
    BY <1>11 DEF Tick
  <2>2. QED
    BY <1>0, <2>1 DEF Row
<1>12. ASSUME NEW c \in Drivers,
              BeginPass(c) \/ EndPass(c) \/ ReportRefused(c) \/ Crash(c)
                \/ \E out \in {"ok", "pending", "retry"} : Execute(c, out)
       PROVE  outbox' = outbox
  BY <1>12 DEF BeginPass, EndPass, ReportRefused, Crash, Execute
<1>13. ASSUME NEW r \in Roles, ReplaceRole(r) PROVE outbox' = outbox
  BY <1>13 DEF ReplaceRole
<1>14. CASE UNCHANGED vars
  BY <1>1, <1>14 DEF vars
<1>15. QED
  BY <1>1, <1>3, <1>4, <1>5, <1>6, <1>8, <1>9, <1>10, <1>11, <1>12, <1>13, <1>14
     DEF Next, PassStep

\* The step of a pass that keeps carrying what it carried.
LEMMA PassGenerationsStep ==
    ASSUME TypeInv, [Next]_vars, PassGenerations
    PROVE  /\ PassGenerations'
           /\ \A d \in Drivers : Carrying(d) /\ ~Authorized(d) /\ Carrying(d)' => ~Authorized(d)'
<1>0. /\ \A d \in Drivers : CarryTurn(d)
      /\ \A o \in OutId : RowTurn(o)
      /\ \A d \in Drivers : Carrying(d) => drv[d].row \in OutId
  BY CarryTurns, StepTurns DEF AllTurn, TypeInv, PassRows, Carrying
<1>1. ASSUME NEW d \in Drivers, Carrying(d), NEW o \in OutId, o = drv[d].row
      PROVE  /\ outbox[o].status # "none" /\ outbox'[o].status # "none"
             /\ outbox'[o].role = outbox[o].role /\ outbox[o].role \in Roles
             /\ gen[outbox[o].role] <= gen'[outbox[o].role]
             /\ drv[d].gen <= gen[outbox[o].role]
             /\ drv[d].gen \in Int /\ gen[outbox[o].role] \in Int /\ gen'[outbox[o].role] \in Int
  <2>1. outbox[o].status # "none" /\ drv[d].gen <= gen[outbox[o].role]
    BY <1>1 DEF PassGenerations
  <2>2. RowKept(o) /\ outbox'[o].status # "none"
    BY <1>0, <2>1 DEF RowTurn
  <2>3. outbox[o].role \in Roles /\ drv[d].gen \in Int
    BY <2>1 DEF TypeInv, TypeOK, Row, NoRow, Pass
  <2>4. gen[outbox[o].role] \in Int /\ gen'[outbox[o].role] \in Int
    <3>1. TypeInv'
      BY TypeInvStep
    <3>2. QED
      BY <2>3, <3>1 DEF TypeInv, TypeOK
  <2>5. QED
    BY <2>1, <2>2, <2>3, <2>4, GenerationsGrow DEF RowKept
<1>2. ASSUME NEW d \in Drivers, Carrying(d)'
      PROVE  /\ outbox'[drv'[d].row].status # "none"
             /\ drv'[d].gen <= gen'[outbox'[drv'[d].row].role]
  <2>1. CASE Carrying(d) /\ drv'[d].row = drv[d].row /\ drv'[d].gen = drv[d].gen
    <3>1. PICK o \in OutId : o = drv[d].row
      BY <1>0, <2>1
    <3>2. QED
      BY <1>1, <2>1, <3>1
  <2>2. ASSUME drv'[d].row \in OutId, outbox'[drv'[d].row].status # "none", gen' = gen,
               drv'[d].gen = gen[outbox'[drv'[d].row].role]
        PROVE  drv'[d].gen <= gen'[outbox'[drv'[d].row].role]
    <3>1. TypeInv'
      BY TypeInvStep
    <3>2. drv'[d].gen \in Int
      BY <3>1 DEF TypeInv, TypeOK, Pass
    <3>3. QED
      BY <2>2, <3>2
  <2>3. QED
    BY <1>0, <1>2, <2>1, <2>2 DEF CarryTurn
<1>3. ASSUME NEW d \in Drivers, Carrying(d), ~Authorized(d), Carrying(d)', Authorized(d)'
      PROVE  FALSE
  <2>1. drv'[d].row = drv[d].row /\ drv'[d].gen = drv[d].gen
    BY <1>0, <1>3 DEF CarryTurn, Carrying
  <2>2. PICK o \in OutId : o = drv[d].row
    BY <1>0, <1>3
  <2>3. outbox'[o].status = "sending" /\ outbox'[o].owner = d /\ gen'[outbox'[o].role] = drv[d].gen
    BY <1>3, <2>1, <2>2 DEF Authorized
  <2>4. outbox[o].status = "sending" /\ outbox[o].owner = d
    BY <1>1, <1>3, <2>2, <2>3, OwnersClaim DEF Carrying
  <2>5. gen[outbox[o].role] = drv[d].gen
    BY <1>1, <1>3, <2>2, <2>3
  <2>6. QED
    BY <1>3, <2>2, <2>4, <2>5 DEF Authorized
<1>4. QED
  BY <1>2, <1>3 DEF PassGenerations

\* A pass whose claim was taken over, closed by a reply or outdated by a replacement
\* is never let back in, whatever happens to its row while its prompt is under way.
THEOREM LostClaims == Spec => LostClaimsStayLost
<1>1. Init => PassGenerations
  BY DEF Init, Idle, PassGenerations, Carrying
<1>2. TypeInv /\ PassGenerations /\ [Next]_vars => PassGenerations'
  BY PassGenerationsStep
<1>3. TypeInv /\ PassGenerations /\ [Next]_vars
        => [\A d \in Drivers :
              Carrying(d) /\ ~Authorized(d) /\ Carrying(d)' => ~Authorized(d)']_vars
  BY PassGenerationsStep
<1>4. QED
  BY <1>1, <1>2, <1>3, TypeInvInit, TypeInvStep, PTL DEF Spec, LostClaimsStayLost

-----------------------------------------------------------------------------
\* What the reducer promises, the durable tables keep: the theorems about the
\* reducer (instance RP of their module) hold of the store, by the refinement.

RP == INSTANCE MissionReducer_proofs

\* The two instances of the reducer define the same life cycle.
LEMMA SameSets ==
    /\ R!rvars = RP!rvars /\ R!AsgId = RP!AsgId /\ R!Owners = RP!Owners
    /\ R!Kinds = RP!Kinds /\ R!ReplyKinds = RP!ReplyKinds /\ R!NoAsg = RP!NoAsg
    /\ R!Known = RP!Known /\ R!Open = RP!Open /\ R!Terminal = RP!Terminal
BY DEF R!rvars, RP!rvars, R!AsgId, RP!AsgId, R!Owners, RP!Owners, R!Roles, RP!Roles,
       R!Kinds, RP!Kinds, R!ReplyKinds, RP!ReplyKinds, R!NoAsg, RP!NoAsg, R!Known, RP!Known,
       R!Open, RP!Open, R!Terminal, RP!Terminal

LEMMA SameOperators ==
    /\ \A r, k, p, n : R!NewAssignment(r, k, p, n) = RP!NewAssignment(r, k, p, n)
    /\ \A a : R!Root(a) = RP!Root(a)
    /\ \A a : R!Chain(a) = RP!Chain(a)
    /\ \A k : R!SettledState(k) = RP!SettledState(k)
    /\ \A a, k : R!Settled(a, k) = RP!Settled(a, k)
    /\ \A a, k : R!FollowUps(a, k) = RP!FollowUps(a, k)
<1>1. \A r, k, p, n : R!NewAssignment(r, k, p, n) = RP!NewAssignment(r, k, p, n)
  BY DEF R!NewAssignment, RP!NewAssignment
<1>2. \A a : R!Root(a) = RP!Root(a)
  BY SameSets DEF R!Root, RP!Root
<1>3. \A a : R!Chain(a) = RP!Chain(a)
  BY <1>2, SameSets DEF R!Chain, RP!Chain
<1>4. \A k : R!SettledState(k) = RP!SettledState(k)
  BY DEF R!SettledState, RP!SettledState
<1>5. \A a, k : R!Settled(a, k) = RP!Settled(a, k)
  BY <1>4 DEF R!Settled, RP!Settled
<1>6. \A a, k : R!FollowUps(a, k) = RP!FollowUps(a, k)
  BY <1>1, <1>2 DEF R!FollowUps, RP!FollowUps
<1>7. QED
  BY <1>1, <1>2, <1>3, <1>4, <1>5, <1>6

LEMMA SameNext == R!Next <=> RP!Next
<1>1. \A r, k : R!Dispatch(r, k) <=> RP!Dispatch(r, k)
  BY SameSets, SameOperators
     DEF R!Dispatch, RP!Dispatch, R!AssignmentKindAllowed, RP!AssignmentKindAllowed,
         R!RoleCapacityHeld, RP!RoleCapacityHeld
<1>2. \A a : R!Activate(a) <=> RP!Activate(a)
  BY SameSets DEF R!Activate, RP!Activate, R!ActiveElsewhere, RP!ActiveElsewhere
<1>3. \A a : R!Block(a) <=> RP!Block(a)
  BY SameOperators DEF R!Block, RP!Block
<1>4. \A a, k : R!Reply(a, k) <=> RP!Reply(a, k)
  BY SameSets, SameOperators
     DEF R!Reply, RP!Reply, R!ReplyAccepted, RP!ReplyAccepted,
         R!ReplyKindAllowed, RP!ReplyKindAllowed
<1>5. QED
  BY <1>1, <1>2, <1>3, <1>4, SameSets DEF R!Next, RP!Next

LEMMA SameSpec == R!Spec => RP!Spec
<1>1. R!Init => RP!Init
  BY DEF R!Init, RP!Init, R!Absent, RP!Absent, R!AsgId, RP!AsgId, R!NoAsg, RP!NoAsg
<1>2. [R!Next]_R!rvars => [RP!Next]_RP!rvars
  BY SameNext DEF R!rvars, RP!rvars
<1>3. QED
  BY <1>1, <1>2, PTL DEF R!Spec, RP!Spec

\* In the durable tables, too, no review round is lost or repeated, a chain is worked
\* on in one place only and ends in a verdict, and the ledger explains every settled
\* assignment, whatever passes, crashes, reclaims, resumptions and replacements do.
THEOREM RoundsSurvive ==
    Spec => [](/\ R!RoundsAreComplete /\ R!ClosedChainHasVerdict
               /\ R!OneOpenPerChain /\ R!StateMatchesLedger)
<1>1. RP!Spec => [](/\ RP!RoundsAreComplete /\ RP!ClosedChainHasVerdict
                    /\ RP!OneOpenPerChain /\ RP!StateMatchesLedger)
  <2>1. Scouts \cap {"pm", "worker", "reviewer"} = {} /\ MaxRounds \in Nat /\ MaxAsg \in Nat
    BY ReducerAssumption
  <2>2. QED
    BY <2>1, RP!RoundsComplete, RP!ChainsEndInVerdicts, RP!OneOpen, RP!LedgerAgrees, PTL
<1>2. RP!RoundsAreComplete => R!RoundsAreComplete
  BY SameSets, SameOperators DEF R!RoundsAreComplete, RP!RoundsAreComplete
<1>3. RP!ClosedChainHasVerdict => R!ClosedChainHasVerdict
  BY SameSets, SameOperators DEF R!ClosedChainHasVerdict, RP!ClosedChainHasVerdict
<1>4. RP!OneOpenPerChain => R!OneOpenPerChain
  BY SameSets, SameOperators DEF R!OneOpenPerChain, RP!OneOpenPerChain
<1>5. RP!StateMatchesLedger => R!StateMatchesLedger
  BY SameSets, SameOperators DEF R!StateMatchesLedger, RP!StateMatchesLedger
<1>6. QED
  BY <1>1, <1>2, <1>3, <1>4, <1>5, Refinement, SameSpec, PTL DEF ReducerSpec

\* A verdict in the tables is final: no late report, settled event, second reply or
\* redelivery reopens the assignment or rewrites what it was.
THEOREM VerdictsSurvive == Spec => R!TerminalIsFinal
<1>1. RP!Spec => RP!TerminalIsFinal
  <2>1. Scouts \cap {"pm", "worker", "reviewer"} = {} /\ MaxRounds \in Nat /\ MaxAsg \in Nat
    BY ReducerAssumption
  <2>2. QED
    BY <2>1, RP!Finality
<1>2. [\A a \in RP!AsgId : asg[a].state \in RP!Terminal => asg'[a] = asg[a]]_RP!rvars
        => [\A a \in R!AsgId : asg[a].state \in R!Terminal => asg'[a] = asg[a]]_R!rvars
  BY SameSets DEF R!rvars, RP!rvars
<1>3. QED
  BY <1>1, <1>2, Refinement, SameSpec, PTL DEF ReducerSpec, RP!TerminalIsFinal, R!TerminalIsFinal
=============================================================================
