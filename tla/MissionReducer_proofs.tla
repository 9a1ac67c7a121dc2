----------------------- MODULE MissionReducer_proofs ------------------------
(***************************************************************************)
(* Proofs about the assignment life cycle, for any number of scouts, rounds *)
(* and assignments.                                                         *)
(***************************************************************************)
EXTENDS MissionReducer, TLAPS

USE ScoutsAssumption, BoundsAssumption

\* A new assignment and a settled one have the type of a row.
LEMMA NewAssignmentType ==
    ASSUME NEW r \in Owners, NEW k \in Kinds, NEW p \in AsgId \cup {NoAsg},
           NEW n \in 0 .. MaxRounds
    PROVE  NewAssignment(r, k, p, n) \in Assignment
BY DEF NewAssignment, Assignment, States, Open

LEMMA SettledType ==
    ASSUME TypeOK, NEW a \in AsgId, asg[a].state # "none", NEW k \in ReplyKinds
    PROVE  /\ asg[a] \in Assignment
           /\ Settled(a, k) \in Assignment
           /\ Settled(a, k).state = SettledState(k) /\ Settled(a, k).last = k
           /\ Settled(a, k).role = asg[a].role /\ Settled(a, k).kind = asg[a].kind
           /\ Settled(a, k).parent = asg[a].parent /\ Settled(a, k).round = asg[a].round
           /\ SettledState(k) \in States
<1>0. asg[a] \in Assignment \cup {Absent}
  BY DEF TypeOK
<1>1. asg[a] \in Assignment
  BY <1>0 DEF Absent
<1>2. SettledState(k) \in States
  BY DEF SettledState, ReplyKinds, States, Open, Terminal
<1>. QED
  BY <1>1, <1>2 DEF Settled, Assignment

\* A follow-up is a queued assignment of the same chain, owned by the worker or
\* the reviewer.
LEMMA FollowUpType ==
    ASSUME TypeOK, NEW a \in AsgId, asg[a].state # "none", NEW k \in ReplyKinds,
           NEW f \in FollowUps(a, k)
    PROVE  /\ f \in Assignment
           /\ f.state = "queued" /\ f.last = "none" /\ f.parent = Root(a)
           /\ Root(a) \in AsgId
<1>1. asg[a] \in Assignment
  BY DEF TypeOK, Absent
<1>2. Root(a) \in AsgId
  BY <1>1 DEF Root, Assignment, NoAsg
<1>3. f = NewAssignment("reviewer", "review", Root(a), asg[a].round)
        \/ (f = NewAssignment("worker", "fix", Root(a), asg[a].round + 1)
            /\ asg[a].round + 1 <= MaxRounds)
  BY DEF FollowUps
<1>4. asg[a].round \in 0 .. MaxRounds
  BY <1>1 DEF Assignment
<1>5. f \in Assignment
  BY <1>2, <1>3, <1>4, NewAssignmentType DEF Owners, Roles, Kinds
<1>. QED
  BY <1>2, <1>3, <1>5 DEF NewAssignment

\* What each kind of step does to the rows, said once for all invariants: a step
\* adds at most one queued row at nextAsg, and changes the state and ledger
\* kind of at most one known row.
Adds(new) ==
    /\ new \in Assignment /\ new.state = "queued" /\ new.last = "none"
    /\ nextAsg \in AsgId /\ nextAsg' = nextAsg + 1
    /\ asg' = [asg EXCEPT ![nextAsg] = new]

LEMMA DispatchAdds ==
    ASSUME TypeOK, NEW r \in Owners, NEW k \in Kinds, Dispatch(r, k)
    PROVE  \E new \in Assignment : Adds(new) /\ new.parent = NoAsg
<1>1. NewAssignment(r, k, NoAsg, 0) \in Assignment
  BY NewAssignmentType
<1>. QED
  BY <1>1 DEF Dispatch, Adds, NewAssignment

\* Every step keeps the type invariant.
LEMMA TypeStep == TypeOK /\ [Next]_rvars => TypeOK'
<1> SUFFICES ASSUME TypeOK, [Next]_rvars PROVE TypeOK'
  OBVIOUS
<1>1. ASSUME NEW r \in Owners, NEW k \in Kinds, Dispatch(r, k) PROVE TypeOK'
  <2>1. PICK new \in Assignment : Adds(new)
    BY <1>1, DispatchAdds
  <2>. QED
    BY <2>1 DEF Adds, TypeOK, AsgId
<1>2. ASSUME NEW a \in AsgId, Activate(a) PROVE TypeOK'
  <2>1. asg[a] \in Assignment
    BY <1>2 DEF TypeOK, Activate, Absent
  <2>2. [asg[a] EXCEPT !.state = "active"] \in Assignment
    BY <2>1 DEF Assignment, States, Open
  <2>. QED
    BY <1>2, <2>1, <2>2 DEF Activate, TypeOK, AsgId
<1>3. ASSUME NEW a \in AsgId, Block(a) PROVE TypeOK'
  <2>1. Settled(a, "blocked") \in Assignment /\ Settled(a, "blocked").state # "none"
    BY <1>3, SettledType DEF Block, ReplyKinds, States, Open, Terminal
  <2>. QED
    BY <1>3, <2>1 DEF Block, TypeOK, AsgId
<1>4. ASSUME NEW a \in AsgId, NEW k \in ReplyKinds, Reply(a, k) PROVE TypeOK'
  <2>1. asg[a].state # "none"
    BY <1>4 DEF Reply, ReplyAccepted
  <2>2. Settled(a, k) \in Assignment /\ Settled(a, k).state # "none" /\ a < nextAsg
    BY <2>1, SettledType DEF States, Open, Terminal, TypeOK, AsgId
  <2>3. CASE asg' = [asg EXCEPT ![a] = Settled(a, k)] /\ UNCHANGED nextAsg
    BY <2>1, <2>2, <2>3 DEF TypeOK, AsgId
  <2>4. ASSUME NEW f \in FollowUps(a, k), nextAsg \in AsgId, nextAsg' = nextAsg + 1,
               asg' = [asg EXCEPT ![a] = Settled(a, k), ![nextAsg] = f]
        PROVE  TypeOK'
    <3>1. f \in Assignment /\ f.state = "queued"
      BY <2>1, FollowUpType
    <3>. QED
      BY <2>1, <2>2, <2>4, <3>1 DEF TypeOK, AsgId
  <2>. QED
    BY <1>4, <2>3, <2>4 DEF Reply
<1>5. CASE UNCHANGED rvars
  BY <1>5 DEF rvars, TypeOK
<1>. QED
  BY <1>1, <1>2, <1>3, <1>4, <1>5 DEF Next

\* Type correctness: rows are created in the order of their identifiers and
\* every step keeps the fields' types.
THEOREM TypeCorrect == Spec => []TypeOK
<1>1. Init => TypeOK
  BY DEF Init, TypeOK, AsgId, Absent
<1>. QED
  BY <1>1, TypeStep, PTL DEF Spec

-----------------------------------------------------------------------------
\* The invariants are proved over four shapes of step.

\* Assignment a gets a ledger entry of kind k and the state it announces.
SettlesOnly(a, k) ==
    /\ asg[a].state \in {"active", "blocked"}
    /\ asg' = [asg EXCEPT ![a] = Settled(a, k)] /\ nextAsg' = nextAsg

\* ... and its follow-up is created with it.
SettlesAndAdds(a, k, f) ==
    /\ asg[a].state \in {"active", "blocked"} /\ k \in {"completed", "rejected"}
    /\ f \in Assignment /\ f.state = "queued" /\ f.last = "none"
    /\ f.parent = Root(a) /\ Root(a) \in AsgId
    /\ nextAsg \in AsgId /\ nextAsg' = nextAsg + 1
    /\ asg' = [asg EXCEPT ![a] = Settled(a, k), ![nextAsg] = f]

\* Every step of the reducer has one of the shapes.
LEMMA StepShapes ==
    ASSUME TypeOK, Next
    PROVE  \/ \E new \in Assignment : Adds(new) /\ new.parent = NoAsg
           \/ \E a \in AsgId : Activate(a)
           \/ \E a \in AsgId, k \in ReplyKinds : SettlesOnly(a, k)
           \/ \E a \in AsgId, k \in ReplyKinds, f \in Assignment : SettlesAndAdds(a, k, f)
<1>1. ASSUME NEW r \in Owners, NEW k \in Kinds, Dispatch(r, k)
      PROVE  \E new \in Assignment : Adds(new) /\ new.parent = NoAsg
  BY <1>1, DispatchAdds
<1>2. ASSUME NEW a \in AsgId, Block(a)
      PROVE  SettlesOnly(a, "blocked") /\ "blocked" \in ReplyKinds
  BY <1>2 DEF Block, SettlesOnly, ReplyKinds
<1>3. ASSUME NEW a \in AsgId, NEW k \in ReplyKinds, Reply(a, k)
      PROVE  SettlesOnly(a, k) \/ \E f \in Assignment : SettlesAndAdds(a, k, f)
  <2>1. asg[a].state \in {"active", "blocked"} /\ asg[a].state # "none"
    BY <1>3 DEF Reply, ReplyAccepted
  <2>2. ASSUME NEW f \in FollowUps(a, k), nextAsg \in AsgId, nextAsg' = nextAsg + 1,
               asg' = [asg EXCEPT ![a] = Settled(a, k), ![nextAsg] = f]
        PROVE  f \in Assignment /\ SettlesAndAdds(a, k, f)
    <3>1. k \in {"completed", "rejected"}
      BY <2>2 DEF FollowUps
    <3>. QED
      BY <2>1, <2>2, <3>1, FollowUpType DEF SettlesAndAdds
  <2>. QED
    BY <1>3, <2>1, <2>2 DEF Reply, SettlesOnly
<1>. QED
  BY <1>1, <1>2, <1>3 DEF Next

\* The fields a settling step leaves alone, for every row.
LEMMA SettledRow ==
    ASSUME TypeOK, NEW a \in AsgId, NEW k \in ReplyKinds, asg[a].state # "none"
    PROVE  /\ a < nextAsg
           /\ Settled(a, k).state = SettledState(k) /\ Settled(a, k).last = k
           /\ Settled(a, k).role = asg[a].role /\ Settled(a, k).parent = asg[a].parent
           /\ SettledState(k) \notin {"none", "queued", "active"}
           /\ k \in {"completed", "rejected"} => SettledState(k) \in Terminal
  BY SettledType DEF TypeOK, AsgId, SettledState, ReplyKinds, Terminal

\* No role ever has two active assignments: only a delivery activates one, and
\* it is refused while another assignment of the role is active.
THEOREM OneActive == Spec => []OneActivePerRole
<1>1. Init => OneActivePerRole
  BY DEF Init, OneActivePerRole, Known, Absent
<1>2. TypeOK /\ OneActivePerRole /\ [Next]_rvars => OneActivePerRole'
  <2> SUFFICES ASSUME TypeOK, OneActivePerRole, [Next]_rvars PROVE OneActivePerRole'
    OBVIOUS
  <2>1. ASSUME NEW new \in Assignment, Adds(new) PROVE OneActivePerRole'
    BY <2>1 DEF OneActivePerRole, Known, Adds, TypeOK
  <2>2. ASSUME NEW a \in AsgId, Activate(a) PROVE OneActivePerRole'
    BY <2>2 DEF OneActivePerRole, Known, Activate, ActiveElsewhere, TypeOK
  <2>3. ASSUME NEW a \in AsgId, NEW k \in ReplyKinds, SettlesOnly(a, k)
        PROVE  OneActivePerRole'
    <3>1. Settled(a, k).state # "active"
      BY <2>3, SettledRow DEF SettlesOnly
    <3>. QED
      BY <2>3, <3>1 DEF OneActivePerRole, Known, SettlesOnly, TypeOK
  <2>4. ASSUME NEW a \in AsgId, NEW k \in ReplyKinds, NEW f \in Assignment,
               SettlesAndAdds(a, k, f)
        PROVE  OneActivePerRole'
    <3>1. Settled(a, k).state # "active"
      BY <2>4, SettledRow DEF SettlesAndAdds
    <3>. QED
      BY <2>4, <3>1 DEF OneActivePerRole, Known, SettlesAndAdds, TypeOK
  <2>5. CASE UNCHANGED rvars
    BY <2>5 DEF rvars, OneActivePerRole, Known
  <2>. QED
    BY <2>1, <2>2, <2>3, <2>4, <2>5, StepShapes
<1>. QED
  BY <1>1, <1>2, TypeCorrect, PTL DEF Spec

\* The state of an assignment is always the one its last ledger entry announces.
THEOREM LedgerAgrees == Spec => []StateMatchesLedger
<1>1. Init => StateMatchesLedger
  BY DEF Init, StateMatchesLedger, Known, Absent
<1>2. TypeOK /\ StateMatchesLedger /\ [Next]_rvars => StateMatchesLedger'
  <2> SUFFICES ASSUME TypeOK, StateMatchesLedger, [Next]_rvars PROVE StateMatchesLedger'
    OBVIOUS
  <2>0. ASSUME NEW k \in ReplyKinds PROVE k # "none" /\ SettledState(k)' = SettledState(k)
    BY DEF ReplyKinds, SettledState
  <2>1. ASSUME NEW new \in Assignment, Adds(new) PROVE StateMatchesLedger'
    BY <2>1 DEF StateMatchesLedger, Known, Adds, TypeOK, SettledState
  <2>2. ASSUME NEW a \in AsgId, Activate(a) PROVE StateMatchesLedger'
    <3>1. asg[a] \in Assignment
      BY <2>2 DEF TypeOK, Activate, Absent
    <3>2. asg'[a].state = "active" /\ asg'[a].last = "none"
      BY <2>2, <3>1 DEF StateMatchesLedger, Known, Activate, TypeOK, Assignment
    <3>. QED
      BY <2>2, <3>2 DEF StateMatchesLedger, Known, Activate, TypeOK, SettledState
  <2>3. ASSUME NEW a \in AsgId, NEW k \in ReplyKinds, SettlesOnly(a, k)
        PROVE  StateMatchesLedger'
    BY <2>0, <2>3, SettledRow DEF StateMatchesLedger, Known, SettlesOnly, TypeOK, SettledState
  <2>4. ASSUME NEW a \in AsgId, NEW k \in ReplyKinds, NEW f \in Assignment,
               SettlesAndAdds(a, k, f)
        PROVE  StateMatchesLedger'
    BY <2>0, <2>4, SettledRow DEF StateMatchesLedger, Known, SettlesAndAdds, TypeOK, SettledState
  <2>5. CASE UNCHANGED rvars
    BY <2>5 DEF rvars, StateMatchesLedger, Known, SettledState
  <2>. QED
    BY <2>1, <2>2, <2>3, <2>4, <2>5, StepShapes
<1>. QED
  BY <1>1, <1>2, TypeCorrect, PTL DEF Spec

\* A completed, approved or rejected assignment never changes again.
THEOREM Finality == Spec => TerminalIsFinal
<1>1. TypeOK /\ [Next]_rvars
        => [\A a \in AsgId : asg[a].state \in Terminal => asg'[a] = asg[a]]_rvars
  <2> SUFFICES ASSUME TypeOK, Next, NEW b \in AsgId, asg[b].state \in Terminal
               PROVE  asg'[b] = asg[b]
    OBVIOUS
  <2>0. b < nextAsg /\ asg[b].state \notin {"none", "queued", "active", "blocked"}
    BY DEF TypeOK, AsgId, Terminal
  <2>1. ASSUME NEW new \in Assignment, Adds(new) PROVE asg'[b] = asg[b]
    BY <2>0, <2>1 DEF Adds, TypeOK, AsgId
  <2>2. ASSUME NEW a \in AsgId, Activate(a) PROVE asg'[b] = asg[b]
    BY <2>0, <2>2 DEF Activate, TypeOK
  <2>3. ASSUME NEW a \in AsgId, NEW k \in ReplyKinds, SettlesOnly(a, k)
        PROVE  asg'[b] = asg[b]
    BY <2>0, <2>3 DEF SettlesOnly, TypeOK
  <2>4. ASSUME NEW a \in AsgId, NEW k \in ReplyKinds, NEW f \in Assignment,
               SettlesAndAdds(a, k, f)
        PROVE  asg'[b] = asg[b]
    BY <2>0, <2>4 DEF SettlesAndAdds, TypeOK, AsgId
  <2>. QED
    BY <2>1, <2>2, <2>3, <2>4, StepShapes
<1>. QED
  BY <1>1, TypeCorrect, PTL DEF Spec, TerminalIsFinal

-----------------------------------------------------------------------------
\* OneOpenPerChain is not inductive alone: a dispatched task must not fall into
\* a chain that exists, which holds because parents have smaller identifiers
\* than the row that is created next.
ParentsExist == \A a \in Known : asg[a].parent < nextAsg

ChainInv == OneOpenPerChain /\ ParentsExist

LEMMA ChainStep == TypeOK /\ ChainInv /\ Next => ChainInv'
<1> SUFFICES ASSUME TypeOK, ChainInv, Next PROVE ChainInv'
  OBVIOUS
<1>0. \A b \in Known : b < nextAsg /\ Root(b) \in AsgId /\ Root(b) < nextAsg
                         /\ asg[b] \in Assignment
  <2> SUFFICES ASSUME NEW b \in Known
               PROVE  b < nextAsg /\ Root(b) \in AsgId /\ Root(b) < nextAsg
                        /\ asg[b] \in Assignment
    OBVIOUS
  <2>1. b \in AsgId /\ asg[b] \in Assignment /\ b < nextAsg
    BY DEF Known, TypeOK, Absent, AsgId
  <2>. QED
    BY <2>1 DEF Root, ChainInv, ParentsExist, Assignment, NoAsg
<1>1. ASSUME NEW new \in Assignment, Adds(new), new.parent = NoAsg PROVE ChainInv'
  <2>0. PICK n \in AsgId : n = nextAsg
    BY <1>1 DEF Adds
  <2>1. /\ Known' = Known \cup {n} /\ n \notin Known
        /\ \A b \in Known : asg'[b] = asg[b]
        /\ asg'[n] = new
    BY <1>1, <2>0 DEF Adds, TypeOK, Known, AsgId
  <2>2. \A b \in Known : Root(b)' = Root(b)
    BY <2>1 DEF Root
  <2>3. Root(n)' = n
    BY <1>1, <2>1 DEF Root
  <2>4. OneOpenPerChain'
    BY <1>0, <2>0, <2>1, <2>2, <2>3 DEF ChainInv, OneOpenPerChain, TypeOK
  <2>5. ParentsExist'
    BY <1>0, <1>1, <2>0, <2>1 DEF ChainInv, ParentsExist, Adds, NoAsg, TypeOK, Assignment, AsgId
  <2>. QED
    BY <2>4, <2>5 DEF ChainInv
<1>2. ASSUME NEW a \in AsgId, Activate(a) PROVE ChainInv'
  <2>1. /\ Known' = Known /\ a \in Known
        /\ asg[a].state \in Open
        /\ \A b \in Known : asg'[b].parent = asg[b].parent
        /\ \A b \in Known \ {a} : asg'[b] = asg[b]
    BY <1>0, <1>2 DEF Activate, TypeOK, Known, Open
  <2>2. \A b \in Known : Root(b)' = Root(b)
    BY <2>1 DEF Root
  <2>. QED
    BY <1>2, <2>1, <2>2 DEF ChainInv, OneOpenPerChain, ParentsExist, Activate
<1>3. ASSUME NEW a \in AsgId, NEW k \in ReplyKinds, SettlesOnly(a, k) PROVE ChainInv'
  <2>1. a \in Known /\ asg[a].state \in Open
    BY <1>3 DEF SettlesOnly, Known, Open
  <2>2. /\ Known' = Known
        /\ \A b \in Known : asg'[b].parent = asg[b].parent
        /\ \A b \in Known \ {a} : asg'[b] = asg[b]
    BY <1>3, <2>1, SettledRow DEF SettlesOnly, TypeOK, Known
  <2>3. \A b \in Known : Root(b)' = Root(b)
    BY <2>2 DEF Root
  <2>. QED
    BY <1>3, <2>1, <2>2, <2>3 DEF ChainInv, OneOpenPerChain, ParentsExist, SettlesOnly
<1>4. ASSUME NEW a \in AsgId, NEW k \in ReplyKinds, NEW f \in Assignment,
             SettlesAndAdds(a, k, f)
      PROVE  ChainInv'
  <2>0. PICK n \in AsgId : n = nextAsg
    BY <1>4 DEF SettlesAndAdds
  <2>1. a \in Known /\ asg[a].state \in Open /\ n \notin Known
    BY <1>4, <2>0 DEF SettlesAndAdds, Known, Open, TypeOK, AsgId
  <2>2. /\ Known' = Known \cup {n}
        /\ \A b \in Known : asg'[b].parent = asg[b].parent
        /\ \A b \in Known \ {a} : asg'[b] = asg[b]
        /\ asg'[n] = f
        /\ asg'[a].state \notin Open
    BY <1>4, <2>0, <2>1, SettledRow DEF SettlesAndAdds, TypeOK, Known, AsgId, Open, Terminal
  <2>3. \A b \in Known : Root(b)' = Root(b)
    BY <2>2 DEF Root
  <2>4. Root(n)' = Root(a)
    BY <1>4, <2>2 DEF Root, SettlesAndAdds, AsgId, NoAsg
  <2>5. OneOpenPerChain'
    BY <2>1, <2>2, <2>3, <2>4 DEF ChainInv, OneOpenPerChain
  <2>6. ParentsExist'
    <3>1. nextAsg \in Nat /\ nextAsg' = nextAsg + 1
      BY <1>4 DEF SettlesAndAdds, AsgId
    <3>2. asg'[n].parent < nextAsg'
      BY <1>0, <1>4, <2>1, <2>2, <3>1 DEF SettlesAndAdds, AsgId
    <3>3. ASSUME NEW b \in Known PROVE asg'[b].parent < nextAsg'
      <4>1. asg[b].parent \in Nat /\ asg[b].parent < nextAsg
        BY <1>0 DEF ChainInv, ParentsExist, Assignment, AsgId, NoAsg
      <4>. QED
        BY <2>2, <3>1, <4>1
    <3>. QED
      BY <2>2, <3>2, <3>3 DEF ParentsExist
  <2>. QED
    BY <2>5, <2>6 DEF ChainInv
<1>. QED
  BY <1>1, <1>2, <1>3, <1>4, StepShapes

\* A chain of reviews and fixes is worked on in one place only.
THEOREM OneOpen == Spec => []OneOpenPerChain
<1>1. Init => ChainInv
  BY DEF Init, ChainInv, OneOpenPerChain, ParentsExist, Known, Absent
<1>2. TypeOK /\ ChainInv /\ [Next]_rvars => ChainInv'
  <2>1. ASSUME ChainInv, UNCHANGED rvars PROVE ChainInv'
    BY <2>1 DEF rvars, ChainInv, OneOpenPerChain, ParentsExist, Known, Root
  <2>. QED
    BY <2>1, ChainStep
<1>3. ChainInv => OneOpenPerChain
  BY DEF ChainInv
<1>. QED
  BY <1>1, <1>2, <1>3, TypeCorrect, PTL DEF Spec

-----------------------------------------------------------------------------
\* The rounds of a chain follow one another: what is open is the chain's last.
\* Needed because a follow-up is only known to be new if nothing of the chain is
\* further than the assignment it follows.

\* Who does what, and which verdicts each can give.
RowFits(row) ==
    /\ row.role \in Scouts => row.parent = NoAsg /\ row.kind = "task"
    /\ row.role = "worker" => row.state \in Open \cup {"completed"} /\ row.kind # "review"
    /\ row.role = "reviewer" =>
          row.state \in Open \cup {"approved", "rejected"} /\ row.kind = "review"
    /\ row.state \in {"approved", "rejected"} => row.role = "reviewer"

NotAfter(x, y) ==
    \/ x.round < y.round
    \/ x.round = y.round /\ (x.role # "reviewer" \/ y.role = "reviewer")

\* A scout's chain is the scout's task alone.
ScoutsAreAlone ==
    \A a, b \in Known : asg[a].role \in Scouts /\ Root(b) = a => b = a

PlacesDiffer ==
    \A a, b \in Known :
        Root(a) = Root(b) /\ asg[a].role = asg[b].role /\ asg[a].round = asg[b].round => a = b

OpenIsLast ==
    \A a, b \in Known : Root(a) = Root(b) /\ asg[b].state \in Open => NotAfter(asg[a], asg[b])

RoundsFollow ==
    \A a \in Known :
        /\ asg[a].role = "worker" /\ asg[a].state = "completed"
             => \E b \in Known : Root(b) = Root(a) /\ asg[b].role = "reviewer"
                                 /\ asg[b].round = asg[a].round
        /\ asg[a].state = "rejected" /\ asg[a].round < MaxRounds
             => \E b \in Known : Root(b) = Root(a) /\ asg[b].role = "worker"
                                 /\ asg[b].round = asg[a].round + 1

Speaks(row) ==
    \/ row.state \in Open
    \/ row.state = "approved"
    \/ row.state = "rejected" /\ row.round = MaxRounds

ChainsSpeak ==
    \A t \in Known : asg[t].role = "worker" /\ asg[t].parent = NoAsg
                        => \E a \in Known : Root(a) = t /\ Speaks(asg[a])

RowsFit == \A a \in Known : RowFits(asg[a])

RoundInv == RowsFit /\ ScoutsAreAlone /\ PlacesDiffer /\ OpenIsLast /\ RoundsFollow /\ ChainsSpeak

\* What a settling step may do to a row, by who owns it.
Ends(a, k) ==
    \/ k = "blocked"
    \/ k = "finding" /\ asg[a].role \in Scouts
    \/ k = "approved" /\ asg[a].role = "reviewer"
    \/ k = "rejected" /\ asg[a].role = "reviewer" /\ asg[a].round = MaxRounds

GoesOn(a, k, f) ==
    \/ /\ k = "completed" /\ asg[a].role = "worker"
       /\ f.role = "reviewer" /\ f.kind = "review" /\ f.round = asg[a].round
    \/ /\ k = "rejected" /\ asg[a].role = "reviewer"
       /\ f.role = "worker" /\ f.kind = "fix" /\ f.round = asg[a].round + 1

LEMMA RoundShapes ==
    ASSUME TypeOK, Next
    PROVE  \/ \E new \in Assignment : Adds(new) /\ new.parent = NoAsg /\ RowFits(new)
           \/ \E a \in AsgId : Activate(a)
           \/ \E a \in AsgId, k \in ReplyKinds : SettlesOnly(a, k) /\ Ends(a, k)
           \/ \E a \in AsgId, k \in ReplyKinds, f \in Assignment :
                 SettlesAndAdds(a, k, f) /\ GoesOn(a, k, f)
<1>1. ASSUME NEW r \in Owners, NEW k \in Kinds, Dispatch(r, k)
      PROVE  \E new \in Assignment : Adds(new) /\ new.parent = NoAsg /\ RowFits(new)
  <2>1. PICK new : new = NewAssignment(r, k, NoAsg, 0)
    OBVIOUS
  <2>2. new \in Assignment
    BY <2>1, NewAssignmentType
  <2>3. Adds(new) /\ new.parent = NoAsg
    BY <1>1, <2>1, <2>2 DEF Dispatch, Adds, NewAssignment
  <2>4. RowFits(new)
    BY <1>1, <2>1 DEF Dispatch, AssignmentKindAllowed, NewAssignment, RowFits, Open
  <2>5. QED
    BY <2>2, <2>3, <2>4
<1>2. ASSUME NEW a \in AsgId, Block(a)
      PROVE  SettlesOnly(a, "blocked") /\ Ends(a, "blocked") /\ "blocked" \in ReplyKinds
  BY <1>2 DEF Block, SettlesOnly, ReplyKinds, Ends
<1>3. ASSUME NEW a \in AsgId, NEW k \in ReplyKinds, Reply(a, k)
      PROVE  \/ SettlesOnly(a, k) /\ Ends(a, k)
             \/ \E f \in Assignment : SettlesAndAdds(a, k, f) /\ GoesOn(a, k, f)
  <2>1. /\ asg[a].state \in {"active", "blocked"} /\ asg[a].state # "none"
        /\ ReplyKindAllowed(asg[a].role, k)
    BY <1>3 DEF Reply, ReplyAccepted
  <2>2. asg[a].round \in 0 .. MaxRounds
    BY <2>1 DEF TypeOK, Assignment, Absent
  <2>3. CASE FollowUps(a, k) = {} /\ asg' = [asg EXCEPT ![a] = Settled(a, k)] /\ UNCHANGED nextAsg
    <3>1. Ends(a, k)
      BY <2>1, <2>2, <2>3 DEF ReplyKindAllowed, FollowUps, Ends
    <3>2. QED
      BY <2>1, <2>3, <3>1 DEF SettlesOnly
  <2>4. ASSUME NEW f \in FollowUps(a, k), nextAsg \in AsgId, nextAsg' = nextAsg + 1,
               asg' = [asg EXCEPT ![a] = Settled(a, k), ![nextAsg] = f]
        PROVE  f \in Assignment /\ SettlesAndAdds(a, k, f) /\ GoesOn(a, k, f)
    <3>1. GoesOn(a, k, f) /\ k \in {"completed", "rejected"}
      BY DEF FollowUps, GoesOn, NewAssignment
    <3>2. QED
      BY <2>1, <2>4, <3>1, FollowUpType DEF SettlesAndAdds
  <2>5. QED
    BY <1>3, <2>3, <2>4 DEF Reply
<1>4. QED
  BY <1>1, <1>2, <1>3 DEF Next

\* The rows that are known.
LEMMA KnownRows ==
    ASSUME TypeOK, ParentsExist, NEW b \in Known
    PROVE  /\ b \in AsgId /\ b < nextAsg /\ asg[b] \in Assignment
           /\ asg[b].round \in 0 .. MaxRounds /\ asg[b].role \in Owners
           /\ Root(b) \in AsgId /\ Root(b) < nextAsg
<1>1. b \in AsgId /\ asg[b] \in Assignment /\ b < nextAsg
  BY DEF Known, TypeOK, Absent, AsgId
<1>2. QED
  BY <1>1 DEF Root, ParentsExist, Assignment, NoAsg

\* A step that gives row a another state and leaves the others alone.
LEMMA RowTurns ==
    ASSUME TypeOK, NEW a \in Known, NEW row, asg' = [asg EXCEPT ![a] = row],
           row.state # "none", row.parent = asg[a].parent
    PROVE  /\ Known' = Known /\ asg'[a] = row /\ \A b \in Known \ {a} : asg'[b] = asg[b]
           /\ \A b \in Known : Root(b)' = Root(b)
<1>1. Known' = Known /\ asg'[a] = row /\ \A b \in Known \ {a} : asg'[b] = asg[b]
  BY DEF TypeOK, Known
<1>2. QED
  BY <1>1 DEF Root

\* A dispatched task is a chain of its own.
LEMMA TaskKeepsRounds ==
    ASSUME TypeOK, ParentsExist, RoundInv, NEW new \in Assignment, Adds(new),
           new.parent = NoAsg, RowFits(new)
    PROVE  RoundInv'
<1>0. PICK n \in AsgId : n = nextAsg
  BY DEF Adds
<1>1. /\ Known' = Known \cup {n} /\ n \notin Known
      /\ \A b \in Known : asg'[b] = asg[b]
      /\ asg'[n] = new
  BY <1>0 DEF Adds, TypeOK, Known, AsgId
<1>2. /\ \A b \in Known : Root(b)' = Root(b) /\ Root(b) # n
      /\ Root(n)' = n
  <2>1. \A b \in Known : Root(b) \in AsgId /\ Root(b) < nextAsg
    BY KnownRows
  <2>2. \A b \in Known : Root(b) # n
    BY <1>0, <2>1 DEF AsgId
  <2>3. QED
    BY <1>1, <2>2 DEF Root
<1>3. new.state \in Open /\ new.round \in 0 .. MaxRounds /\ new.state = "queued"
  BY DEF Adds, Open, Assignment
<1>4. RowsFit'
  BY <1>1 DEF RoundInv, RowsFit, RowFits
<1>5. ScoutsAreAlone'
  BY <1>1, <1>2 DEF RoundInv, ScoutsAreAlone
<1>6. PlacesDiffer'
  BY <1>1, <1>2 DEF RoundInv, PlacesDiffer
<1>7. OpenIsLast'
  BY <1>1, <1>2 DEF RoundInv, OpenIsLast, NotAfter
<1>8. RoundsFollow'
  <2>1. ASSUME NEW a \in Known
        PROVE  /\ asg'[a].role = "worker" /\ asg'[a].state = "completed"
                    => \E b \in Known' : Root(b)' = Root(a)' /\ asg'[b].role = "reviewer"
                                        /\ asg'[b].round = asg'[a].round
               /\ asg'[a].state = "rejected" /\ asg'[a].round < MaxRounds
                    => \E b \in Known' : Root(b)' = Root(a)' /\ asg'[b].role = "worker"
                                        /\ asg'[b].round = asg'[a].round + 1
    BY <1>1, <1>2 DEF RoundInv, RoundsFollow
  <2>2. QED
    BY <1>1, <1>3, <2>1 DEF RoundsFollow
<1>9. ChainsSpeak'
  BY <1>1, <1>2, <1>3 DEF RoundInv, ChainsSpeak, Speaks
<1>10. QED
  BY <1>4, <1>5, <1>6, <1>7, <1>8, <1>9 DEF RoundInv

\* A row that stays open, or ends without a follow-up.
LEMMA TurnKeepsRounds ==
    ASSUME TypeOK, ParentsExist, RoundInv, NEW a \in Known, NEW row,
           asg' = [asg EXCEPT ![a] = row], asg[a].state \in Open, row.state # "none",
           row.parent = asg[a].parent, row.role = asg[a].role, row.kind = asg[a].kind,
           row.round = asg[a].round, RowFits(row),
           \/ Speaks(row)
           \/ row.role \in Scouts,
           row.state = "completed" => row.role \in Scouts,
           row.state = "rejected" => row.round = MaxRounds
    PROVE  RoundInv'
<1>1. /\ Known' = Known /\ asg'[a] = row /\ \A b \in Known \ {a} : asg'[b] = asg[b]
      /\ \A b \in Known : Root(b)' = Root(b)
  BY RowTurns
<1>2. \A b \in Known : /\ asg'[b].role = asg[b].role /\ asg'[b].round = asg[b].round
                       /\ asg'[b].parent = asg[b].parent
                       /\ asg'[b].state \in Open => asg[b].state \in Open
  BY <1>1
<1>3. RowsFit'
  BY <1>1 DEF RoundInv, RowsFit, RowFits
<1>4. ScoutsAreAlone' /\ PlacesDiffer'
  BY <1>1, <1>2 DEF RoundInv, ScoutsAreAlone, PlacesDiffer
<1>5. OpenIsLast'
  BY <1>1, <1>2 DEF RoundInv, OpenIsLast, NotAfter
<1>6. RoundsFollow'
  <2>1. row.role = "worker" => row.state # "completed"
    BY DEF Roles
  <2>2. ASSUME NEW b \in Known, asg'[b].role = "worker", asg'[b].state = "completed"
        PROVE  \E c \in Known : Root(c) = Root(b) /\ asg[c].role = "reviewer"
                                /\ asg[c].round = asg[b].round
    BY <1>1, <2>1, <2>2 DEF RoundInv, RoundsFollow
  <2>3. ASSUME NEW b \in Known, asg'[b].state = "rejected", asg'[b].round < MaxRounds
        PROVE  \E c \in Known : Root(c) = Root(b) /\ asg[c].role = "worker"
                                /\ asg[c].round = asg[b].round + 1
    BY <1>1, <2>3 DEF RoundInv, RoundsFollow
  <2>4. QED
    BY <1>1, <1>2, <2>2, <2>3 DEF RoundsFollow
<1>7. ChainsSpeak'
  <2>1. ASSUME NEW t \in Known, asg[t].role = "worker", asg[t].parent = NoAsg
        PROVE  \E b \in Known : Root(b) = t /\ Speaks(asg'[b])
    <3>1. PICK b \in Known : Root(b) = t /\ Speaks(asg[b])
      BY <2>1 DEF RoundInv, ChainsSpeak
    <3>2. CASE b # a
      BY <1>1, <3>1, <3>2 DEF Speaks
    <3>3. CASE b = a
      <4>1. ASSUME row.role \in Scouts PROVE FALSE
        <5>1. Root(a) = a
          BY <4>1 DEF RoundInv, RowsFit, RowFits, Root
        <5>2. QED
          BY <2>1, <3>1, <3>3, <4>1, <5>1
      <4>2. QED
        BY <1>1, <3>1, <3>3, <4>1
    <3>4. QED
      BY <3>2, <3>3
  <2>2. QED
    BY <1>1, <1>2, <2>1 DEF ChainsSpeak, Speaks
<1>8. QED
  BY <1>3, <1>4, <1>5, <1>6, <1>7 DEF RoundInv

LEMMA EndKeepsRounds ==
    ASSUME TypeOK, ParentsExist, RoundInv, NEW a \in AsgId, NEW k \in ReplyKinds,
           SettlesOnly(a, k), Ends(a, k)
    PROVE  RoundInv'
<1>1. a \in Known /\ asg[a].state \in Open /\ asg[a].state # "none"
  BY DEF SettlesOnly, Known, Open
<1>2. PICK row : row = Settled(a, k)
  OBVIOUS
<1>3. /\ row.state = SettledState(k) /\ row.role = asg[a].role /\ row.kind = asg[a].kind
      /\ row.parent = asg[a].parent /\ row.round = asg[a].round
  BY <1>1, <1>2, SettledType
<1>4. RowFits(asg[a])
  BY <1>1 DEF RoundInv, RowsFit
<1>5. asg' = [asg EXCEPT ![a] = row]
  BY <1>2 DEF SettlesOnly
<1>6. /\ RowFits(row) /\ row.state # "none"
      /\ Speaks(row) \/ row.role \in Scouts
      /\ row.state = "completed" => row.role \in Scouts
      /\ row.state = "rejected" => row.round = MaxRounds
  BY <1>3, <1>4 DEF Ends, SettledState, RowFits, Speaks, Open
<1>7. QED
  BY <1>1, <1>3, <1>5, <1>6, TurnKeepsRounds

LEMMA ActivationKeepsRounds ==
    ASSUME TypeOK, ParentsExist, RoundInv, NEW a \in AsgId, Activate(a)
    PROVE  RoundInv'
<1>1. a \in Known /\ asg[a].state \in Open
  BY DEF Activate, Known, Open
<1>2. asg[a] \in Assignment /\ RowFits(asg[a])
  BY <1>1, KnownRows DEF RoundInv, RowsFit
<1>3. PICK row : row = [asg[a] EXCEPT !.state = "active"]
  OBVIOUS
<1>4. /\ row.state = "active" /\ row.role = asg[a].role /\ row.kind = asg[a].kind
      /\ row.parent = asg[a].parent /\ row.round = asg[a].round
  BY <1>2, <1>3 DEF Assignment
<1>5. asg' = [asg EXCEPT ![a] = row]
  BY <1>1, <1>3 DEF Activate, TypeOK
<1>6. /\ RowFits(row) /\ Speaks(row) /\ row.state \notin {"none", "completed", "rejected"}
  BY <1>2, <1>4 DEF RowFits, Speaks, Open
<1>7. QED
  BY <1>1, <1>4, <1>5, <1>6, TurnKeepsRounds

\* A follow-up is one place further than the row it follows, which was the last.
LEMMA FollowUpKeepsRounds ==
    ASSUME TypeOK, ChainInv, RoundInv, NEW a \in AsgId, NEW k \in ReplyKinds,
           NEW f \in Assignment, SettlesAndAdds(a, k, f), GoesOn(a, k, f)
    PROVE  RoundInv'
<1>0. PICK n \in AsgId : n = nextAsg
  BY DEF SettlesAndAdds
<1>1. PICK row : row = Settled(a, k)
  OBVIOUS
<1>2. a \in Known /\ asg[a].state \in Open /\ n \notin Known /\ asg[a].state # "none" /\ n # a
  BY <1>0 DEF SettlesAndAdds, Known, Open, TypeOK, AsgId
<1>3. /\ row.state = k /\ row.role = asg[a].role /\ row.kind = asg[a].kind
      /\ row.parent = asg[a].parent /\ row.round = asg[a].round
  BY <1>1, <1>2, SettledType DEF SettlesAndAdds, SettledState
<1>4. /\ Known' = Known \cup {n} /\ asg'[a] = row /\ asg'[n] = f
      /\ \A b \in Known \ {a} : asg'[b] = asg[b]
  BY <1>0, <1>1, <1>2, <1>3 DEF SettlesAndAdds, TypeOK, Known, AsgId
<1>5. /\ \A b \in Known : Root(b)' = Root(b)
      /\ Root(n)' = Root(a)
  <2>1. f.parent # NoAsg
    BY DEF SettlesAndAdds, AsgId, NoAsg
  <2>2. \A b \in Known : asg'[b].parent = asg[b].parent
    BY <1>3, <1>4
  <2>3. QED
    BY <1>4, <2>1, <2>2 DEF Root, SettlesAndAdds
<1>6. \A b \in Known : /\ asg'[b].role = asg[b].role /\ asg'[b].round = asg[b].round
                       /\ asg'[b].kind = asg[b].kind /\ asg'[b].parent = asg[b].parent
                       /\ asg[b].round \in 0 .. MaxRounds
                       /\ asg'[b].state \in Open => asg[b].state \in Open /\ b # a
                       /\ Root(b) < nextAsg /\ Root(b) \in AsgId
  <2>1. row.state \notin Open
    BY <1>3 DEF SettlesAndAdds, Open
  <2>2. QED
    BY <1>3, <1>4, <2>1, KnownRows DEF ChainInv
<1>7. /\ f.state = "queued" /\ f.state \in Open /\ f.parent # NoAsg /\ f.round \in 0 .. MaxRounds
      /\ f.role \in {"worker", "reviewer"} /\ f.role \notin Scouts
  BY DEF SettlesAndAdds, Open, AsgId, NoAsg, GoesOn, Assignment
<1>8. RowFits(asg[a]) /\ asg[a].round \in 0 .. MaxRounds
  BY <1>2, <1>6 DEF RoundInv, RowsFit
\* Nothing of the chain is as far as the follow-up, and nothing else is open.
<1>9. ASSUME NEW b \in Known, Root(b) = Root(a)
      PROVE  /\ NotAfter(asg[b], f)
             /\ ~(asg[b].role = f.role /\ asg[b].round = f.round)
             /\ b # a => asg[b].state \notin Open
  <2>1. NotAfter(asg[b], asg[a])
    BY <1>2, <1>9 DEF RoundInv, OpenIsLast
  <2>2. asg[b].round \in 0 .. MaxRounds
    BY <1>6
  <2>3. NotAfter(asg[b], f) /\ ~(asg[b].role = f.role /\ asg[b].round = f.round)
    BY <1>8, <2>1, <2>2 DEF NotAfter, GoesOn
  <2>4. b # a => asg[b].state \notin Open
    BY <1>2, <1>9 DEF ChainInv, OneOpenPerChain
  <2>5. QED
    BY <2>3, <2>4
<1>10. RowsFit'
  <2>1. RowFits(f) /\ RowFits(row)
    BY <1>3, <1>7, <1>8 DEF GoesOn, RowFits, Open
  <2>2. \A b \in Known' : RowFits(asg'[b])
    BY <1>4, <2>1 DEF RoundInv, RowsFit
  <2>3. QED
    BY <2>2 DEF RowsFit, RowFits
<1>11. ScoutsAreAlone'
  <2>1. asg[a].role \notin Scouts
    BY DEF GoesOn
  <2>2. ASSUME NEW b \in Known, NEW c \in Known, asg[b].role \in Scouts, Root(c) = b PROVE c = b
    BY <2>2 DEF RoundInv, ScoutsAreAlone
  <2>3. ASSUME NEW b \in Known, asg[b].role \in Scouts PROVE Root(a) # b
    BY <1>2, <2>1, <2>2, <2>3
  <2>4. QED
    BY <1>4, <1>5, <1>6, <1>7, <2>2, <2>3 DEF ScoutsAreAlone
<1>12. PlacesDiffer'
  BY <1>4, <1>5, <1>6, <1>9 DEF RoundInv, PlacesDiffer
<1>13. OpenIsLast'
  <2>1. ASSUME NEW b \in Known, NEW c \in Known, Root(b) = Root(c), asg'[c].state \in Open
        PROVE  NotAfter(asg'[b], asg'[c])
    BY <1>6, <2>1 DEF RoundInv, OpenIsLast, NotAfter
  <2>2. ASSUME NEW b \in Known, Root(b) = Root(a) PROVE NotAfter(asg'[b], f)
    BY <1>6, <1>9, <2>2 DEF NotAfter
  <2>3. ASSUME NEW b \in Known, Root(b) = Root(a) PROVE asg'[b].state \notin Open
    BY <1>6, <1>9, <2>3
  <2>4. NotAfter(f, f)
    BY DEF NotAfter
  <2>5. \A b, c \in Known' :
           Root(b)' = Root(c)' /\ asg'[c].state \in Open => NotAfter(asg'[b], asg'[c])
    BY <1>4, <1>5, <2>1, <2>2, <2>3, <2>4
  <2>6. QED
    BY <2>5 DEF OpenIsLast, NotAfter
<1>14. RoundsFollow'
  <2>1. ASSUME NEW b \in Known \ {a}
        PROVE  /\ asg[b].role = "worker" /\ asg[b].state = "completed"
                    => \E c \in Known : Root(c) = Root(b) /\ asg[c].role = "reviewer"
                                        /\ asg[c].round = asg[b].round
               /\ asg[b].state = "rejected" /\ asg[b].round < MaxRounds
                    => \E c \in Known : Root(c) = Root(b) /\ asg[c].role = "worker"
                                        /\ asg[c].round = asg[b].round + 1
    BY DEF RoundInv, RoundsFollow
  <2>2. /\ row.role = "worker" /\ row.state = "completed"
             => f.role = "reviewer" /\ f.round = row.round
        /\ row.state = "rejected" => f.role = "worker" /\ f.round = row.round + 1
    BY <1>3 DEF GoesOn
  <2>3. f.state \notin {"completed", "rejected"}
    BY <1>7
  <2>4. ASSUME NEW b \in Known', asg'[b].role = "worker", asg'[b].state = "completed"
        PROVE  \E c \in Known' : Root(c)' = Root(b)' /\ asg'[c].role = "reviewer"
                                 /\ asg'[c].round = asg'[b].round
    BY <1>2, <1>4, <1>5, <1>6, <2>1, <2>2, <2>3, <2>4
  <2>5. ASSUME NEW b \in Known', asg'[b].state = "rejected", asg'[b].round < MaxRounds
        PROVE  \E c \in Known' : Root(c)' = Root(b)' /\ asg'[c].role = "worker"
                                 /\ asg'[c].round = asg'[b].round + 1
    BY <1>2, <1>4, <1>5, <1>6, <2>1, <2>2, <2>3, <2>5
  <2>6. QED
    BY <2>4, <2>5 DEF RoundsFollow
<1>15. ChainsSpeak'
  <2>1. ASSUME NEW t \in Known, asg[t].role = "worker", asg[t].parent = NoAsg
        PROVE  \E b \in Known' : Root(b)' = t /\ Speaks(asg'[b])
    <3>1. CASE Root(a) = t
      BY <1>4, <1>5, <1>7, <3>1 DEF Speaks
    <3>2. CASE Root(a) # t
      <4>1. PICK b \in Known : Root(b) = t /\ Speaks(asg[b])
        BY <2>1 DEF RoundInv, ChainsSpeak
      <4>2. QED
        BY <1>4, <1>5, <3>2, <4>1
    <3>3. QED
      BY <3>1, <3>2
  <2>2. QED
    BY <1>4, <1>6, <1>7, <2>1 DEF ChainsSpeak, Speaks
<1>16. QED
  BY <1>10, <1>11, <1>12, <1>13, <1>14, <1>15 DEF RoundInv

LEMMA RoundStep == TypeOK /\ ChainInv /\ RoundInv /\ [Next]_rvars => RoundInv'
<1> SUFFICES ASSUME TypeOK, ChainInv, RoundInv, [Next]_rvars PROVE RoundInv'
  OBVIOUS
<1>1. ParentsExist
  BY DEF ChainInv
<1>2. CASE Next
  BY <1>1, <1>2, RoundShapes, TaskKeepsRounds, ActivationKeepsRounds, EndKeepsRounds,
     FollowUpKeepsRounds
<1>3. CASE UNCHANGED rvars
  <2>1. asg' = asg /\ nextAsg' = nextAsg
    BY <1>3 DEF rvars
  <2>2. QED
    BY <2>1 DEF RoundInv, RowsFit, RowFits, ScoutsAreAlone, PlacesDiffer, OpenIsLast,
                NotAfter, RoundsFollow, ChainsSpeak, Speaks, Known, Root
<1>4. QED
  BY <1>2, <1>3

LEMMA RoundStart == Init => TypeOK /\ ChainInv /\ RoundInv
<1> SUFFICES ASSUME Init PROVE TypeOK /\ ChainInv /\ RoundInv
  OBVIOUS
<1>1. Known = {}
  BY DEF Init, Known, Absent
<1>2. TypeOK
  BY DEF Init, TypeOK, AsgId, Absent
<1>3. QED
  BY <1>1, <1>2 DEF ChainInv, OneOpenPerChain, ParentsExist, RoundInv, RowsFit, ScoutsAreAlone,
                    PlacesDiffer, OpenIsLast, RoundsFollow, ChainsSpeak

LEMMA AllStep == TypeOK /\ ChainInv /\ RoundInv /\ [Next]_rvars => (TypeOK /\ ChainInv /\ RoundInv)'
<1>1. ChainInv /\ UNCHANGED rvars => ChainInv'
  BY DEF rvars, ChainInv, OneOpenPerChain, ParentsExist, Known, Root
<1>2. QED
  BY <1>1, TypeStep, ChainStep, RoundStep

\* Every completed task or fix has exactly one review of its round, and every
\* rejection before the limit exactly one fix of the next round.
THEOREM RoundsComplete == Spec => []RoundsAreComplete
<1>1. TypeOK /\ ChainInv /\ RoundInv => RoundsAreComplete
  <2> SUFFICES ASSUME TypeOK, ChainInv, RoundInv, NEW a \in Known
               PROVE  /\ asg[a].role = "worker" /\ asg[a].state = "completed"
                           => \E b \in Chain(Root(a)) :
                                 /\ asg[b].kind = "review" /\ asg[b].round = asg[a].round
                                 /\ \A c \in Chain(Root(a)) \ {b} :
                                       ~(asg[c].kind = "review" /\ asg[c].round = asg[a].round)
                      /\ asg[a].state = "rejected" /\ asg[a].round < MaxRounds
                           => \E b \in Chain(Root(a)) :
                                 /\ asg[b].role = "worker" /\ asg[b].round = asg[a].round + 1
                                 /\ \A c \in Chain(Root(a)) \ {b} :
                                       ~(asg[c].role = "worker" /\ asg[c].round = asg[a].round + 1)
    BY DEF RoundsAreComplete
  <2>1. \A b, c \in Known :
           Root(b) = Root(c) /\ asg[b].role = asg[c].role /\ asg[b].round = asg[c].round => b = c
    BY DEF RoundInv, PlacesDiffer
  <2>2. CASE asg[a].role = "worker" /\ asg[a].state = "completed"
    <3>1. PICK b \in Known : Root(b) = Root(a) /\ asg[b].role = "reviewer"
                             /\ asg[b].round = asg[a].round
      BY <2>2 DEF RoundInv, RoundsFollow
    <3>2. \A c \in Known : asg[c].kind = "review" => asg[c].role = "reviewer"
      BY KnownRows DEF ChainInv, RoundInv, RowsFit, RowFits, Owners, Roles
    <3>3. QED
      BY <2>1, <2>2, <3>1, <3>2 DEF Chain, RoundInv, RowsFit, RowFits
  <2>3. CASE asg[a].state = "rejected" /\ asg[a].round < MaxRounds
    <3>1. PICK b \in Known : Root(b) = Root(a) /\ asg[b].role = "worker"
                             /\ asg[b].round = asg[a].round + 1
      BY <2>3 DEF RoundInv, RoundsFollow
    <3>2. QED
      BY <2>1, <2>3, <3>1 DEF Chain
  <2>4. QED
    BY <2>2, <2>3
<1>2. QED
  BY RoundStart, AllStep, <1>1, PTL DEF Spec

\* A chain none of which is open any more holds an approval or the rejection of
\* its last round.
THEOREM ChainsEndInVerdicts == Spec => []ClosedChainHasVerdict
<1>1. TypeOK /\ ChainInv /\ RoundInv => ClosedChainHasVerdict
  BY DEF RoundInv, ChainsSpeak, Speaks, ClosedChainHasVerdict, Chain
<1>2. QED
  BY RoundStart, AllStep, <1>1, PTL DEF Spec
=============================================================================
