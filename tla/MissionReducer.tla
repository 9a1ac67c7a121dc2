--------------------------- MODULE MissionReducer ---------------------------
(***************************************************************************)
(* The assignment life cycle of one mission, as the kernel reducer decides *)
(* it (src/src/domain.rs, MemoryCoordinationStore::apply_handle).  This is *)
(* what the durable store promises to its callers: which assignments exist,*)
(* who owns them, in which state they are and which ledger entry settled   *)
(* them.  Delivery -- how an assignment comes to be activated -- is not    *)
(* visible here; module MissionStore models it and implements this module. *)
(*                                                                         *)
(* One action stands for one committed transition of the reducer.  An      *)
(* input the reducer rejects, or answers with a Duplicate receipt, leaves  *)
(* the assignments as they are and is a stuttering step.                   *)
(***************************************************************************)
EXTENDS Naturals

CONSTANTS
    Scouts,     \* scout instances ("scout", "scout-2", ...); any number of them
    MaxRounds,  \* max_review_rounds: 3 in store.rs
    MaxAsg      \* bound: how many assignments a behaviour may create

ASSUME ScoutsAssumption == Scouts \cap {"pm", "worker", "reviewer"} = {}
ASSUME BoundsAssumption == MaxRounds \in Nat /\ MaxAsg \in Nat

Roles  == {"pm", "worker", "reviewer"} \cup Scouts
Owners == Roles \ {"pm"}
AsgId  == 1 .. MaxAsg
NoAsg  == 0

Kinds      == {"task", "fix", "review"}
ReplyKinds == {"completed", "finding", "blocked", "approved", "rejected"}

Open     == {"queued", "active", "blocked"}
Terminal == {"completed", "approved", "rejected"}
States   == Open \cup Terminal

VARIABLES
    asg,     \* [AsgId -> Assignment \cup {Absent}]: table assignments and the ledger kind
    nextAsg  \* identifier the next assignment gets (unique_id in the code)

rvars == <<asg, nextAsg>>

\* A row of table assignments; "last" is the kind of the last context_ledger
\* entry its owner made for it ("none" when there is none).
Assignment ==
    [state: States, role: Owners, kind: Kinds, parent: AsgId \cup {NoAsg},
     round: 0 .. MaxRounds, last: ReplyKinds \cup {"none"}]

Absent == [state |-> "none", role |-> "pm", kind |-> "task", parent |-> NoAsg,
           round |-> 0, last |-> "none"]

Known == {a \in AsgId : asg[a].state # "none"}

-----------------------------------------------------------------------------
\* Which commands the reducer accepts.

\* The kinds the PM may dispatch to a role.  A parentless review is refused
\* before the database is opened, so reviews only come from follow-ups.
AssignmentKindAllowed(r, k) ==
    \/ r = "worker" /\ k \in {"task", "fix"}
    \/ r \in Scouts /\ k = "task"

ReplyKindAllowed(r, k) ==
    \/ r = "worker"   /\ k \in {"completed", "blocked"}
    \/ r \in Scouts   /\ k \in {"finding", "blocked"}
    \/ r = "reviewer" /\ k \in {"approved", "rejected", "blocked"}

SettledState(k) == IF k = "finding" THEN "completed" ELSE k

\* A role other than scout takes one queued or active assignment from the PM.
RoleCapacityHeld(r) ==
    /\ r \notin Scouts
    /\ \E a \in AsgId : asg[a].role = r /\ asg[a].state \in {"queued", "active"}

\* Mutant: a delivery does not look for another active assignment.
NeverActiveElsewhere(a) == FALSE

\* Another assignment of the same target is active: a delivery may not activate
\* a second one.
ActiveElsewhere(a) ==
    \E b \in AsgId \ {a} : asg[b].role = asg[a].role /\ asg[b].state = "active"

\* Mutant: a late reply is applied whatever became of the assignment.
ReplyAcceptedLate(a, k) ==
    asg[a].state # "none" /\ asg[a].state # "queued" /\ ReplyKindAllowed(asg[a].role, k)

\* A reply is applied to an active assignment, or to a blocked one when it says
\* something other than the last ledger entry.
ReplyAccepted(a, k) ==
    /\ asg[a].state \in {"active", "blocked"}
    /\ ReplyKindAllowed(asg[a].role, k)
    /\ asg[a].state = "blocked" => asg[a].last # k

-----------------------------------------------------------------------------
\* What a reply creates.

Root(a) == IF asg[a].parent = NoAsg THEN a ELSE asg[a].parent

NewAssignment(r, k, parent, round) ==
    [state |-> "queued", role |-> r, kind |-> k, parent |-> parent,
     round |-> round, last |-> "none"]

\* Mutant: the fix keeps the round of the review that rejected it.
FollowUpsSameRound(a, k) ==
    IF asg[a].role = "worker" /\ k = "completed"
      THEN {NewAssignment("reviewer", "review", Root(a), asg[a].round)}
    ELSE IF asg[a].role = "reviewer" /\ k = "rejected" /\ asg[a].round + 1 <= MaxRounds
      THEN {NewAssignment("worker", "fix", Root(a), asg[a].round)}
    ELSE {}

\* Mutant: the last round is refused a fix.
FollowUpsStopEarly(a, k) ==
    IF asg[a].role = "worker" /\ k = "completed"
      THEN {NewAssignment("reviewer", "review", Root(a), asg[a].round)}
    ELSE IF asg[a].role = "reviewer" /\ k = "rejected" /\ asg[a].round + 1 < MaxRounds
      THEN {NewAssignment("worker", "fix", Root(a), asg[a].round + 1)}
    ELSE {}

\* A completed task or fix asks for a review; a rejected review asks for a fix
\* unless that would be round MaxRounds + 1 (review_limit_reached).
FollowUps(a, k) ==
    IF asg[a].role = "worker" /\ k = "completed"
      THEN {NewAssignment("reviewer", "review", Root(a), asg[a].round)}
    ELSE IF asg[a].role = "reviewer" /\ k = "rejected" /\ asg[a].round + 1 <= MaxRounds
      THEN {NewAssignment("worker", "fix", Root(a), asg[a].round + 1)}
    ELSE {}

\* Mutant: the reply reaches the ledger but not the assignment's state.
SettledInLedgerOnly(a, k) == [asg[a] EXCEPT !.last = k]

Settled(a, k) == [asg[a] EXCEPT !.state = SettledState(k), !.last = k]

-----------------------------------------------------------------------------
Init == asg = [a \in AsgId |-> Absent] /\ nextAsg = 1

\* PM command task/fix.
Dispatch(r, k) ==
    /\ AssignmentKindAllowed(r, k)
    /\ ~RoleCapacityHeld(r)
    /\ nextAsg \in AsgId
    /\ asg' = [asg EXCEPT ![nextAsg] = NewAssignment(r, k, NoAsg, 0)]
    /\ nextAsg' = nextAsg + 1

\* EffectResult Succeeded for the assignment's delivery effect.
Activate(a) ==
    /\ asg[a].state = "queued"
    /\ ~ActiveElsewhere(a)
    /\ asg' = [asg EXCEPT ![a].state = "active"]
    /\ UNCHANGED nextAsg

\* Reply command from the owner to the PM.
Reply(a, k) ==
    /\ ReplyAccepted(a, k)
    /\ \/ /\ FollowUps(a, k) = {}
          /\ asg' = [asg EXCEPT ![a] = Settled(a, k)]
          /\ UNCHANGED nextAsg
       \/ /\ nextAsg \in AsgId
          /\ \E f \in FollowUps(a, k) :
                asg' = [asg EXCEPT ![a] = Settled(a, k), ![nextAsg] = f]
          /\ nextAsg' = nextAsg + 1

\* Mutant: the assignment is blocked without a ledger entry.
BlockSilently(a) ==
    /\ asg[a].state = "active"
    /\ asg' = [asg EXCEPT ![a].state = "blocked"]
    /\ UNCHANGED nextAsg

\* The agent's turn ended without a reply and cannot be resumed: the store
\* blocks the assignment on the owner's behalf.
Block(a) ==
    /\ asg[a].state = "active"
    /\ asg' = [asg EXCEPT ![a] = Settled(a, "blocked")]
    /\ UNCHANGED nextAsg

Next ==
    \/ \E r \in Owners, k \in Kinds : Dispatch(r, k)
    \/ \E a \in AsgId : Activate(a) \/ Block(a)
    \/ \E a \in AsgId, k \in ReplyKinds : Reply(a, k)

Spec == Init /\ [][Next]_rvars

-----------------------------------------------------------------------------
\* Rows exist exactly below the next identifier, and each has its fields' types.
TypeOK ==
    /\ nextAsg \in 1 .. MaxAsg + 1
    /\ asg \in [AsgId -> Assignment \cup {Absent}]
    /\ \A a \in AsgId : asg[a].state = "none" <=> a >= nextAsg

\* No role ever works on two assignments at once, however many are queued for it
\* by the PM and by review follow-ups (which do not ask for capacity).
OneActivePerRole ==
    \A a, b \in Known :
        asg[a].role = asg[b].role /\ asg[a].state = "active" /\ asg[b].state = "active"
          => a = b

\* The chain of a task: the task itself, its reviews and its fixes.
Chain(t) == {a \in Known : Root(a) = t}

\* A chain is worked on in one place only: while a task, fix or review of it is
\* queued, active or blocked nothing else of the chain is.
OneOpenPerChain ==
    \A a, b \in Known :
        Root(a) = Root(b) /\ asg[a].state \in Open /\ asg[b].state \in Open => a = b

\* A review round is never lost or repeated: what the worker completed has
\* exactly one review of the same round, and what the reviewer rejected has
\* exactly one fix of the next round, until the limit.
RoundsAreComplete ==
    \A a \in Known :
        /\ asg[a].role = "worker" /\ asg[a].state = "completed"
             => \E b \in Chain(Root(a)) :
                   /\ asg[b].kind = "review" /\ asg[b].round = asg[a].round
                   /\ \A c \in Chain(Root(a)) \ {b} :
                         ~(asg[c].kind = "review" /\ asg[c].round = asg[a].round)
        /\ asg[a].state = "rejected" /\ asg[a].round < MaxRounds
             => \E b \in Chain(Root(a)) :
                   /\ asg[b].role = "worker" /\ asg[b].round = asg[a].round + 1
                   /\ \A c \in Chain(Root(a)) \ {b} :
                         ~(asg[c].role = "worker" /\ asg[c].round = asg[a].round + 1)

\* The ledger explains every settled assignment and no other: the state of an
\* assignment is the one its owner's last ledger entry announces.
StateMatchesLedger ==
    \A a \in Known :
        IF asg[a].state \in {"queued", "active"}
          THEN asg[a].last = "none"
          ELSE asg[a].last # "none" /\ asg[a].state = SettledState(asg[a].last)

\* A verdict or a completion is final: no late delivery, late reply or settled
\* event ever reopens the assignment or rewrites what it was.
TerminalIsFinal ==
    [][\A a \in AsgId : asg[a].state \in Terminal => asg'[a] = asg[a]]_rvars

\* A chain never dies silently: once nothing of it is open,
\* it holds an approval, or the rejection of its last round.
ClosedChainHasVerdict ==
    \A t \in Known :
        asg[t].role = "worker" /\ asg[t].parent = NoAsg
          /\ (\A a \in Chain(t) : asg[a].state \notin Open)
            => \E a \in Chain(t) :
                  \/ asg[a].state = "approved"
                  \/ asg[a].state = "rejected" /\ asg[a].round = MaxRounds
=============================================================================
