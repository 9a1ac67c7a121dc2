--------------------------- MODULE MCMissionStore ---------------------------
(***************************************************************************)
(* Instances of MissionStore for TLC.                                      *)
(***************************************************************************)
EXTENDS MissionStore, TLC, FiniteSets

CONSTANTS d1, d2

\* What the PM dispatches.
ScoutTasks  == {<<"scout", "task">>}
WorkerTasks == {<<"worker", "task">>}
BothTasks   == ScoutTasks \cup WorkerTasks

\* Delivery passes are interchangeable.
DriverSymmetry == Permutations(Drivers)

\* The run `deliveries' looks at three regions of one state space.  Within them a
\* state's successors are all generated and checked; a successor outside all of
\* them is checked too, and not followed.
OnlyOf(roles) == \A a \in AsgId : asg[a].state # "none" => asg[a].role \in roles

\* Two passes, slow prompts, expired leases, a crash and a role replacement over
\* two tasks.
LeaseRegion == OnlyOf({"scout"}) /\ nextAsg <= 3 /\ nextOut <= 3 /\ settledSeqs = {}

\* Replies and settled events before, during and after the deliveries of a task.
ReplyRegion == OnlyOf({"scout"}) /\ nextAsg <= 2 /\ nextOut <= 4

\* A task that is reviewed, fixed and judged again; deliveries succeed or fail, one at a time.
ReviewRegion ==
    /\ OnlyOf({"worker", "reviewer"})
    /\ Cardinality({d \in Drivers : drv[d] # Idle}) <= 1
    /\ settledSeqs = {} /\ crashes = 0 /\ \A r \in Roles : gen[r] <= 1
    /\ \A d \in Drivers : drv[d].age = 0
    /\ \A o \in OutId : outbox[o].attempts <= 1 /\ outbox[o].age \in {0, Long}

InRegion == LeaseRegion \/ ReplyRegion \/ ReviewRegion
=============================================================================
