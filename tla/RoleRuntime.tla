---------------------------- MODULE RoleRuntime ----------------------------
(***************************************************************************)
(* The runtime side of a mission's roles: which pane and which agent a     *)
(* role has, and who may launch it.                                        *)
(*                                                                         *)
(* Tables (src/src/creation.rs, src/src/store.rs): team_roles and          *)
(* role_launch_leases.  Writers: any number of launch_mission and          *)
(* start_role processes (src/src/runtime.rs), which look at panes, split   *)
(* panes and start agents between their transactions; the command `join'   *)
(* (src/src/cli.rs), which makes a user's agent a role; the command        *)
(* `reconcile', which records who is still there; and clients that send    *)
(* the kernel RoleLaunchRequest and RoleObservation inputs.  One action is *)
(* one transaction or one Herdr call.  Panes and agents have a life of     *)
(* their own: agents come up late and exit, users open and close panes,    *)
(* and processes die at any step.                                          *)
(*                                                                         *)
(* Left out: mission_state.stage, which a run sets at its end and nothing  *)
(* here reads; the message of `join' to the PM; a scout's copy of its row  *)
(* in expert_instances, which nothing here reads; last_seen_rev; and       *)
(* session_json, which an observation may set, and updated_at, a           *)
(* second-grained stamp.  These are only compared: the snapshots here are  *)
(* equal at least as often as the program's.  A staged replacement has no  *)
(* session, because staging clears it and deletes the lease that an        *)
(* observation needs.                                                      *)
(***************************************************************************)
EXTENDS Integers, Sequences

CONSTANTS
    TeamRoles,      \* roles
    Launchers,      \* processes that run launch_mission or start_role
    LeaseOwners,    \* clients that send RoleLaunchRequest
    Missions,       \* bound: the missions a behaviour may be about, who takes part, and
                    \* the panes (NoPane: none) that clients' observations name
    LiveHealth,     \* the statuses Herdr reports of an agent that is there
    Anchors,        \* bound: the panes start_role's caller names
    MaxPane,        \* bound: panes that are ever opened; pane 1 is the root pane
    MaxLaunchGen    \* bound: launch generations that are ever allocated

VARIABLES
    mission,    \* the mission: its roles in order, its launch mode, who takes part
    row,        \* [TeamRoles -> Rows]: table team_roles
    lease,      \* [TeamRoles -> Leases]: table role_launch_leases
    nextGen,    \* the launch generation allocated next
    terms,      \* the launches their clients take themselves to hold
    nextPane,   \* the pane Herdr opens next
    openPanes,  \* the panes that exist
    agent,      \* [LivePanes -> Agents]: what runs in a pane
    launcher,   \* [Launchers -> process]
    scan,       \* the reconciliation that holds the write lock, if any
    strays      \* history: the panes a role was taken from, or that `join' put it in

herdrVars == <<nextPane, openPanes, agent>>
kernelVars == <<lease, nextGen, terms>>
runtimeVars == <<mission, row, kernelVars, herdrVars, launcher, scan, strays>>

NoPane == 0
RootPane == 1
LivePanes == 1 .. MaxPane
LaunchGens == 0 .. MaxLaunchGen     \* 0 is the empty string
Nobody == "nobody"
FenceOwner == "role-runtime-replacement-fence"

ASSUME RuntimeAssumption ==
    /\ Missions \subseteq [team : Seq(TeamRoles), manual : BOOLEAN, reconciles : BOOLEAN,
                           users : SUBSET LivePanes, launchers : SUBSET Launchers, owners : SUBSET LeaseOwners,
                           told : SUBSET ({NoPane} \cup LivePanes)]
    /\ \A m \in Missions : \A i, j \in DOMAIN m.team : m.team[i] = m.team[j] => i = j
    /\ Nobody \notin LeaseOwners /\ FenceOwner \notin LeaseOwners
    /\ TeamRoles # {} /\ Nobody \notin TeamRoles
    /\ LiveHealth \cap {"starting", "missing"} = {}
    /\ MaxPane \in Nat \ {0} /\ MaxLaunchGen \in Nat
    /\ Anchors \subseteq 1 .. MaxPane

-----------------------------------------------------------------------------
\* Rows, leases, agents and processes.

GoneHealth == {"unknown", "done", "stopped", "missing"}     \* RoleState::Stopped
Healths == GoneHealth \cup {"starting", "idle"} \cup LiveHealth

\* "named" says that terminal_id holds the agent's name: the launch completed.
Rows == [pane : {NoPane} \cup LivePanes, named : BOOLEAN, gen : LaunchGens,
         health : Healths]

\* "live" says that expires_at lies in the future.
Leases == [owner : LeaseOwners \cup {Nobody, FenceOwner}, gen : LaunchGens,
           live : BOOLEAN]
NoLease == [owner |-> Nobody, gen |-> 0, live |-> FALSE]

\* Mutant: a fence expires like a lease.
FenceExpired(g) == [owner |-> FenceOwner, gen |-> g, live |-> FALSE]

\* It never expires.
Fence(g) == [owner |-> FenceOwner, gen |-> g, live |-> TRUE]
Fenced(r) == lease[r].owner = FenceOwner

\* "late": `agent start` timed out and the pane still looks empty; "pending":
\* the agent shows and has no session yet.  A user's own agent is nobody's.
Agents == [role : TeamRoles \cup {Nobody}, state : {"none", "late", "pending", "ready"}]
Runs(r, s) == [role |-> r, state |-> s]
LooksEmpty(p) == agent[p].state \in {"none", "late"}
Ready(p) == p \in openPanes /\ agent[p].state = "ready"

\* query_role_runtime_binding, and is_staged_replacement_for on what it returned.
Binding(r) == [row |-> row[r], lease |-> lease[r]]
NoSnap == [row |-> [pane |-> NoPane, named |-> FALSE, gen |-> 0, health |-> "unknown"],
           lease |-> NoLease]
StagedFor(snap, p) ==
    /\ p # NoPane /\ snap.row.pane = p /\ ~snap.row.named
    /\ snap.row.health = "starting" /\ snap.lease = NoLease

\* A process is at one role of its run.  "seen" is what read_role_runtime said
\* when the run began, "anchor" the pane start_role splits beside (launch_mission
\* has none), "snap" the binding its next transaction expects, "fresh" whether
\* a busy pane may be tried again.
Processes == [pc : {"idle", "role", "split", "stage", "fence", "ensure", "busy",
                    "adopt", "record"},
              role : TeamRoles, todo : Seq(TeamRoles),
              seen : [TeamRoles -> [pane : {NoPane} \cup LivePanes, named : BOOLEAN]],
              anchor : {NoPane} \cup LivePanes, pane : {NoPane} \cup LivePanes,
              snap : [row : Rows, lease : Leases], fresh : BOOLEAN]
Resting == [pc |-> "idle", role |-> CHOOSE r \in TeamRoles : TRUE, todo |-> << >>,
            seen |-> [r \in TeamRoles |-> [pane |-> NoPane, named |-> FALSE]],
            anchor |-> NoPane, pane |-> NoPane, snap |-> NoSnap, fresh |-> FALSE]

\* The PM of a team, or the worker of a simple mission, lives in the root pane.
InRootPane(r) == r = "pm" \/ mission.team = <<"worker">>

At(l, pc) == launcher[l].pc = pc
Seen(l) == launcher[l].seen[launcher[l].role]
Goto(l, pc) == launcher' = [launcher EXCEPT ![l].pc = pc]

\* The role is bound to a pane whatever it was bound to before.
Rebinds(r, p) ==
    strays' = IF row[r].pane \in {NoPane, p} THEN strays
              ELSE strays \cup {<<r, row[r].pane>>}

\* The write lock is free: no reconciliation is between its read and its write.
NoScan == [on |-> FALSE, live |-> {}, rows |-> [r \in TeamRoles |-> NoSnap.row]]
\* Mutant: the agents are listed outside the transaction.
NeverLocked == TRUE

Unlocked == ~scan.on

RuntimeInit ==
    /\ mission \in Missions
    /\ row = [r \in TeamRoles |-> NoSnap.row]
    /\ lease = [r \in TeamRoles |-> NoLease]
    /\ nextGen = 1 /\ terms = {}
    /\ nextPane = RootPane + 1 /\ openPanes = {RootPane}
    /\ agent = [p \in LivePanes |-> Runs(Resting.role, "none")]
    /\ launcher = [l \in Launchers |-> Resting]
    /\ scan = NoScan
    /\ strays = {}

-----------------------------------------------------------------------------
\* The run of a launcher.

\* launch_mission (every role, no anchor) or start_role (one role, beside the
\* pane its caller names) reads every role's row, once.
Begin(l, todo, anchor) ==
    /\ At(l, "idle") /\ todo # << >> /\ l \in mission.launchers
    /\ launcher' = [launcher EXCEPT ![l] = [Resting EXCEPT
          !.pc = "role", !.role = Head(todo), !.todo = Tail(todo), !.anchor = anchor,
          !.seen = [r \in TeamRoles |-> [pane |-> row[r].pane, named |-> row[r].named]]]]
    /\ UNCHANGED <<mission, row, kernelVars, herdrVars, scan, strays>>

\* The next role, or the end of the run.
Advance(l) ==
    LET todo == launcher[l].todo IN
    launcher' = [launcher EXCEPT ![l] =
        IF todo = << >> THEN Resting
        ELSE [@ EXCEPT !.pc = "role", !.role = Head(todo), !.todo = Tail(todo),
                       !.pane = NoPane, !.snap = NoSnap, !.fresh = FALSE]]

\* Any call may fail and any process die, and the run with it.
Fail(l) ==
    /\ ~At(l, "idle")
    /\ launcher' = [launcher EXCEPT ![l] = Resting]
    /\ UNCHANGED <<mission, row, kernelVars, herdrVars, scan, strays>>

\* reconcile_completed_role: the agent of a completed role is still in its pane,
\* and is given the role's name again.
Reuse(l) ==
    LET p == Seen(l).pane IN
    /\ At(l, "role") /\ Seen(l).named
    /\ p # NoPane /\ Ready(p)
    /\ agent' = [agent EXCEPT ![p].role = launcher[l].role]
    /\ Advance(l)
    /\ UNCHANGED <<mission, row, kernelVars, nextPane, openPanes, scan, strays>>

\* Manual mode leaves a role without a pane to the PM.
Skip(l) ==
    /\ At(l, "role") /\ Seen(l).pane = NoPane
    /\ launcher[l].anchor = NoPane /\ mission.manual
    /\ ~InRootPane(launcher[l].role)
    /\ Advance(l)
    /\ UNCHANGED <<mission, row, kernelVars, herdrVars, scan, strays>>

\* A recorded pane that is open and whose launch did not complete is taken up
\* again, with the binding if it is a staged replacement.
Resume(l) ==
    LET p == Seen(l).pane
        b == Binding(launcher[l].role)
    IN  /\ At(l, "role") /\ ~Seen(l).named
        /\ p \in openPanes
        /\ launcher' = [launcher EXCEPT ![l] = [@ EXCEPT
              !.pc = "ensure", !.pane = p, !.fresh = FALSE,
              !.snap = IF StagedFor(b, p) THEN b ELSE NoSnap]]
        /\ UNCHANGED <<mission, row, kernelVars, herdrVars, scan, strays>>

\* A role without a pane gets the root pane or a new one.  A split whose answer
\* is lost leaves a pane nobody knows of.
Allocate(l) ==
    LET root == launcher[l].anchor = NoPane /\ InRootPane(launcher[l].role)
        beside == IF launcher[l].anchor = NoPane THEN RootPane ELSE launcher[l].anchor
    IN  /\ At(l, "role") /\ Seen(l).pane = NoPane
        /\ \/ /\ root
              /\ launcher' = [launcher EXCEPT ![l] = [@ EXCEPT
                    !.pc = "split", !.pane = RootPane, !.fresh = TRUE]]
              /\ UNCHANGED herdrVars
           \/ /\ ~root /\ beside \in openPanes /\ nextPane <= MaxPane
              /\ nextPane' = nextPane + 1
              /\ openPanes' = openPanes \cup {nextPane}
              /\ \/ launcher' = [launcher EXCEPT ![l] = [@ EXCEPT
                       !.pc = "split", !.pane = nextPane, !.fresh = TRUE]]
                 \/ launcher' = [launcher EXCEPT ![l] = Resting]
              /\ UNCHANGED agent
        /\ UNCHANGED <<mission, row, kernelVars, scan, strays>>

\* Mutant: a pane is recorded only once its agent runs.
RecordPaneLater(l) ==
    /\ At(l, "split") /\ Unlocked
    /\ Goto(l, "ensure")
    /\ UNCHANGED <<mission, row, kernelVars, herdrVars, scan, strays>>

\* record_role_pane: unconditional.
RecordPane(l) ==
    LET r == launcher[l].role
        p == launcher[l].pane
    IN  /\ At(l, "split") /\ Unlocked
        /\ row' = [row EXCEPT ![r] = [@ EXCEPT
                      !.pane = p, !.named = FALSE, !.health = "unknown"]]
        /\ Rebinds(r, p)
        /\ Goto(l, "ensure")
        /\ UNCHANGED <<mission, kernelVars, herdrVars, scan>>

\* find_role_replacement_anchor: start_role's caller has named the pane to split;
\* launch_mission takes the first one of the work region.
HasAnchor(l) ==
    IF launcher[l].anchor = NoPane THEN openPanes # {} ELSE launcher[l].anchor \in openPanes

\* A recorded pane that is gone is replaced: the binding must still be the one
\* the run saw.
Replace(l) ==
    LET r == launcher[l].role IN
    /\ At(l, "role") /\ Seen(l).pane \notin openPanes \cup {NoPane}
    /\ row[r].pane = Seen(l).pane /\ row[r].named = Seen(l).named
    /\ HasAnchor(l)
    /\ launcher' = [launcher EXCEPT ![l] = [@ EXCEPT
          !.pc = "stage", !.snap = Binding(r)]]
    /\ UNCHANGED <<mission, row, kernelVars, herdrVars, scan, strays>>

\* stage_role_runtime_replacement goes ahead: the binding has not changed since
\* it was read, and no launch of the role is under way.
MayStage(l) ==
    LET r == launcher[l].role IN
    /\ Binding(r) = launcher[l].snap
    /\ ~launcher[l].snap.lease.live

\* The pane is split inside the transaction; the role is bound to it, without
\* an agent, under a new generation.
Stage(l) ==
    LET r == launcher[l].role
        staged == [pane |-> nextPane, named |-> FALSE, gen |-> nextGen,
                   health |-> "starting"]
    IN  /\ At(l, "stage") /\ Unlocked /\ MayStage(l)
        /\ nextPane <= MaxPane /\ nextGen <= MaxLaunchGen
        /\ nextPane' = nextPane + 1 /\ openPanes' = openPanes \cup {nextPane}
        /\ nextGen' = nextGen + 1
        /\ row' = [row EXCEPT ![r] = staged]
        /\ lease' = [lease EXCEPT ![r] = NoLease]
        /\ launcher' = [launcher EXCEPT ![l] = [@ EXCEPT
              !.pc = "ensure", !.pane = nextPane, !.fresh = TRUE,
              !.snap = [row |-> staged, lease |-> NoLease]]]
        /\ UNCHANGED <<mission, terms, agent, scan, strays>>

\* What became of the split is not known, or its pane cannot be bound: a fence
\* keeps everyone from splitting again.  The pane may exist.
StageUncertain(l) ==
    LET r == launcher[l].role IN
    /\ At(l, "stage") /\ Unlocked /\ MayStage(l)
    /\ nextGen <= MaxLaunchGen /\ nextGen' = nextGen + 1
    /\ lease' = [lease EXCEPT ![r] = Fence(nextGen)]
    /\ \/ UNCHANGED herdrVars
       \/ /\ nextPane <= MaxPane
          /\ nextPane' = nextPane + 1 /\ openPanes' = openPanes \cup {nextPane}
          /\ UNCHANGED agent
    /\ launcher' = [launcher EXCEPT ![l] = Resting]
    /\ UNCHANGED <<mission, row, terms, scan, strays>>

\* The split succeeded and the commit did not: the pane exists, nothing says so.
StageLost(l) ==
    /\ At(l, "stage") /\ Unlocked /\ MayStage(l)
    /\ nextPane <= MaxPane
    /\ nextPane' = nextPane + 1 /\ openPanes' = openPanes \cup {nextPane}
    /\ Goto(l, "fence")
    /\ UNCHANGED <<mission, row, kernelVars, agent, scan, strays>>

\* fence_unstaged_role_runtime_replacement, if the binding is still the expected one.
FenceUnstaged(l) ==
    LET r == launcher[l].role IN
    /\ At(l, "fence") /\ Unlocked
    /\ Binding(r) = launcher[l].snap
    /\ nextGen <= MaxLaunchGen /\ nextGen' = nextGen + 1
    /\ lease' = [lease EXCEPT ![r] = Fence(nextGen)]
    /\ launcher' = [launcher EXCEPT ![l] = Resting]
    /\ UNCHANGED <<mission, row, terms, herdrVars, scan, strays>>

-----------------------------------------------------------------------------
\* ensure_agent_running: adopt what runs in the pane, or start an agent in it.

\* `agent start`: the agent is up, or shows up after the call has timed out.
StartAgent(l) ==
    LET p == launcher[l].pane IN
    /\ At(l, "ensure") /\ p \in openPanes
    /\ agent[p].state = "none"
    /\ \E s \in {"late", "pending", "ready"} :
          /\ agent' = [agent EXCEPT ![p] = Runs(launcher[l].role, s)]
          /\ Goto(l, IF s = "ready" THEN "record" ELSE "adopt")
    /\ UNCHANGED <<mission, row, kernelVars, nextPane, openPanes, scan, strays>>

\* `agent start` finds the pane busy.  What was staged before this run has been
\* looked at before, and is adopted rather than started if it shows an agent.
FindBusy(l) ==
    LET p == launcher[l].pane IN
    /\ At(l, "ensure") /\ p \in openPanes
    /\ agent[p].state # "none"
    /\ Goto(l, IF launcher[l].fresh \/ LooksEmpty(p) THEN "busy" ELSE "adopt")
    /\ UNCHANGED <<mission, row, kernelVars, herdrVars, scan, strays>>

\* adopt_running_agent: the agent that runs in the pane is given the role's name.
Adopt(l) ==
    LET p == launcher[l].pane IN
    /\ At(l, "busy") \/ At(l, "adopt")
    /\ Ready(p)
    /\ agent' = [agent EXCEPT ![p].role = launcher[l].role]
    /\ Goto(l, "record")
    /\ UNCHANGED <<mission, row, kernelVars, nextPane, openPanes, scan, strays>>

\* A busy pane that shows an agent is polled; one that shows none is tried again
\* if this run allocated it.
Await(l) ==
    LET p == launcher[l].pane IN
    /\ At(l, "busy") /\ p \in openPanes
    /\ \/ agent[p].state = "pending" /\ Goto(l, "adopt")
       \/ LooksEmpty(p) /\ launcher[l].fresh /\ Goto(l, "ensure")
    /\ UNCHANGED <<mission, row, kernelVars, herdrVars, scan, strays>>

\* finalize_role_runtime_replacement: only what was staged, and unchanged since.
Finalize(l) ==
    LET r == launcher[l].role IN
    /\ At(l, "record") /\ launcher[l].snap # NoSnap /\ Unlocked
    /\ Binding(r) = launcher[l].snap
    /\ row' = [row EXCEPT ![r] = [@ EXCEPT !.named = TRUE, !.health = "idle"]]
    /\ Advance(l)
    /\ UNCHANGED <<mission, kernelVars, herdrVars, scan, strays>>

\* record_role_runtime: unconditional.
RecordRuntime(l) ==
    LET r == launcher[l].role
        p == launcher[l].pane
    IN  /\ At(l, "record") /\ launcher[l].snap = NoSnap /\ Unlocked
        /\ row' = [row EXCEPT ![r] = [@ EXCEPT
                      !.pane = p, !.named = TRUE, !.health = "idle"]]
        /\ Rebinds(r, p)
        /\ Advance(l)
        /\ UNCHANGED <<mission, kernelVars, herdrVars, scan>>

\* `join': the agent of a pane is given the role's name, which must then be its
\* alone; record_role_runtime follows.
Join(l, r, p) ==
    /\ At(l, "idle") /\ l \in mission.launchers
    /\ Ready(p)
    /\ agent' = [agent EXCEPT ![p].role = r]
    /\ strays' = IF row[r].pane = p THEN strays ELSE strays \cup {<<r, p>>}
    /\ IF \A q \in openPanes \ {p} : ~(Ready(q) /\ agent[q].role = r)
       THEN launcher' = [launcher EXCEPT ![l] =
                [Resting EXCEPT !.pc = "record", !.role = r, !.pane = p]]
       ELSE UNCHANGED launcher
    /\ UNCHANGED <<mission, row, kernelVars, nextPane, openPanes, scan>>

-----------------------------------------------------------------------------
\* The command `reconcile', and the kernel's launch inputs.

\* BEGIN IMMEDIATE, then `agent list`: the agents and the panes they are in.
ReadAgents ==
    /\ Unlocked /\ mission.reconciles
    /\ scan' = [on |-> TRUE,
                live |-> {<<p, agent[p].role>> : p \in {q \in openPanes : Ready(q)}},
                rows |-> row]
    /\ UNCHANGED <<mission, row, kernelVars, herdrVars, launcher, strays>>

\* Every completed role takes the status of its agent, or "missing"; commit.
WriteHealth ==
    /\ scan.on
    /\ \E h \in LiveHealth :
          row' = [r \in TeamRoles |->
             IF row[r].pane = NoPane \/ ~row[r].named THEN row[r]
             ELSE [row[r] EXCEPT !.health =
                      IF <<row[r].pane, r>> \in scan.live THEN h ELSE "missing"]]
    /\ scan' = NoScan
    /\ UNCHANGED <<mission, kernelVars, herdrVars, launcher, strays>>

\* Mutant: a gone role may be launched whoever holds its lease.
MayLaunchGone(o, r, g) == row[r].gen \notin {0, g} => row[r].health \in GoneHealth

\* RoleLaunchRequest: a role gets another generation only while it is gone, and
\* a lease replaces only an expired one or itself.
MayLaunch(o, r, g) ==
    /\ row[r].gen \notin {0, g} => row[r].health \in GoneHealth
    /\ \/ ~lease[r].live
       \/ lease[r].owner = o /\ lease[r].gen = g

LaunchRequest(o, r, g) ==
    /\ Unlocked /\ MayLaunch(o, r, g)
    /\ row' = [row EXCEPT ![r] = [@ EXCEPT !.gen = g, !.health = "starting"]]
    /\ lease' = [lease EXCEPT ![r] = [owner |-> o, gen |-> g, live |-> TRUE]]
    /\ terms' = terms \cup {[owner |-> o, role |-> r, gen |-> g]}
    /\ UNCHANGED <<mission, herdrVars, launcher, scan, strays>>

RequestLaunch(o, r) ==
    \/ /\ row[r].gen # 0
       /\ LaunchRequest(o, r, row[r].gen) /\ UNCHANGED nextGen
    \/ /\ nextGen <= MaxLaunchGen
       /\ LaunchRequest(o, r, nextGen) /\ nextGen' = nextGen + 1

\* RoleObservation, from the owner of the unexpired lease and of its generation;
\* a role that is ready or gone gives the lease back.  Its details may name a
\* pane, one that exists or existed, or say that there is none, and an agent.
Observe(o, r, h) ==
    /\ Unlocked
    /\ lease[r] = [owner |-> o, gen |-> row[r].gen, live |-> TRUE]
    /\ \E p \in {q \in mission.told : q < nextPane} \cup {row[r].pane}, named \in BOOLEAN :
          /\ row' = [row EXCEPT ![r] = [@ EXCEPT
                        !.pane = p, !.named = named, !.health = h]]
          /\ Rebinds(r, p)
    /\ IF h = "starting" THEN UNCHANGED <<lease, terms>>
       ELSE /\ lease' = [lease EXCEPT ![r] = NoLease]
            /\ terms' = terms \ {[owner |-> o, role |-> r, gen |-> row[r].gen]}
    /\ UNCHANGED <<mission, nextGen, herdrVars, launcher, scan>>

-----------------------------------------------------------------------------
\* What happens by itself.

\* expires_at passes, for the table and for the client alike.
TermEnds(t) ==
    /\ terms' = terms \ {t}
    /\ lease' = [lease EXCEPT ![t.role] =
          IF @.owner = t.owner /\ @.gen = t.gen THEN [@ EXCEPT !.live = FALSE] ELSE @]
    /\ UNCHANGED <<mission, row, nextGen, herdrVars, launcher, scan, strays>>

AgentChanges(p) ==
    /\ p \in openPanes
    /\ \E step \in {<<"late", "pending">>, <<"pending", "ready">>, <<"ready", "none">>} :
          /\ agent[p].state = step[1]
          /\ agent' = [agent EXCEPT ![p].state = step[2]]
    /\ UNCHANGED <<mission, row, kernelVars, nextPane, openPanes, launcher, scan, strays>>

PaneCloses(p) ==
    /\ p \in openPanes
    /\ openPanes' = openPanes \ {p}
    /\ agent' = [agent EXCEPT ![p].state = "none"]
    /\ UNCHANGED <<mission, row, kernelVars, nextPane, launcher, scan, strays>>

\* A user starts an agent, perhaps in a pane of its own.
UserAgent(p) ==
    /\ p \in mission.users /\ (p \in openPanes \/ p = nextPane)
    /\ agent[p].state = "none"
    /\ openPanes' = openPanes \cup {p}
    /\ nextPane' = IF p = nextPane THEN nextPane + 1 ELSE nextPane
    /\ agent' = [agent EXCEPT ![p] = Runs(Nobody, "ready")]
    /\ UNCHANGED <<mission, row, kernelVars, launcher, scan, strays>>

LauncherStep(l) ==
    \/ Begin(l, mission.team, NoPane)
    \/ \E i \in DOMAIN mission.team, p \in Anchors : Begin(l, <<mission.team[i]>>, p)
    \/ Fail(l) \/ Reuse(l) \/ Skip(l) \/ Resume(l) \/ Allocate(l) \/ RecordPane(l)
    \/ Replace(l) \/ Stage(l) \/ StageUncertain(l) \/ StageLost(l) \/ FenceUnstaged(l)
    \/ StartAgent(l) \/ FindBusy(l) \/ Adopt(l) \/ Await(l)
    \/ Finalize(l) \/ RecordRuntime(l)
    \/ \E i \in DOMAIN mission.team, p \in mission.users : Join(l, mission.team[i], p)

KernelStep ==
    \/ ReadAgents \/ WriteHealth
    \/ \E o \in mission.owners, i \in DOMAIN mission.team :
          \/ RequestLaunch(o, mission.team[i])
          \/ \E h \in {"starting", "idle", "stopped"} : Observe(o, mission.team[i], h)

OutsideStep ==
    \/ \E t \in terms : TermEnds(t)
    \/ \E p \in LivePanes : AgentChanges(p) \/ PaneCloses(p) \/ UserAgent(p)

RuntimeNext == (\E l \in Launchers : LauncherStep(l)) \/ KernelStep \/ OutsideStep

RuntimeSpec == RuntimeInit /\ [][RuntimeNext]_runtimeVars

-----------------------------------------------------------------------------
RuntimeTypeOK ==
    /\ mission \in Missions
    /\ row \in [TeamRoles -> Rows] /\ lease \in [TeamRoles -> Leases]
    /\ nextGen \in 1 .. MaxLaunchGen + 1
    /\ terms \subseteq [owner : LeaseOwners, role : TeamRoles, gen : LaunchGens]
    /\ nextPane \in 2 .. MaxPane + 1 /\ openPanes \subseteq LivePanes
    /\ agent \in [LivePanes -> Agents]
    /\ launcher \in [Launchers -> Processes]
    /\ strays \subseteq TeamRoles \X LivePanes

\* The behaviours of one launcher, with `reconcile' and without anyone else.
OneLauncher ==
    /\ mission.users = {} /\ mission.owners = {}
    /\ \A k, l \in mission.launchers : k = l

\* Every agent with a role's name runs in the pane the role is recorded with, so
\* a later run finds it and no role has two.  The one exception is a pane that was
\* recorded and from which another process took the role without looking (the
\* unconditional record_role_pane and record_role_runtime, an observation that
\* names a pane), or in which `join' named an agent; and no process leaves such
\* a pane behind by itself, wherever it stops and is run again.
AgentsAreRecorded ==
    /\ \A p \in LivePanes : agent[p].state # "none" =>
          LET r == agent[p].role IN r = Nobody \/ row[r].pane = p \/ <<r, p>> \in strays
    /\ OneLauncher => strays = {}

\* A client that takes itself to hold a role's launch does: the lease is its,
\* alive, and of the role's generation.  So no two clients launch one role.
HoldersAreCurrent ==
    \A t \in terms :
        /\ lease[t.role] = [owner |-> t.owner, gen |-> t.gen, live |-> TRUE]
        /\ row[t.role].gen = t.gen

\* A fence is for good: no lease replaces it, no replacement follows it, and the
\* role keeps its generation.
FencesStay ==
    [][\A r \in TeamRoles : Fenced(r) =>
          lease'[r] = lease[r] /\ row'[r].gen = row[r].gen]_runtimeVars

\* A role is marked missing only if it was bound to that pane when the agents
\* were listed: the list says nothing of a role that was bound afterwards.
MissingIsNotNews ==
    [][\A r \in TeamRoles :
          row'[r].health = "missing" /\ row[r].health # "missing" =>
              scan.rows[r].pane = row[r].pane /\ scan.rows[r].named]_runtimeVars
=============================================================================
