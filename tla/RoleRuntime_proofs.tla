------------------------- MODULE RoleRuntime_proofs -------------------------
(***************************************************************************)
(* Proofs about RoleRuntime, for any team, launchers, clients and panes.   *)
(*                                                                         *)
(* Four invariants: the types; HoldersInv, that a lease is given away only *)
(* when nobody holds it; ClaimsInv, that whoever works at a pane for a     *)
(* role finds the role recorded there, or taken from there; and SingleInv, *)
(* that one launcher by itself takes no role from a pane.                  *)
(***************************************************************************)
EXTENDS RoleRuntime, TLAPS

USE RuntimeAssumption

Panes == {NoPane} \cup LivePanes
Pcs == {"idle", "role", "split", "stage", "fence", "ensure", "busy", "adopt", "record"}
Snaps == [row : Rows, lease : Leases]

-----------------------------------------------------------------------------
\* Types of what the actions put together.
LEMMA SmallTypes ==
    /\ Resting.role \in TeamRoles /\ NoSnap \in Snaps /\ NoLease \in Leases
    /\ NoSnap.row \in Rows /\ Resting \in Processes /\ Resting.pc = "idle"
    /\ \A g \in LaunchGens : Fence(g) \in Leases
    /\ "starting" \in Healths /\ "unknown" \in Healths /\ "idle" \in Healths
    /\ "missing" \in Healths /\ "stopped" \in Healths /\ LiveHealth \subseteq Healths
<1>1. NoLease \in Leases /\ NoSnap.row \in Rows
  BY DEF NoLease, Leases, NoSnap, Rows, LaunchGens, Healths, GoneHealth
<1>2. NoSnap \in Snaps
  BY <1>1 DEF NoSnap, Snaps
<1>3. (CHOOSE r \in TeamRoles : TRUE) \in TeamRoles
  OBVIOUS
<1>4. Resting \in Processes /\ Resting.role \in TeamRoles /\ Resting.pc = "idle"
  BY <1>2, <1>3 DEF Resting, Processes, Snaps, LivePanes, NoPane
<1>5. QED
  BY <1>1, <1>2, <1>4 DEF Fence, Leases, Healths, GoneHealth

LEMMA MissionTypes ==
    ASSUME mission \in Missions
    PROVE  /\ mission.team \in Seq(TeamRoles) /\ mission.owners \subseteq LeaseOwners
           /\ mission.users \subseteq LivePanes /\ mission.told \subseteq Panes
           /\ \A i \in DOMAIN mission.team : mission.team[i] \in TeamRoles
<1>1. mission.team \in Seq(TeamRoles) /\ mission.owners \subseteq LeaseOwners
      /\ mission.users \subseteq LivePanes /\ mission.told \subseteq Panes
  BY DEF Panes
<1>2. QED
  BY <1>1

\* The fields of a process, and what becomes of it.
LEMMA ProcessFields ==
    ASSUME NEW job \in Processes
    PROVE  /\ job.pc \in Pcs /\ job.role \in TeamRoles /\ job.todo \in Seq(TeamRoles)
           /\ job.seen \in [TeamRoles -> [pane : Panes, named : BOOLEAN]]
           /\ job.seen[job.role].pane \in Panes
           /\ job.anchor \in Panes /\ job.pane \in Panes /\ job.snap \in Snaps
           /\ job.fresh \in BOOLEAN
BY DEF Processes, Pcs, Panes, Snaps

LEMMA ProcessChanges ==
    ASSUME NEW job \in Processes, NEW pc \in Pcs
    PROVE  /\ [job EXCEPT !.pc = pc] \in Processes
           /\ \A pane \in Panes, fresh \in BOOLEAN :
                 [job EXCEPT !.pc = pc, !.pane = pane, !.fresh = fresh] \in Processes
           /\ \A snap \in Snaps : [job EXCEPT !.pc = pc, !.snap = snap] \in Processes
           /\ \A pane \in Panes, fresh \in BOOLEAN, snap \in Snaps :
                 [job EXCEPT !.pc = pc, !.pane = pane, !.fresh = fresh, !.snap = snap] \in Processes
           /\ \A r \in TeamRoles, pane \in Panes :
                 [job EXCEPT !.pc = pc, !.role = r, !.pane = pane] \in Processes
<1> USE DEF Processes, Pcs, Panes, Snaps
<1>1. [job EXCEPT !.pc = pc] \in Processes
  OBVIOUS
<1>2. ASSUME NEW pane \in Panes, NEW fresh \in BOOLEAN
      PROVE  [job EXCEPT !.pc = pc, !.pane = pane, !.fresh = fresh] \in Processes
  OBVIOUS
<1>3. ASSUME NEW snap \in Snaps
      PROVE  [job EXCEPT !.pc = pc, !.snap = snap] \in Processes
  OBVIOUS
<1>4. ASSUME NEW pane \in Panes, NEW fresh \in BOOLEAN, NEW snap \in Snaps
      PROVE  [job EXCEPT !.pc = pc, !.pane = pane, !.fresh = fresh, !.snap = snap] \in Processes
  OBVIOUS
<1>5. ASSUME NEW r \in TeamRoles, NEW pane \in Panes
      PROVE  [job EXCEPT !.pc = pc, !.role = r, !.pane = pane] \in Processes
  OBVIOUS
<1> HIDE DEF Processes, Pcs, Panes, Snaps
<1>6. QED
  BY <1>1, <1>2, <1>3, <1>4, <1>5

LEMMA ProcessNext ==
    ASSUME NEW job \in Processes, NEW todo \in Seq(TeamRoles), todo # << >>,
           NEW anchor \in Panes,
           NEW seen \in [TeamRoles -> [pane : Panes, named : BOOLEAN]]
    PROVE  /\ [job EXCEPT !.pc = "role", !.role = Head(todo), !.todo = Tail(todo),
                          !.anchor = anchor, !.seen = seen] \in Processes
           /\ [job EXCEPT !.pc = "role", !.role = Head(todo), !.todo = Tail(todo),
                          !.pane = NoPane, !.snap = NoSnap, !.fresh = FALSE] \in Processes
<1>1. Head(todo) \in TeamRoles /\ Tail(todo) \in Seq(TeamRoles)
  OBVIOUS
<1>2. NoSnap \in Snaps /\ NoPane \in Panes
  BY SmallTypes DEF Panes
<1>3. QED
  BY <1>1, <1>2 DEF Processes, Panes, Snaps

LEMMA RowTypes ==
    ASSUME NEW old \in Rows
    PROVE  /\ old.pane \in Panes /\ old.named \in BOOLEAN /\ old.gen \in LaunchGens
           /\ old.health \in Healths
           /\ \A p \in Panes : [old EXCEPT !.pane = p, !.named = FALSE, !.health = "unknown"] \in Rows
           /\ \A p \in Panes : [old EXCEPT !.pane = p, !.named = TRUE, !.health = "idle"] \in Rows
           /\ [old EXCEPT !.named = TRUE, !.health = "idle"] \in Rows
           /\ \A g \in LaunchGens : [old EXCEPT !.gen = g, !.health = "starting"] \in Rows
           /\ \A h \in Healths : [old EXCEPT !.health = h] \in Rows
           /\ \A p \in Panes, n \in BOOLEAN, h \in Healths :
                 [old EXCEPT !.pane = p, !.named = n, !.health = h] \in Rows
BY SmallTypes DEF Rows, Panes

-----------------------------------------------------------------------------
\* What becomes of the process that takes a step.
LauncherOK == launcher \in [Launchers -> Processes]
Turns(l, job) == launcher' = [launcher EXCEPT ![l] = job]
Keeps(job, old) ==
    /\ job.role = old.role /\ job.todo = old.todo /\ job.seen = old.seen
    /\ job.pane = old.pane /\ job.snap = old.snap

\* It has seen what it saw before, or nothing.
Starts(job, old) ==
    /\ job.pc \in {"idle", "role"} /\ job.pane = NoPane
    /\ job.seen = old.seen \/ job.seen = Resting.seen
    /\ \/ job = Resting
       \/ /\ old.todo # << >> /\ job.role = Head(old.todo) /\ job.todo = Tail(old.todo)
          /\ job.seen = old.seen

LEMMA Turned ==
    ASSUME LauncherOK, NEW l \in Launchers, NEW job \in Processes, Turns(l, job)
    PROVE  /\ LauncherOK' /\ launcher'[l] = job
           /\ \A k \in Launchers \ {l} : launcher'[k] = launcher[k]
BY DEF LauncherOK, Turns

LEMMA GotoTurns ==
    ASSUME LauncherOK, NEW l \in Launchers, NEW pc \in Pcs, Goto(l, pc)
    PROVE  \E job \in Processes : Turns(l, job) /\ job.pc = pc /\ Keeps(job, launcher[l])
<1> DEFINE old == launcher[l]
           job == [old EXCEPT !.pc = pc]
<1>1. old \in Processes /\ Turns(l, job)
  BY DEF LauncherOK, Goto, Turns
<1> HIDE DEF old
<1>2. job \in Processes
  BY <1>1, ProcessChanges
<1>3. job.pc = pc /\ Keeps(job, old)
  BY <1>1 DEF Processes, Keeps
<1> HIDE DEF job
<1>4. QED
  BY <1>1, <1>2, <1>3 DEF old

LEMMA RestTurns ==
    ASSUME NEW l \in Launchers, launcher' = [launcher EXCEPT ![l] = Resting]
    PROVE  \E job \in Processes : Turns(l, job) /\ job.pc = "idle" /\ Starts(job, launcher[l])
<1>1. Resting \in Processes /\ Resting.pc = "idle" /\ Resting.pane = NoPane
  BY SmallTypes DEF Resting
<1>2. QED
  BY <1>1 DEF Turns, Starts

LEMMA AdvanceTurns ==
    ASSUME LauncherOK, NEW l \in Launchers, Advance(l)
    PROVE  \E job \in Processes : Turns(l, job) /\ Starts(job, launcher[l])
<1>1. CASE launcher[l].todo = << >>
  <2>1. launcher' = [launcher EXCEPT ![l] = Resting]
    BY <1>1 DEF Advance
  <2>2. QED
    BY <2>1, RestTurns
<1>2. CASE launcher[l].todo # << >>
  <2> DEFINE old == launcher[l]
             job == [old EXCEPT !.pc = "role", !.role = Head(old.todo), !.todo = Tail(old.todo),
                                !.pane = NoPane, !.snap = NoSnap, !.fresh = FALSE]
  <2>1. old \in Processes /\ Turns(l, job)
    BY <1>2 DEF LauncherOK, Advance, Turns
  <2>2. old.todo \in Seq(TeamRoles) /\ old.todo # << >>
        /\ old.anchor \in Panes /\ old.seen \in [TeamRoles -> [pane : Panes, named : BOOLEAN]]
    BY <1>2, <2>1, ProcessFields
  <2> HIDE DEF old
  <2>3. job \in Processes
    BY <2>1, <2>2, ProcessNext
  <2>4. /\ job.pc = "role" /\ job.pane = NoPane /\ job.seen = old.seen
        /\ job.role = Head(old.todo) /\ job.todo = Tail(old.todo)
    BY <2>1 DEF Processes
  <2> HIDE DEF job
  <2>5. QED
    BY <2>1, <2>2, <2>3, <2>4 DEF Starts, old
<1>3. QED
  BY <1>1, <1>2

\* Begin: what the table says is what the process has seen.
LEMMA BeginTurns ==
    ASSUME LauncherOK, row \in [TeamRoles -> Rows], NEW l \in Launchers,
           NEW todo \in Seq(TeamRoles), NEW anchor \in Panes, Begin(l, todo, anchor)
    PROVE  \E job \in Processes :
              /\ Turns(l, job) /\ job.pc = "role" /\ job.pane = NoPane
              /\ job.role = Head(todo) /\ job.todo = Tail(todo)
              /\ \A r \in TeamRoles : job.seen[r].pane = row[r].pane
<1> DEFINE seen == [r \in TeamRoles |-> [pane |-> row[r].pane, named |-> row[r].named]]
           job == [Resting EXCEPT !.pc = "role", !.role = Head(todo), !.todo = Tail(todo),
                                  !.anchor = anchor, !.seen = seen]
<1>1. Turns(l, job) /\ todo # << >>
  BY DEF Begin, Turns
<1>2. seen \in [TeamRoles -> [pane : Panes, named : BOOLEAN]]
      /\ \A r \in TeamRoles : seen[r].pane = row[r].pane
  BY RowTypes
<1>3. Resting \in Processes /\ Resting.pane = NoPane
  BY SmallTypes DEF Resting
<1> HIDE DEF seen
<1>4. job \in Processes
  BY <1>1, <1>2, <1>3, ProcessNext
<1>5. /\ job.pc = "role" /\ job.pane = NoPane /\ job.seen = seen
      /\ job.role = Head(todo) /\ job.todo = Tail(todo)
  BY <1>3 DEF Processes
<1> HIDE DEF job
<1>6. QED
  BY <1>1, <1>2, <1>4, <1>5

\* The pane to record, and the pane to take up again.
LEMMA ResumeTurns ==
    ASSUME LauncherOK, row \in [TeamRoles -> Rows], lease \in [TeamRoles -> Leases],
           NEW l \in Launchers, Resume(l)
    PROVE  \E job \in Processes :
              /\ Turns(l, job) /\ job.pc = "ensure" /\ job.pane = Seen(l).pane
              /\ job.role = launcher[l].role /\ job.seen = launcher[l].seen
              /\ job.todo = launcher[l].todo
<1> DEFINE old == launcher[l]
           p == Seen(l).pane
           b == Binding(old.role)
           snap == IF StagedFor(b, p) THEN b ELSE NoSnap
           job == [old EXCEPT !.pc = "ensure", !.pane = p, !.fresh = FALSE, !.snap = snap]
<1>1. old \in Processes /\ Turns(l, job)
  BY DEF LauncherOK, Resume, Turns
<1>2. p \in Panes /\ old.role \in TeamRoles
  BY <1>1, ProcessFields DEF Seen
<1>3. b \in Snaps
  BY <1>2 DEF Binding, Snaps
<1>4. snap \in Snaps
  BY <1>3, SmallTypes
<1> HIDE DEF old, p, snap
<1>5. job \in Processes
  <2>1. "ensure" \in Pcs
    BY DEF Pcs
  <2>2. QED
    BY <1>1, <1>2, <1>4, <2>1, ProcessChanges
<1>6. /\ job.pc = "ensure" /\ job.pane = p /\ job.role = old.role /\ job.seen = old.seen
      /\ job.todo = old.todo
  BY <1>1 DEF Processes
<1> HIDE DEF job
<1>7. QED
  BY <1>1, <1>5, <1>6 DEF old, p

LEMMA SplitTurns ==
    ASSUME LauncherOK, NEW l \in Launchers, NEW p \in Panes,
           launcher' = [launcher EXCEPT ![l] =
               [launcher[l] EXCEPT !.pc = "split", !.pane = p, !.fresh = TRUE]]
    PROVE  \E job \in Processes :
              /\ Turns(l, job) /\ job.pc = "split" /\ job.pane = p
              /\ job.role = launcher[l].role /\ job.seen = launcher[l].seen
              /\ job.todo = launcher[l].todo
<1> DEFINE old == launcher[l]
           job == [old EXCEPT !.pc = "split", !.pane = p, !.fresh = TRUE]
<1>1. old \in Processes /\ Turns(l, job)
  BY DEF LauncherOK, Turns
<1> HIDE DEF old
<1>2. job \in Processes
  <2>1. "split" \in Pcs
    BY DEF Pcs
  <2>2. QED
    BY <1>1, <2>1, ProcessChanges
<1>3. /\ job.pc = "split" /\ job.pane = p /\ job.role = old.role /\ job.seen = old.seen
      /\ job.todo = old.todo
  BY <1>1 DEF Processes
<1> HIDE DEF job
<1>4. QED
  BY <1>1, <1>2, <1>3 DEF old

LEMMA ReplaceTurns ==
    ASSUME LauncherOK, row \in [TeamRoles -> Rows], lease \in [TeamRoles -> Leases],
           NEW l \in Launchers, Replace(l)
    PROVE  \E job \in Processes :
              /\ Turns(l, job) /\ job.pc = "stage" /\ job.pane = launcher[l].pane
              /\ job.role = launcher[l].role /\ job.seen = launcher[l].seen
              /\ job.todo = launcher[l].todo /\ job.snap.row.pane = Seen(l).pane
<1> DEFINE old == launcher[l]
           b == Binding(old.role)
           job == [old EXCEPT !.pc = "stage", !.snap = b]
<1>1. old \in Processes /\ Turns(l, job)
  BY DEF LauncherOK, Replace, Turns
<1>2. old.role \in TeamRoles
  BY <1>1, ProcessFields
<1>3. b \in Snaps /\ b.row.pane = Seen(l).pane
  BY <1>2 DEF Binding, Snaps, Replace
<1> HIDE DEF old, b
<1>4. job \in Processes
  <2>1. "stage" \in Pcs
    BY DEF Pcs
  <2>2. QED
    BY <1>1, <1>3, <2>1, ProcessChanges
<1>5. /\ job.pc = "stage" /\ job.pane = old.pane /\ job.role = old.role /\ job.seen = old.seen
      /\ job.todo = old.todo /\ job.snap = b
  BY <1>1 DEF Processes
<1> HIDE DEF job
<1>6. QED
  BY <1>1, <1>3, <1>4, <1>5 DEF old

\* The row a replacement leaves, and the process that goes on with it.
StagedRow == [pane |-> nextPane, named |-> FALSE, gen |-> nextGen, health |-> "starting"]

LEMMA StageTurns ==
    ASSUME LauncherOK, nextPane \in LivePanes, nextGen \in LaunchGens, NEW l \in Launchers, Stage(l)
    PROVE  /\ StagedRow \in Rows
           /\ \E job \in Processes :
                 /\ Turns(l, job) /\ job.pc = "ensure" /\ job.pane = nextPane
                 /\ job.role = launcher[l].role /\ job.seen = launcher[l].seen
                 /\ job.todo = launcher[l].todo
<1> DEFINE old == launcher[l]
           snap == [row |-> StagedRow, lease |-> NoLease]
           job == [old EXCEPT !.pc = "ensure", !.pane = nextPane, !.fresh = TRUE, !.snap = snap]
<1>1. StagedRow \in Rows
  BY SmallTypes DEF StagedRow, Rows
<1>2. old \in Processes /\ Turns(l, job)
  BY DEF LauncherOK, Stage, Turns, StagedRow
<1>3. snap \in Snaps /\ nextPane \in Panes
  BY <1>1, SmallTypes DEF Snaps, Panes
<1> HIDE DEF old, snap
<1>4. job \in Processes
  <2>1. "ensure" \in Pcs
    BY DEF Pcs
  <2>2. QED
    BY <1>2, <1>3, <2>1, ProcessChanges
<1>5. /\ job.pc = "ensure" /\ job.pane = nextPane /\ job.role = old.role /\ job.seen = old.seen
      /\ job.todo = old.todo
  BY <1>2 DEF Processes
<1> HIDE DEF job
<1>6. QED
  BY <1>1, <1>2, <1>4, <1>5 DEF old

LEMMA JoinTurns ==
    ASSUME LauncherOK, NEW l \in Launchers, NEW r \in TeamRoles, NEW p \in LivePanes, Join(l, r, p)
    PROVE  \/ launcher' = launcher
           \/ \E job \in Processes :
                 /\ Turns(l, job) /\ job.pc = "record" /\ job.role = r /\ job.pane = p
                 /\ job.seen = Resting.seen
<1>1. CASE launcher' = launcher
  BY <1>1
<1>2. CASE launcher' = [launcher EXCEPT ![l] =
                [Resting EXCEPT !.pc = "record", !.role = r, !.pane = p]]
  <2> DEFINE job == [Resting EXCEPT !.pc = "record", !.role = r, !.pane = p]
  <2>1. job \in Processes
    <3>1. "record" \in Pcs /\ p \in Panes
      BY DEF Pcs, Panes
    <3>2. QED
      BY <3>1, SmallTypes, ProcessChanges
  <2>2. job.pc = "record" /\ job.role = r /\ job.pane = p /\ job.seen = Resting.seen
    BY SmallTypes DEF Processes
  <2>3. Turns(l, job)
    BY <1>2 DEF Turns
  <2> HIDE DEF job
  <2>4. QED
    BY <2>1, <2>2, <2>3
<1>3. QED
  BY <1>1, <1>2 DEF Join

-----------------------------------------------------------------------------
\* Type correctness.  The tables and the panes first, then who works on them.
AgentsOK == agent \in [LivePanes -> Agents]
PanesOK == nextPane \in 2 .. MaxPane + 1 /\ openPanes \subseteq LivePanes
KernelOK ==
    /\ lease \in [TeamRoles -> Leases] /\ nextGen \in 1 .. MaxLaunchGen + 1
    /\ terms \subseteq [owner : LeaseOwners, role : TeamRoles, gen : LaunchGens]
RowsOK == row \in [TeamRoles -> Rows]

LEMMA TypeParts ==
    RuntimeTypeOK <=> /\ mission \in Missions /\ RowsOK /\ KernelOK /\ PanesOK /\ AgentsOK
                      /\ LauncherOK /\ strays \subseteq TeamRoles \X LivePanes
BY DEF RuntimeTypeOK, RowsOK, KernelOK, PanesOK, AgentsOK, LauncherOK

LEMMA TypePartsNext ==
    RuntimeTypeOK' <=> /\ mission' \in Missions /\ RowsOK' /\ KernelOK' /\ PanesOK' /\ AgentsOK'
                       /\ LauncherOK' /\ strays' \subseteq TeamRoles \X LivePanes
BY DEF RuntimeTypeOK, RowsOK, KernelOK, PanesOK, AgentsOK, LauncherOK

\* What a step leaves alone keeps its type.
LEMMA TypesStay ==
    /\ UNCHANGED row /\ RowsOK => RowsOK'
    /\ UNCHANGED kernelVars /\ KernelOK => KernelOK'
    /\ UNCHANGED <<nextPane, openPanes>> /\ PanesOK => PanesOK'
    /\ UNCHANGED agent /\ AgentsOK => AgentsOK'
    /\ UNCHANGED launcher /\ LauncherOK => LauncherOK'
BY DEF RowsOK, KernelOK, PanesOK, AgentsOK, LauncherOK, kernelVars

\* A pane that is opened, a row that is replaced, an agent that changes.
LEMMA PaneOpens ==
    ASSUME PanesOK, nextPane <= MaxPane, nextPane' = nextPane + 1,
           openPanes' = openPanes \cup {nextPane}
    PROVE  PanesOK' /\ nextPane \in LivePanes
BY DEF PanesOK, LivePanes

LEMMA RowWritten ==
    ASSUME RowsOK, NEW r \in TeamRoles, NEW new \in Rows, row' = [row EXCEPT ![r] = new]
    PROVE  RowsOK' /\ row'[r] = new /\ \A q \in TeamRoles \ {r} : row'[q] = row[q]
BY DEF RowsOK

\* A role that is bound to another pane strays from its own, and that is remembered.
LEMMA RebindTypes ==
    ASSUME RowsOK, strays \subseteq TeamRoles \X LivePanes, NEW r \in TeamRoles, NEW p, Rebinds(r, p)
    PROVE  /\ strays \subseteq strays' /\ strays' \subseteq TeamRoles \X LivePanes
           /\ row[r].pane \in {NoPane, p} \/ <<r, row[r].pane>> \in strays'
           /\ row[r].pane \in {NoPane, p} => strays' = strays
<1>1. row[r].pane \in Panes
  BY RowTypes DEF RowsOK
<1>2. QED
  BY <1>1 DEF Rebinds, Panes

LEMMA AgentChanged ==
    ASSUME AgentsOK, NEW p \in LivePanes, NEW new \in Agents, agent' = [agent EXCEPT ![p] = new]
    PROVE  AgentsOK' /\ agent'[p] = new /\ \A q \in LivePanes \ {p} : agent'[q] = agent[q]
BY DEF AgentsOK

LEMMA AgentTypes ==
    ASSUME NEW old \in Agents
    PROVE  /\ \A r \in TeamRoles \cup {Nobody}, s \in {"none", "late", "pending", "ready"} :
                 Runs(r, s) \in Agents /\ Runs(r, s).role = r /\ Runs(r, s).state = s
           /\ \A r \in TeamRoles : /\ [old EXCEPT !.role = r] \in Agents
                                   /\ [old EXCEPT !.role = r].role = r
                                   /\ [old EXCEPT !.role = r].state = old.state
           /\ \A s \in {"none", "late", "pending", "ready"} :
                 /\ [old EXCEPT !.state = s] \in Agents
                 /\ [old EXCEPT !.state = s].role = old.role
                 /\ [old EXCEPT !.state = s].state = s
BY DEF Agents, Runs

\* A step that moves a process and nothing else.
LEMMA OnlyTurns ==
    ASSUME RuntimeTypeOK, NEW l \in Launchers, NEW job \in Processes, Turns(l, job),
           UNCHANGED <<mission, row, kernelVars, herdrVars, scan, strays>>
    PROVE  RuntimeTypeOK'
<1>1. LauncherOK'
  BY TypeParts, Turned
<1>2. QED
  BY <1>1, TypeParts, TypePartsNext, TypesStay DEF herdrVars

LEMMA LauncherTypes ==
    ASSUME RuntimeTypeOK, NEW l \in Launchers, LauncherStep(l)
    PROVE  RuntimeTypeOK'
<1> DEFINE r == launcher[l].role
           p == launcher[l].pane
<1>0. /\ mission \in Missions /\ RowsOK /\ KernelOK /\ PanesOK /\ AgentsOK /\ LauncherOK
      /\ strays \subseteq TeamRoles \X LivePanes
      /\ row \in [TeamRoles -> Rows] /\ lease \in [TeamRoles -> Leases]
  BY TypeParts DEF RuntimeTypeOK
<1>00. r \in TeamRoles /\ p \in Panes /\ Seen(l).pane \in Panes
  <2>1. launcher[l] \in Processes
    BY <1>0 DEF LauncherOK
  <2>2. QED
    BY <2>1, ProcessFields DEF Seen
<1> HIDE DEF r, p
<1>1. ASSUME NEW todo \in Seq(TeamRoles), NEW anchor \in Panes, Begin(l, todo, anchor)
      PROVE  RuntimeTypeOK'
  BY <1>0, <1>1, BeginTurns, OnlyTurns DEF Begin
<1>2. CASE Begin(l, mission.team, NoPane)
  BY <1>0, <1>1, <1>2, MissionTypes DEF Panes
<1>3. ASSUME NEW i \in DOMAIN mission.team, NEW anchor \in Anchors, Begin(l, <<mission.team[i]>>, anchor)
      PROVE  RuntimeTypeOK'
  <2>1. mission.team[i] \in TeamRoles /\ anchor \in Panes
    BY <1>0, MissionTypes DEF Panes, LivePanes
  <2>2. <<mission.team[i]>> \in Seq(TeamRoles)
    BY <2>1
  <2>3. QED
    BY <1>1, <1>3, <2>1, <2>2
<1>4. CASE Fail(l)
  BY <1>0, <1>4, RestTurns, OnlyTurns DEF Fail
<1>5. CASE Skip(l)
  BY <1>0, <1>5, AdvanceTurns, OnlyTurns DEF Skip
<1>6. CASE Reuse(l)
  <2> DEFINE q == Seen(l).pane
             new == [agent[q] EXCEPT !.role = r]
  <2>1. q \in LivePanes /\ agent' = [agent EXCEPT ![q] = new]
    BY <1>0, <1>6 DEF Reuse, Ready, PanesOK, r
  <2>2. new \in Agents
    BY <1>0, <1>00, <2>1, AgentTypes DEF AgentsOK
  <2> HIDE DEF q, new
  <2>3. AgentsOK'
    BY <1>0, <2>1, <2>2, AgentChanged
  <2>4. LauncherOK'
    BY <1>0, <1>6, AdvanceTurns, Turned DEF Reuse
  <2>5. QED
    BY <1>0, <1>6, <2>3, <2>4, TypePartsNext, TypesStay DEF Reuse
<1>7. CASE Resume(l)
  BY <1>0, <1>7, ResumeTurns, OnlyTurns DEF Resume
<1>8. CASE Allocate(l)
  <2>1. ASSUME NEW q \in Panes,
               launcher' = [launcher EXCEPT ![l] =
                  [launcher[l] EXCEPT !.pc = "split", !.pane = q, !.fresh = TRUE]]
        PROVE  LauncherOK'
    BY <1>0, <2>1, SplitTurns, Turned
  <2>2. ASSUME launcher' = [launcher EXCEPT ![l] = Resting]
        PROVE  LauncherOK'
    BY <1>0, <2>2, RestTurns, Turned
  <2>3. UNCHANGED <<mission, row, kernelVars, scan, strays>>
    BY <1>8 DEF Allocate
  <2>4. CASE /\ UNCHANGED herdrVars
             /\ launcher' = [launcher EXCEPT ![l] =
                    [launcher[l] EXCEPT !.pc = "split", !.pane = RootPane, !.fresh = TRUE]]
    <3>1. RootPane \in Panes
      BY DEF Panes, LivePanes, RootPane
    <3>2. QED
      BY <1>0, <2>1, <2>3, <2>4, <3>1, TypePartsNext, TypesStay DEF herdrVars
  <2>5. CASE /\ nextPane <= MaxPane /\ nextPane' = nextPane + 1
             /\ openPanes' = openPanes \cup {nextPane} /\ UNCHANGED agent
             /\ \/ launcher' = [launcher EXCEPT ![l] =
                       [launcher[l] EXCEPT !.pc = "split", !.pane = nextPane, !.fresh = TRUE]]
                \/ launcher' = [launcher EXCEPT ![l] = Resting]
    <3>1. PanesOK' /\ nextPane \in Panes
      BY <1>0, <2>5, PaneOpens DEF Panes
    <3>2. LauncherOK'
      BY <2>1, <2>2, <2>5, <3>1
    <3>3. QED
      BY <1>0, <2>3, <2>5, <3>1, <3>2, TypePartsNext, TypesStay
  <2>6. QED
    BY <1>8, <2>4, <2>5 DEF Allocate
<1>9. CASE RecordPane(l)
  <2>1. RowsOK'
    <3> DEFINE new == [row[r] EXCEPT !.pane = p, !.named = FALSE, !.health = "unknown"]
    <3>1. row' = [row EXCEPT ![r] = new]
      BY <1>9 DEF RecordPane, r, p
    <3>2. new \in Rows
      BY <1>0, <1>00, RowTypes
    <3> HIDE DEF new
    <3>3. QED
      BY <1>0, <1>00, <3>1, <3>2, RowWritten
  <2>2. LauncherOK'
    <3>1. Goto(l, "ensure") /\ "ensure" \in Pcs
      BY <1>9 DEF RecordPane, Pcs
    <3>2. QED
      BY <1>0, <3>1, GotoTurns, Turned
  <2>3. strays' \subseteq TeamRoles \X LivePanes
    BY <1>0, <1>00, <1>9, RebindTypes DEF RecordPane, r
  <2>4. QED
    BY <1>0, <1>9, <2>1, <2>2, <2>3, TypePartsNext, TypesStay DEF RecordPane, herdrVars
<1>10. CASE Replace(l)
  BY <1>0, <1>10, ReplaceTurns, OnlyTurns DEF Replace
<1>11. CASE Stage(l)
  <2>1. nextPane \in LivePanes /\ PanesOK' /\ nextGen \in LaunchGens
    BY <1>0, <1>11, PaneOpens DEF Stage, KernelOK, LaunchGens
  <2>2. StagedRow \in Rows /\ LauncherOK'
    BY <1>0, <1>11, <2>1, StageTurns, Turned
  <2>3. RowsOK'
    <3>1. row' = [row EXCEPT ![r] = StagedRow]
      BY <1>11 DEF Stage, StagedRow, r
    <3>2. QED
      BY <1>0, <1>00, <2>2, <3>1, RowWritten
  <2>4. KernelOK'
    <3>1. lease' = [lease EXCEPT ![r] = NoLease] /\ nextGen' = nextGen + 1 /\ terms' = terms
          /\ nextGen <= MaxLaunchGen
      BY <1>11 DEF Stage, r
    <3>2. QED
      BY <1>0, <1>00, <3>1, SmallTypes DEF KernelOK
  <2>5. QED
    BY <1>0, <1>11, <2>1, <2>2, <2>3, <2>4, TypePartsNext, TypesStay DEF Stage
<1>12. ASSUME lease' = [lease EXCEPT ![r] = Fence(nextGen)], nextGen' = nextGen + 1,
              nextGen <= MaxLaunchGen, terms' = terms
       PROVE  KernelOK'
  <2>1. nextGen \in LaunchGens
    BY <1>0, <1>12 DEF KernelOK, LaunchGens
  <2>2. Fence(nextGen) \in Leases
    BY <2>1, SmallTypes
  <2>3. QED
    BY <1>0, <1>00, <1>12, <2>2 DEF KernelOK
<1>13. CASE StageUncertain(l)
  <2>1. KernelOK'
    BY <1>12, <1>13 DEF StageUncertain, r
  <2>2. LauncherOK'
    BY <1>0, <1>13, RestTurns, Turned DEF StageUncertain
  <2>3. PanesOK' /\ agent' = agent
    BY <1>0, <1>13, PaneOpens, TypesStay DEF StageUncertain, herdrVars
  <2>4. QED
    BY <1>0, <1>13, <2>1, <2>2, <2>3, TypePartsNext, TypesStay DEF StageUncertain
<1>14. CASE StageLost(l)
  <2>1. PanesOK'
    BY <1>0, <1>14, PaneOpens DEF StageLost
  <2>2. LauncherOK'
    <3>1. Goto(l, "fence") /\ "fence" \in Pcs
      BY <1>14 DEF StageLost, Pcs
    <3>2. QED
      BY <1>0, <3>1, GotoTurns, Turned
  <2>3. QED
    BY <1>0, <1>14, <2>1, <2>2, TypePartsNext, TypesStay DEF StageLost
<1>15. CASE FenceUnstaged(l)
  <2>1. KernelOK'
    BY <1>12, <1>15 DEF FenceUnstaged, r
  <2>2. LauncherOK'
    BY <1>0, <1>15, RestTurns, Turned DEF FenceUnstaged
  <2>3. QED
    BY <1>0, <1>15, <2>1, <2>2, TypePartsNext, TypesStay DEF FenceUnstaged, herdrVars
<1>16. CASE StartAgent(l)
  <2>1. PICK s \in {"late", "pending", "ready"} :
           /\ agent' = [agent EXCEPT ![p] = Runs(r, s)]
           /\ Goto(l, IF s = "ready" THEN "record" ELSE "adopt")
    BY <1>16 DEF StartAgent, r, p
  <2>2. p \in LivePanes
    BY <1>0, <1>16 DEF StartAgent, PanesOK, p
  <2>3. AgentsOK'
    <3>1. Runs(r, s) \in Agents
      BY <1>0, <1>00, <2>2, AgentTypes DEF AgentsOK
    <3>2. QED
      BY <1>0, <2>1, <2>2, <3>1, AgentChanged
  <2>4. LauncherOK'
    <3>1. (IF s = "ready" THEN "record" ELSE "adopt") \in Pcs
      BY DEF Pcs
    <3>2. QED
      BY <1>0, <2>1, <3>1, GotoTurns, Turned
  <2>5. QED
    BY <1>0, <1>16, <2>3, <2>4, TypePartsNext, TypesStay DEF StartAgent
<1>17. CASE FindBusy(l)
  <2>1. \E pc \in Pcs : Goto(l, pc)
    <3>1. (IF launcher[l].fresh \/ LooksEmpty(launcher[l].pane) THEN "busy" ELSE "adopt") \in Pcs
      BY DEF Pcs
    <3>2. QED
      BY <1>17, <3>1 DEF FindBusy
  <2>2. QED
    BY <1>0, <1>17, <2>1, GotoTurns, OnlyTurns DEF FindBusy
<1>18. CASE Adopt(l)
  <2>1. p \in LivePanes
    BY <1>0, <1>18 DEF Adopt, Ready, PanesOK, p
  <2>2. AgentsOK'
    <3> DEFINE new == [agent[p] EXCEPT !.role = r]
    <3>1. agent' = [agent EXCEPT ![p] = new]
      BY <1>18 DEF Adopt, r, p
    <3>2. new \in Agents
      BY <1>0, <1>00, <2>1, AgentTypes DEF AgentsOK
    <3> HIDE DEF new
    <3>3. QED
      BY <1>0, <2>1, <3>1, <3>2, AgentChanged
  <2>3. LauncherOK'
    <3>1. Goto(l, "record") /\ "record" \in Pcs
      BY <1>18 DEF Adopt, Pcs
    <3>2. QED
      BY <1>0, <3>1, GotoTurns, Turned
  <2>4. QED
    BY <1>0, <1>18, <2>2, <2>3, TypePartsNext, TypesStay DEF Adopt
<1>19. CASE Await(l)
  <2>1. \E pc \in Pcs : Goto(l, pc)
    BY <1>19 DEF Await, Pcs
  <2>2. QED
    BY <1>0, <1>19, <2>1, GotoTurns, OnlyTurns DEF Await
<1>20. CASE Finalize(l)
  <2>1. RowsOK'
    <3> DEFINE new == [row[r] EXCEPT !.named = TRUE, !.health = "idle"]
    <3>1. row' = [row EXCEPT ![r] = new]
      BY <1>20 DEF Finalize, r
    <3>2. new \in Rows
      BY <1>0, <1>00, RowTypes
    <3> HIDE DEF new
    <3>3. QED
      BY <1>0, <1>00, <3>1, <3>2, RowWritten
  <2>2. LauncherOK'
    BY <1>0, <1>20, AdvanceTurns, Turned DEF Finalize
  <2>3. QED
    BY <1>0, <1>20, <2>1, <2>2, TypePartsNext, TypesStay DEF Finalize, herdrVars
<1>21. CASE RecordRuntime(l)
  <2>1. RowsOK'
    <3> DEFINE new == [row[r] EXCEPT !.pane = p, !.named = TRUE, !.health = "idle"]
    <3>1. row' = [row EXCEPT ![r] = new]
      BY <1>21 DEF RecordRuntime, r, p
    <3>2. new \in Rows
      BY <1>0, <1>00, RowTypes
    <3> HIDE DEF new
    <3>3. QED
      BY <1>0, <1>00, <3>1, <3>2, RowWritten
  <2>2. LauncherOK'
    BY <1>0, <1>21, AdvanceTurns, Turned DEF RecordRuntime
  <2>3. strays' \subseteq TeamRoles \X LivePanes
    BY <1>0, <1>00, <1>21, RebindTypes DEF RecordRuntime, r
  <2>4. QED
    BY <1>0, <1>21, <2>1, <2>2, <2>3, TypePartsNext, TypesStay DEF RecordRuntime, herdrVars
<1>22. ASSUME NEW i \in DOMAIN mission.team, NEW q \in mission.users, Join(l, mission.team[i], q)
       PROVE  RuntimeTypeOK'
  <2>1. mission.team[i] \in TeamRoles /\ q \in LivePanes
    BY <1>0, MissionTypes
  <2>2. AgentsOK'
    <3> DEFINE new == [agent[q] EXCEPT !.role = mission.team[i]]
    <3>1. agent' = [agent EXCEPT ![q] = new]
      BY <1>22 DEF Join
    <3>2. new \in Agents
      BY <1>0, <2>1, AgentTypes DEF AgentsOK
    <3> HIDE DEF new
    <3>3. QED
      BY <1>0, <2>1, <3>1, <3>2, AgentChanged
  <2>3. LauncherOK'
    BY <1>0, <1>22, <2>1, JoinTurns, Turned, TypesStay
  <2>4. strays' \subseteq TeamRoles \X LivePanes
    BY <1>0, <1>22, <2>1 DEF Join
  <2>5. QED
    BY <1>0, <1>22, <2>2, <2>3, <2>4, TypePartsNext, TypesStay DEF Join
<1>23. QED
  BY <1>2, <1>3, <1>4, <1>5, <1>6, <1>7, <1>8, <1>9, <1>10, <1>11, <1>13, <1>14, <1>15, <1>16,
     <1>17, <1>18, <1>19, <1>20, <1>21, <1>22 DEF LauncherStep

\* The row and the lease of a launch that is granted.
LEMMA LaunchTypes ==
    ASSUME RuntimeTypeOK, NEW o \in LeaseOwners, NEW r \in TeamRoles, NEW g \in LaunchGens,
           LaunchRequest(o, r, g)
    PROVE  /\ RowsOK' /\ row'[r].gen = g /\ row'[r].pane = row[r].pane
           /\ \A q \in TeamRoles \ {r} : row'[q] = row[q]
           /\ lease' \in [TeamRoles -> Leases]
           /\ lease'[r] = [owner |-> o, gen |-> g, live |-> TRUE]
           /\ \A q \in TeamRoles \ {r} : lease'[q] = lease[q]
           /\ terms' \subseteq [owner : LeaseOwners, role : TeamRoles, gen : LaunchGens]
<1> DEFINE old == row[r]
           new == [old EXCEPT !.gen = g, !.health = "starting"]
           held == [owner |-> o, gen |-> g, live |-> TRUE]
<1>1. RowsOK /\ old \in Rows /\ lease \in [TeamRoles -> Leases]
  BY TypeParts DEF RowsOK, KernelOK
<1>2. row' = [row EXCEPT ![r] = new] /\ lease' = [lease EXCEPT ![r] = held]
  BY DEF LaunchRequest
<1>3. held \in Leases
  BY DEF Leases
<1> HIDE DEF old, held
<1>4. new \in Rows
  BY <1>1, RowTypes
<1>5. new.gen = g /\ new.pane = old.pane
  BY <1>1 DEF Rows
<1> HIDE DEF new
<1>6. RowsOK' /\ row'[r] = new /\ \A q \in TeamRoles \ {r} : row'[q] = row[q]
  BY <1>1, <1>2, <1>4, RowWritten
<1>7. /\ lease' \in [TeamRoles -> Leases] /\ lease'[r] = held
      /\ \A q \in TeamRoles \ {r} : lease'[q] = lease[q]
  BY <1>1, <1>2, <1>3
<1>8. terms' \subseteq [owner : LeaseOwners, role : TeamRoles, gen : LaunchGens]
  BY DEF LaunchRequest, RuntimeTypeOK
<1>9. QED
  BY <1>5, <1>6, <1>7, <1>8 DEF old, held

\* A reconciliation writes the status of completed roles.
LEMMA HealthTypes ==
    ASSUME RowsOK, WriteHealth
    PROVE  /\ RowsOK'
           /\ \A r \in TeamRoles : /\ row'[r].pane = row[r].pane /\ row'[r].gen = row[r].gen
                                   /\ row'[r].named = row[r].named
                                   /\ \/ row'[r] = row[r]
                                      \/ row[r].pane # NoPane /\ row[r].named
<1> DEFINE Reported(r, h) == IF <<row[r].pane, r>> \in scan.live THEN h ELSE "missing"
           Written(r, h) == IF row[r].pane = NoPane \/ ~row[r].named THEN row[r]
                            ELSE [row[r] EXCEPT !.health = Reported(r, h)]
<1>1. PICK h \in LiveHealth : row' = [r \in TeamRoles |-> Written(r, h)]
  BY DEF WriteHealth
<1>2. ASSUME NEW r \in TeamRoles
      PROVE  /\ Written(r, h) \in Rows
             /\ Written(r, h).pane = row[r].pane /\ Written(r, h).gen = row[r].gen
             /\ Written(r, h).named = row[r].named
             /\ Written(r, h) = row[r] \/ (row[r].pane # NoPane /\ row[r].named)
  <2>1. row[r] \in Rows
    BY DEF RowsOK
  <2>2. Reported(r, h) \in Healths
    BY SmallTypes
  <2> HIDE DEF Reported
  <2>3. CASE row[r].pane = NoPane \/ ~row[r].named
    BY <2>1, <2>3
  <2>4. CASE ~(row[r].pane = NoPane \/ ~row[r].named)
    <3> DEFINE old == row[r]
               new == [old EXCEPT !.health = Reported(r, h)]
    <3>1. Written(r, h) = new
      BY <2>4
    <3> HIDE DEF old
    <3>2. old \in Rows
      BY <2>1 DEF old
    <3>3. new \in Rows
      BY <2>2, <3>2, RowTypes
    <3>4. new.pane = old.pane /\ new.gen = old.gen /\ new.named = old.named
      BY <3>2 DEF Rows
    <3> HIDE DEF new
    <3>5. QED
      BY <2>4, <3>1, <3>3, <3>4 DEF old
  <2>5. QED
    BY <2>3, <2>4
<1> HIDE DEF Written
<1>3. QED
  BY <1>1, <1>2 DEF RowsOK

\* An observation keeps the role's generation, whatever it says of the role's pane.
LEMMA ObserveTypes ==
    ASSUME RuntimeTypeOK, NEW o, NEW r \in TeamRoles, NEW h \in {"starting", "idle", "stopped"},
           Observe(o, r, h)
    PROVE  /\ RowsOK' /\ strays \subseteq strays' /\ strays' \subseteq TeamRoles \X LivePanes
           /\ row'[r].gen = row[r].gen /\ row'[r].health = h
           /\ \A q \in TeamRoles \ {r} : row'[q] = row[q]
           /\ row'[r].pane = row[r].pane \/ row'[r].pane < nextPane
           /\ row[r].pane \in {NoPane, row'[r].pane} \/ <<r, row[r].pane>> \in strays'
<1> DEFINE old == row[r]
<1>1. RowsOK /\ old \in Rows /\ strays \subseteq TeamRoles \X LivePanes /\ h \in Healths
  BY TypeParts, SmallTypes DEF RowsOK
<1>2. PICK p \in {q \in mission.told : q < nextPane} \cup {old.pane}, named \in BOOLEAN :
         /\ row' = [row EXCEPT ![r] = [old EXCEPT !.pane = p, !.named = named, !.health = h]]
         /\ Rebinds(r, p)
  BY DEF Observe
<1>3. p \in Panes /\ (p = old.pane \/ p < nextPane)
  BY <1>1, <1>2, MissionTypes, RowTypes DEF RuntimeTypeOK
<1> DEFINE new == [old EXCEPT !.pane = p, !.named = named, !.health = h]
<1>4. row' = [row EXCEPT ![r] = new]
  BY <1>2
<1> HIDE DEF old
<1>5. new \in Rows
  BY <1>1, <1>3, RowTypes
<1>6. new.pane = p /\ new.gen = old.gen /\ new.health = h
  BY <1>1 DEF Rows
<1> HIDE DEF new
<1>7. RowsOK' /\ row'[r] = new /\ \A q \in TeamRoles \ {r} : row'[q] = row[q]
  BY <1>1, <1>4, <1>5, RowWritten
<1>8. /\ strays \subseteq strays' /\ strays' \subseteq TeamRoles \X LivePanes
      /\ old.pane \in {NoPane, p} \/ <<r, old.pane>> \in strays'
  BY <1>1, <1>2, RebindTypes DEF old
<1>9. QED
  BY <1>3, <1>6, <1>7, <1>8 DEF old

LEMMA KernelTypes ==
    ASSUME RuntimeTypeOK, KernelStep
    PROVE  RuntimeTypeOK'
<1>0. /\ mission \in Missions /\ RowsOK /\ KernelOK /\ PanesOK /\ AgentsOK /\ LauncherOK
      /\ strays \subseteq TeamRoles \X LivePanes
      /\ row \in [TeamRoles -> Rows] /\ lease \in [TeamRoles -> Leases]
  BY TypeParts DEF RuntimeTypeOK
<1>1. CASE ReadAgents
  BY <1>0, <1>1, TypePartsNext, TypesStay DEF ReadAgents, herdrVars
<1>2. CASE WriteHealth
  BY <1>0, <1>2, HealthTypes, TypePartsNext, TypesStay DEF WriteHealth, herdrVars
<1>3. ASSUME NEW o \in mission.owners, NEW r \in TeamRoles, RequestLaunch(o, r)
      PROVE  RuntimeTypeOK'
  <2>1. o \in LeaseOwners /\ row[r].gen \in LaunchGens
    BY <1>0, MissionTypes, RowTypes
  <2>2. PICK g \in LaunchGens : LaunchRequest(o, r, g) /\ nextGen' \in 1 .. MaxLaunchGen + 1
    <3>1. nextGen <= MaxLaunchGen => nextGen \in LaunchGens /\ nextGen + 1 \in 1 .. MaxLaunchGen + 1
      BY <1>0 DEF KernelOK, LaunchGens
    <3>2. QED
      BY <1>0, <1>3, <2>1, <3>1 DEF RequestLaunch, KernelOK
  <2>3. RowsOK' /\ KernelOK'
    BY <2>1, <2>2, LaunchTypes DEF KernelOK
  <2>4. QED
    BY <1>0, <2>2, <2>3, TypePartsNext, TypesStay DEF LaunchRequest, herdrVars
<1>4. ASSUME NEW o \in mission.owners, NEW r \in TeamRoles,
             NEW h \in {"starting", "idle", "stopped"}, Observe(o, r, h)
      PROVE  RuntimeTypeOK'
  <2>1. RowsOK' /\ strays' \subseteq TeamRoles \X LivePanes
    BY <1>4, ObserveTypes
  <2>2. KernelOK'
    <3>1. nextGen' = nextGen /\ terms' \subseteq terms
          /\ (lease' = lease \/ lease' = [lease EXCEPT ![r] = NoLease])
      BY <1>4 DEF Observe
    <3>2. QED
      BY <1>0, <3>1, SmallTypes DEF KernelOK
  <2>3. QED
    BY <1>0, <1>4, <2>1, <2>2, TypePartsNext, TypesStay DEF Observe, herdrVars
<1>5. QED
  BY <1>0, <1>1, <1>2, <1>3, <1>4, MissionTypes DEF KernelStep

\* What a lease becomes whose time is up.
LEMMA TermTypes ==
    ASSUME RuntimeTypeOK, NEW t \in terms, TermEnds(t)
    PROVE  /\ KernelOK' /\ t.role \in TeamRoles /\ t.owner \in LeaseOwners
           /\ \A r \in TeamRoles \ {t.role} : lease'[r] = lease[r]
           /\ \/ lease' = lease
              \/ lease[t.role].owner = t.owner /\ lease[t.role].gen = t.gen
<1> DEFINE r == t.role
           old == lease[r]
           new == IF old.owner = t.owner /\ old.gen = t.gen THEN [old EXCEPT !.live = FALSE] ELSE old
<1>1. /\ lease \in [TeamRoles -> Leases] /\ KernelOK
      /\ t \in [owner : LeaseOwners, role : TeamRoles, gen : LaunchGens]
  BY DEF RuntimeTypeOK, KernelOK
<1>2. r \in TeamRoles /\ t.owner \in LeaseOwners /\ old \in Leases
  BY <1>1
<1>3. lease' = [lease EXCEPT ![r] = new] /\ terms' = terms \ {t} /\ nextGen' = nextGen
  BY DEF TermEnds
<1>4. new \in Leases
  <2> HIDE DEF old
  <2>1. [old EXCEPT !.live = FALSE] \in Leases
    BY <1>2 DEF Leases
  <2>2. QED
    BY <1>2, <2>1
<1>5. new = old \/ (old.owner = t.owner /\ old.gen = t.gen)
  OBVIOUS
<1> HIDE DEF new
<1>6. /\ KernelOK' /\ \A q \in TeamRoles \ {r} : lease'[q] = lease[q]
      /\ new = old => lease' = lease
  BY <1>1, <1>2, <1>3, <1>4 DEF KernelOK
<1>7. QED
  BY <1>2, <1>5, <1>6

\* What happens in a pane by itself: another agent, or another state of one.
LEMMA PaneTypes ==
    ASSUME RuntimeTypeOK, NEW p \in LivePanes, AgentChanges(p) \/ PaneCloses(p) \/ UserAgent(p)
    PROVE  /\ AgentsOK' /\ PanesOK'
           /\ \A q \in LivePanes \ {p} : agent'[q] = agent[q]
           /\ \/ AgentChanges(p) /\ agent'[p].role = agent[p].role /\ agent[p].state # "none"
              \/ PaneCloses(p) /\ agent'[p].state = "none"
              \/ UserAgent(p) /\ agent'[p].role = Nobody
<1> DEFINE old == agent[p]
<1>1. PanesOK /\ AgentsOK /\ old \in Agents
  BY TypeParts DEF AgentsOK
<1>2. CASE AgentChanges(p)
  <2>1. PICK step \in {<<"late", "pending">>, <<"pending", "ready">>, <<"ready", "none">>} :
           old.state = step[1] /\ agent' = [agent EXCEPT ![p] = [old EXCEPT !.state = step[2]]]
    BY <1>2 DEF AgentChanges
  <2>2. step[2] \in {"none", "late", "pending", "ready"} /\ old.state # "none"
    BY <2>1
  <2> DEFINE after == step[2]
             new == [old EXCEPT !.state = after]
  <2>3. agent' = [agent EXCEPT ![p] = new]
    BY <2>1
  <2> HIDE DEF old, after
  <2>4. after \in {"none", "late", "pending", "ready"}
    BY <2>2 DEF after
  <2>5. new \in Agents /\ new.role = old.role
    BY <1>1, <2>4 DEF Agents
  <2> HIDE DEF new
  <2>6. AgentsOK' /\ agent'[p] = new /\ \A q \in LivePanes \ {p} : agent'[q] = agent[q]
    BY <1>1, <2>3, <2>5, AgentChanged
  <2>7. PanesOK'
    BY <1>1, <1>2, TypesStay DEF AgentChanges
  <2>8. QED
    BY <1>2, <2>2, <2>5, <2>6, <2>7 DEF old
<1>3. CASE PaneCloses(p)
  <2> DEFINE new == [old EXCEPT !.state = "none"]
  <2>1. agent' = [agent EXCEPT ![p] = new]
    BY <1>3 DEF PaneCloses
  <2> HIDE DEF old
  <2>2. new \in Agents /\ new.state = "none"
    BY <1>1, AgentTypes
  <2> HIDE DEF new
  <2>3. AgentsOK' /\ agent'[p] = new /\ \A q \in LivePanes \ {p} : agent'[q] = agent[q]
    BY <1>1, <2>1, <2>2, AgentChanged
  <2>4. PanesOK'
    BY <1>1, <1>3 DEF PaneCloses, PanesOK
  <2>5. QED
    BY <1>3, <2>2, <2>3, <2>4
<1>4. CASE UserAgent(p)
  <2>1. agent' = [agent EXCEPT ![p] = Runs(Nobody, "ready")]
    BY <1>4 DEF UserAgent
  <2>2. Runs(Nobody, "ready") \in Agents /\ Runs(Nobody, "ready").role = Nobody
    BY <1>1, AgentTypes
  <2>3. AgentsOK' /\ agent'[p].role = Nobody /\ \A q \in LivePanes \ {p} : agent'[q] = agent[q]
    BY <1>1, <2>1, <2>2, AgentChanged
  <2>4. PanesOK'
    BY <1>1, <1>4 DEF UserAgent, PanesOK, LivePanes
  <2>5. QED
    BY <1>4, <2>3, <2>4
<1>5. QED
  BY <1>2, <1>3, <1>4

LEMMA OutsideTypes ==
    ASSUME RuntimeTypeOK, OutsideStep
    PROVE  RuntimeTypeOK'
<1>1. ASSUME NEW t \in terms, TermEnds(t) PROVE RuntimeTypeOK'
  BY <1>1, TermTypes, TypeParts, TypePartsNext, TypesStay DEF TermEnds, herdrVars
<1>2. ASSUME NEW p \in LivePanes, AgentChanges(p) \/ PaneCloses(p) \/ UserAgent(p)
      PROVE  RuntimeTypeOK'
  <2>1. UNCHANGED <<mission, row, kernelVars, launcher, strays>>
    BY <1>2 DEF AgentChanges, PaneCloses, UserAgent
  <2>2. QED
    BY <1>2, <2>1, PaneTypes, TypeParts, TypePartsNext, TypesStay
<1>3. QED
  BY <1>1, <1>2 DEF OutsideStep

LEMMA RuntimeTypeStep == RuntimeTypeOK /\ [RuntimeNext]_runtimeVars => RuntimeTypeOK'
<1> SUFFICES ASSUME RuntimeTypeOK, [RuntimeNext]_runtimeVars PROVE RuntimeTypeOK'
  OBVIOUS
<1>1. CASE UNCHANGED runtimeVars
  BY <1>1 DEF runtimeVars, kernelVars, herdrVars, RuntimeTypeOK
<1>2. QED
  BY <1>1, LauncherTypes, KernelTypes, OutsideTypes DEF RuntimeNext

LEMMA RuntimeTypeStart == RuntimeInit => RuntimeTypeOK
<1> SUFFICES ASSUME RuntimeInit PROVE RuntimeTypeOK
  OBVIOUS
<1>1. Runs(Resting.role, "none") \in Agents
  BY SmallTypes DEF Runs, Agents
<1>2. QED
  BY <1>1, SmallTypes DEF RuntimeInit, RuntimeTypeOK, RootPane, LivePanes

-----------------------------------------------------------------------------
\* Who holds a launch.  A fence never expires, a process fences only a role whose
\* lease it saw expired or absent, and a reconciliation keeps the write lock.
FencesLast == \A r \in TeamRoles : Fenced(r) => lease[r].live
FencesAreDue == \A l \in Launchers : launcher[l].pc = "fence" => ~launcher[l].snap.lease.live
ScanIsCurrent == scan.on => scan.rows = row

HoldersInv == HoldersAreCurrent /\ FencesLast /\ FencesAreDue /\ ScanIsCurrent

\* What a step does to the leases and generations of the roles that are fenced.
FencesHold == \A r \in TeamRoles : Fenced(r) => lease'[r] = lease[r] /\ row'[r].gen = row[r].gen

\* A step that touches no lease and no generation.
LEMMA QuietLeases ==
    ASSUME HoldersInv, RuntimeTypeOK, UNCHANGED kernelVars,
           \A r \in TeamRoles : row'[r].gen = row[r].gen
    PROVE  HoldersAreCurrent' /\ FencesLast' /\ FencesHold
BY DEF HoldersInv, HoldersAreCurrent, FencesLast, FencesHold, Fenced, kernelVars, RuntimeTypeOK

\* A role whose lease nobody holds can be given another one.
LEMMA FreeLease ==
    ASSUME HoldersInv, RuntimeTypeOK, NEW r \in TeamRoles, ~lease[r].live, terms' = terms,
           \A q \in TeamRoles \ {r} : lease'[q] = lease[q] /\ row'[q].gen = row[q].gen,
           lease'[r].owner = FenceOwner => lease'[r].live
    PROVE  HoldersAreCurrent' /\ FencesLast' /\ FencesHold
<1>1. \A t \in terms : t.role \in TeamRoles /\ t.role # r
  <2> SUFFICES ASSUME NEW t \in terms PROVE t.role \in TeamRoles /\ t.role # r
    OBVIOUS
  <2>1. t.role \in TeamRoles
    BY DEF RuntimeTypeOK
  <2>2. lease[t.role] = [owner |-> t.owner, gen |-> t.gen, live |-> TRUE]
    BY DEF HoldersInv, HoldersAreCurrent
  <2>3. lease[t.role].live
    BY <2>2
  <2>4. QED
    BY <2>1, <2>3
<1>2. HoldersAreCurrent'
  BY <1>1 DEF HoldersInv, HoldersAreCurrent
<1>3. ~Fenced(r) /\ \A q \in TeamRoles \ {r} : Fenced(q) => lease[q].live
  BY DEF HoldersInv, FencesLast
<1>4. FencesLast' /\ FencesHold
  BY <1>3 DEF FencesLast, FencesHold, Fenced
<1>5. QED
  BY <1>2, <1>4

\* A process comes to fence a role only from a split under a lease it saw free.
LEMMA FencesAreDueStep ==
    ASSUME FencesAreDue, RuntimeTypeOK, NEW l \in Launchers, LauncherStep(l)
    PROVE  FencesAreDue'
<1>0. /\ LauncherOK /\ RowsOK /\ mission \in Missions
      /\ row \in [TeamRoles -> Rows] /\ lease \in [TeamRoles -> Leases]
      /\ nextGen \in 1 .. MaxLaunchGen + 1 /\ PanesOK
  BY TypeParts DEF RuntimeTypeOK
<1>1. ASSUME NEW job \in Processes, Turns(l, job), job.pc = "fence" => ~job.snap.lease.live
      PROVE  FencesAreDue'
  BY <1>0, <1>1, Turned DEF FencesAreDue
<1>2. ASSUME NEW pc \in Pcs, Goto(l, pc), pc = "fence" => ~launcher[l].snap.lease.live
      PROVE  FencesAreDue'
  <2>1. PICK job \in Processes : Turns(l, job) /\ job.pc = pc /\ Keeps(job, launcher[l])
    BY <1>0, <1>2, GotoTurns
  <2>2. job.pc = "fence" => ~job.snap.lease.live
    BY <1>2, <2>1 DEF Keeps
  <2>3. QED
    BY <1>1, <2>1, <2>2
<1>3. ASSUME Advance(l) \/ launcher' = [launcher EXCEPT ![l] = Resting]
      PROVE  FencesAreDue'
  <2>1. PICK job \in Processes : Turns(l, job) /\ Starts(job, launcher[l])
    BY <1>0, <1>3, AdvanceTurns, RestTurns
  <2>2. job.pc # "fence"
    BY <2>1 DEF Starts
  <2>3. QED
    BY <1>1, <2>1, <2>2
<1>4. CASE Begin(l, mission.team, NoPane)
  <2>1. mission.team \in Seq(TeamRoles) /\ NoPane \in Panes
    BY <1>0, MissionTypes DEF Panes
  <2>2. PICK job \in Processes : Turns(l, job) /\ job.pc = "role"
    BY <1>0, <1>4, <2>1, BeginTurns
  <2>3. QED
    BY <1>1, <2>2
<1>5. ASSUME NEW i \in DOMAIN mission.team, NEW p \in Anchors, Begin(l, <<mission.team[i]>>, p)
      PROVE  FencesAreDue'
  <2>1. <<mission.team[i]>> \in Seq(TeamRoles) /\ p \in Panes
    <3>1. mission.team[i] \in TeamRoles
      BY <1>0, MissionTypes
    <3>2. QED
      BY <3>1 DEF Panes, LivePanes
  <2>2. PICK job \in Processes : Turns(l, job) /\ job.pc = "role"
    BY <1>0, <1>5, <2>1, BeginTurns
  <2>3. QED
    BY <1>1, <2>2
<1>6. CASE Fail(l) \/ StageUncertain(l) \/ FenceUnstaged(l)
  BY <1>3, <1>6 DEF Fail, StageUncertain, FenceUnstaged
<1>7. CASE Reuse(l) \/ Skip(l) \/ Finalize(l) \/ RecordRuntime(l)
  BY <1>3, <1>7 DEF Reuse, Skip, Finalize, RecordRuntime
<1>8. CASE Resume(l)
  <2>1. PICK job \in Processes : Turns(l, job) /\ job.pc = "ensure"
    BY <1>0, <1>8, ResumeTurns
  <2>2. QED
    BY <1>1, <2>1
<1>9. CASE Allocate(l)
  <2>1. ASSUME NEW q \in Panes,
               launcher' = [launcher EXCEPT ![l] =
                  [launcher[l] EXCEPT !.pc = "split", !.pane = q, !.fresh = TRUE]]
        PROVE  FencesAreDue'
    <3>1. PICK job \in Processes : Turns(l, job) /\ job.pc = "split"
      BY <1>0, <2>1, SplitTurns
    <3>2. QED
      BY <1>1, <3>1
  <2>2. RootPane \in Panes
    BY DEF Panes, LivePanes, RootPane
  <2>3. nextPane <= MaxPane => nextPane \in Panes
    BY <1>0 DEF PanesOK, Panes, LivePanes
  <2>4. QED
    BY <1>3, <1>9, <2>1, <2>2, <2>3 DEF Allocate
<1>10. CASE Replace(l)
  <2>1. PICK job \in Processes : Turns(l, job) /\ job.pc = "stage"
    BY <1>0, <1>10, ReplaceTurns
  <2>2. QED
    BY <1>1, <2>1
<1>11. CASE Stage(l)
  <2>1. nextPane \in LivePanes /\ nextGen \in LaunchGens
    BY <1>0, <1>11 DEF Stage, PanesOK, LivePanes, LaunchGens
  <2>2. PICK job \in Processes : Turns(l, job) /\ job.pc = "ensure"
    BY <1>0, <1>11, <2>1, StageTurns
  <2>3. QED
    BY <1>1, <2>2
<1>12. CASE StageLost(l)
  BY <1>2, <1>12 DEF StageLost, MayStage, Pcs
<1>13. CASE RecordPane(l) \/ Adopt(l)
  <2>1. Goto(l, "ensure") \/ Goto(l, "record")
    BY <1>13 DEF RecordPane, Adopt
  <2>2. QED
    BY <1>2, <2>1 DEF Pcs
<1>14. CASE StartAgent(l) \/ FindBusy(l) \/ Await(l)
  <2>1. \E pc \in {"ensure", "busy", "adopt", "record"} : Goto(l, pc)
    BY <1>14 DEF StartAgent, FindBusy, Await
  <2>2. QED
    BY <1>2, <2>1 DEF Pcs
<1>15. ASSUME NEW i \in DOMAIN mission.team, NEW p \in mission.users, Join(l, mission.team[i], p)
       PROVE  FencesAreDue'
  <2>1. mission.team[i] \in TeamRoles /\ p \in LivePanes
    BY <1>0, MissionTypes
  <2>2. CASE launcher' = launcher
    BY <2>2 DEF FencesAreDue
  <2>3. ASSUME NEW job \in Processes, Turns(l, job), job.pc = "record"
        PROVE  FencesAreDue'
    BY <1>1, <2>3
  <2>4. QED
    BY <1>0, <1>15, <2>1, <2>2, <2>3, JoinTurns
<1>16. QED
  BY <1>4, <1>5, <1>6, <1>7, <1>8, <1>9, <1>10, <1>11, <1>12, <1>13, <1>14, <1>15
     DEF LauncherStep

\* The row that a process records: the pane and the agent of a role, not its generation.
LEMMA RecordedRow ==
    ASSUME RuntimeTypeOK, NEW l \in Launchers,
           RecordPane(l) \/ RecordRuntime(l) \/ Finalize(l)
    PROVE  /\ launcher[l].role \in TeamRoles /\ Unlocked
           /\ \A q \in TeamRoles : row'[q].gen = row[q].gen
           /\ \A q \in TeamRoles \ {launcher[l].role} : row'[q] = row[q]
           /\ RecordPane(l) \/ RecordRuntime(l) => row'[launcher[l].role].pane = launcher[l].pane
           /\ Finalize(l) => row'[launcher[l].role].pane = row[launcher[l].role].pane
           /\ row'[launcher[l].role].health \in {"unknown", "idle"}
<1> DEFINE r == launcher[l].role
           p == launcher[l].pane
           old == row[r]
           opened == [old EXCEPT !.pane = p, !.named = FALSE, !.health = "unknown"]
           bound == [old EXCEPT !.pane = p, !.named = TRUE, !.health = "idle"]
           final == [old EXCEPT !.named = TRUE, !.health = "idle"]
<1>1. launcher[l] \in Processes /\ RowsOK
  BY TypeParts DEF LauncherOK
<1>2. r \in TeamRoles /\ p \in Panes
  BY <1>1, ProcessFields
<1>3. old \in Rows
  BY <1>1, <1>2 DEF RowsOK
<1>4. /\ RecordPane(l) => row' = [row EXCEPT ![r] = opened]
      /\ RecordRuntime(l) => row' = [row EXCEPT ![r] = bound]
      /\ Finalize(l) => row' = [row EXCEPT ![r] = final]
      /\ Unlocked
  BY DEF RecordPane, RecordRuntime, Finalize
<1> HIDE DEF r, p, old
<1>5. opened \in Rows /\ bound \in Rows /\ final \in Rows
  BY <1>2, <1>3, RowTypes
<1>6. /\ opened.gen = old.gen /\ opened.pane = p /\ opened.health = "unknown"
      /\ bound.gen = old.gen /\ bound.pane = p /\ bound.health = "idle"
      /\ final.gen = old.gen /\ final.pane = old.pane /\ final.health = "idle"
  BY <1>3 DEF Rows
<1> HIDE DEF opened, bound, final
<1>7. ASSUME NEW new \in Rows, row' = [row EXCEPT ![r] = new], new.gen = old.gen
      PROVE  /\ row'[r] = new /\ \A q \in TeamRoles : row'[q].gen = row[q].gen
             /\ \A q \in TeamRoles \ {r} : row'[q] = row[q]
  BY <1>1, <1>2, <1>7, RowWritten DEF old
<1>8. CASE RecordPane(l)
  <2>1. /\ row'[r] = opened /\ \A q \in TeamRoles : row'[q].gen = row[q].gen
        /\ \A q \in TeamRoles \ {r} : row'[q] = row[q]
    BY <1>4, <1>5, <1>6, <1>7, <1>8
  <2>2. ~Finalize(l)
    BY <1>8 DEF RecordPane, Finalize, At
  <2>3. QED
    BY <1>2, <1>4, <1>6, <2>1, <2>2 DEF r, p
<1>9. CASE RecordRuntime(l)
  <2>1. /\ row'[r] = bound /\ \A q \in TeamRoles : row'[q].gen = row[q].gen
        /\ \A q \in TeamRoles \ {r} : row'[q] = row[q]
    BY <1>4, <1>5, <1>6, <1>7, <1>9
  <2>2. ~Finalize(l)
    BY <1>9 DEF RecordRuntime, Finalize
  <2>3. QED
    BY <1>2, <1>4, <1>6, <2>1, <2>2 DEF r, p
<1>10. CASE Finalize(l)
  <2>1. /\ row'[r] = final /\ \A q \in TeamRoles : row'[q].gen = row[q].gen
        /\ \A q \in TeamRoles \ {r} : row'[q] = row[q]
    BY <1>4, <1>5, <1>6, <1>7, <1>10
  <2>2. ~RecordPane(l) /\ ~RecordRuntime(l)
    BY <1>10 DEF RecordPane, RecordRuntime, Finalize, At
  <2>3. QED
    BY <1>2, <1>4, <1>6, <2>1, <2>2 DEF r, old
<1>11. QED
  BY <1>8, <1>9, <1>10

\* The row and the lease of a staged replacement, and the lease of a fence.
LEMMA StagedLease ==
    ASSUME RuntimeTypeOK, NEW l \in Launchers,
           \/ Stage(l) /\ launcher[l].pc = "stage"
           \/ StageUncertain(l)
           \/ FenceUnstaged(l) /\ ~launcher[l].snap.lease.live
    PROVE  /\ launcher[l].role \in TeamRoles /\ Unlocked /\ terms' = terms
           /\ ~lease[launcher[l].role].live
           /\ \A q \in TeamRoles \ {launcher[l].role} : lease'[q] = lease[q] /\ row'[q] = row[q]
           /\ lease'[launcher[l].role].owner = FenceOwner => lease'[launcher[l].role].live
           /\ Stage(l) => row' = [row EXCEPT ![launcher[l].role] = StagedRow]
           /\ ~Stage(l) => row' = row
<1> DEFINE r == launcher[l].role
<1>1. launcher[l] \in Processes /\ lease \in [TeamRoles -> Leases] /\ row \in [TeamRoles -> Rows]
  BY TypeParts DEF LauncherOK, KernelOK, RowsOK
<1>2. r \in TeamRoles
  BY <1>1, ProcessFields
<1>3. Binding(r) = launcher[l].snap => lease[r] = launcher[l].snap.lease
  BY DEF Binding
<1>4. ~lease[r].live /\ Unlocked /\ terms' = terms
  BY <1>3 DEF Stage, StageUncertain, FenceUnstaged, MayStage
<1>5. CASE Stage(l)
  <2>1. lease' = [lease EXCEPT ![r] = NoLease] /\ row' = [row EXCEPT ![r] = StagedRow]
    BY <1>5 DEF Stage, StagedRow
  <2>2. NoLease.owner # FenceOwner
    BY DEF NoLease, Nobody, FenceOwner
  <2>3. QED
    BY <1>1, <1>2, <1>4, <1>5, <2>1, <2>2
<1>6. CASE ~Stage(l)
  <2>1. lease' = [lease EXCEPT ![r] = Fence(nextGen)] /\ row' = row
    BY <1>6 DEF StageUncertain, FenceUnstaged
  <2>2. Fence(nextGen).live
    BY DEF Fence
  <2>3. QED
    BY <1>1, <1>2, <1>4, <1>6, <2>1, <2>2
<1>7. QED
  BY <1>5, <1>6

LEMMA LauncherHolders ==
    ASSUME HoldersInv, RuntimeTypeOK, NEW l \in Launchers, LauncherStep(l)
    PROVE  HoldersInv' /\ FencesHold
<1>1. FencesAreDue'
  BY FencesAreDueStep DEF HoldersInv
<1>2. ASSUME UNCHANGED <<row, kernelVars, scan>> PROVE HoldersInv' /\ FencesHold
  <2>1. HoldersAreCurrent' /\ FencesLast' /\ FencesHold
    BY <1>2, QuietLeases
  <2>2. ScanIsCurrent'
    BY <1>2 DEF HoldersInv, ScanIsCurrent
  <2>3. QED
    BY <1>1, <2>1, <2>2 DEF HoldersInv
<1>3. CASE RecordPane(l) \/ RecordRuntime(l) \/ Finalize(l)
  <2>1. UNCHANGED <<kernelVars, scan>> /\ Unlocked
    BY <1>3 DEF RecordPane, RecordRuntime, Finalize
  <2>2. HoldersAreCurrent' /\ FencesLast' /\ FencesHold
    BY <1>3, <2>1, RecordedRow, QuietLeases
  <2>3. ScanIsCurrent'
    BY <2>1 DEF ScanIsCurrent, Unlocked
  <2>4. QED
    BY <1>1, <2>2, <2>3 DEF HoldersInv
<1>4. CASE Stage(l) \/ StageUncertain(l) \/ FenceUnstaged(l)
  <2>1. /\ Stage(l) => launcher[l].pc = "stage"
        /\ FenceUnstaged(l) => ~launcher[l].snap.lease.live
        /\ scan' = scan
    BY <1>4 DEF Stage, StageUncertain, FenceUnstaged, At, HoldersInv, FencesAreDue
  <2>2. HoldersAreCurrent' /\ FencesLast' /\ FencesHold
    BY <1>4, <2>1, StagedLease, FreeLease
  <2>3. ScanIsCurrent'
    BY <1>4, <2>1, StagedLease DEF ScanIsCurrent, Unlocked
  <2>4. QED
    BY <1>1, <2>2, <2>3 DEF HoldersInv
<1>5. CASE ~ (\/ RecordPane(l) \/ RecordRuntime(l) \/ Finalize(l)
             \/ Stage(l) \/ StageUncertain(l) \/ FenceUnstaged(l))
  <2>1. UNCHANGED <<row, kernelVars, scan>>
    BY <1>5 DEF LauncherStep, Begin, Fail, Reuse, Skip, Resume, Allocate, Replace, StageLost, StartAgent,
                FindBusy, Adopt, Await, Join
  <2>2. QED
    BY <1>2, <2>1
<1>6. QED
  BY <1>3, <1>4, <1>5

\* A launch is granted to who holds the role already, or when nobody does.
LEMMA LaunchHolders ==
    ASSUME HoldersInv, RuntimeTypeOK, NEW o \in LeaseOwners, NEW r \in TeamRoles,
           NEW g \in LaunchGens, LaunchRequest(o, r, g)
    PROVE  HoldersInv' /\ FencesHold
<1> DEFINE held == [owner |-> o, gen |-> g, live |-> TRUE]
           term == [owner |-> o, role |-> r, gen |-> g]
<1>1. /\ row'[r].gen = g /\ lease'[r] = held
      /\ \A q \in TeamRoles \ {r} : lease'[q] = lease[q] /\ row'[q].gen = row[q].gen
  BY LaunchTypes
<1>2. /\ terms' = terms \cup {term} /\ UNCHANGED <<launcher, scan>> /\ Unlocked
      /\ ~lease[r].live \/ (lease[r].owner = o /\ lease[r].gen = g)
  BY DEF LaunchRequest, MayLaunch
<1>3. ASSUME NEW t \in terms, t.role = r
      PROVE  t.owner = o /\ t.gen = g
  <2>1. lease[r] = [owner |-> t.owner, gen |-> t.gen, live |-> TRUE]
    BY <1>3 DEF HoldersInv, HoldersAreCurrent
  <2>2. lease[r].owner = t.owner /\ lease[r].gen = t.gen /\ lease[r].live
    BY <2>1
  <2>3. QED
    BY <1>2, <2>2
<1>4. HoldersAreCurrent'
  <2> SUFFICES ASSUME NEW t \in terms'
               PROVE  /\ lease'[t.role] = [owner |-> t.owner, gen |-> t.gen, live |-> TRUE]
                      /\ row'[t.role].gen = t.gen
    BY DEF HoldersAreCurrent
  <2>1. CASE t = term
    BY <1>1, <2>1
  <2>2. CASE t \in terms /\ t.role = r
    BY <1>1, <1>3, <2>2
  <2>3. CASE t \in terms /\ t.role # r
    <3>1. t.role \in TeamRoles
      BY <2>3 DEF RuntimeTypeOK
    <3>2. lease[t.role] = [owner |-> t.owner, gen |-> t.gen, live |-> TRUE] /\ row[t.role].gen = t.gen
      BY <2>3 DEF HoldersInv, HoldersAreCurrent
    <3>3. QED
      BY <1>1, <2>3, <3>1, <3>2
  <2>4. QED
    BY <1>2, <2>1, <2>2, <2>3
<1>5. ~Fenced(r)
  BY <1>2 DEF HoldersInv, FencesLast, Fenced
<1>6. FencesLast' /\ FencesHold
  <2>1. held.owner = o /\ o # FenceOwner
    OBVIOUS
  <2>2. QED
    BY <1>1, <1>5, <2>1 DEF HoldersInv, FencesLast, FencesHold, Fenced
<1>7. FencesAreDue' /\ ScanIsCurrent'
  BY <1>2 DEF HoldersInv, FencesAreDue, ScanIsCurrent, Unlocked
<1>8. QED
  BY <1>4, <1>6, <1>7 DEF HoldersInv

\* Only the holder of a lease reports, and gives it back at the end.
LEMMA ObserveHolders ==
    ASSUME HoldersInv, RuntimeTypeOK, NEW o \in LeaseOwners, NEW r \in TeamRoles,
           NEW h \in {"starting", "idle", "stopped"}, Observe(o, r, h)
    PROVE  HoldersInv' /\ FencesHold
<1> DEFINE held == [owner |-> o, gen |-> row[r].gen, live |-> TRUE]
           term == [owner |-> o, role |-> r, gen |-> row[r].gen]
<1>1. /\ lease[r] = held /\ Unlocked /\ UNCHANGED <<nextGen, launcher, scan>>
      /\ \/ UNCHANGED <<lease, terms>>
         \/ lease' = [lease EXCEPT ![r] = NoLease] /\ terms' = terms \ {term}
  BY DEF Observe
<1>2. lease \in [TeamRoles -> Leases]
  BY DEF RuntimeTypeOK
<1>3. \A q \in TeamRoles : row'[q].gen = row[q].gen
  BY ObserveTypes
<1>4. HoldersAreCurrent' /\ FencesLast' /\ FencesHold
  <2>1. CASE UNCHANGED <<lease, terms>>
    BY <1>1, <1>3, <2>1, QuietLeases DEF kernelVars
  <2>2. CASE lease' = [lease EXCEPT ![r] = NoLease] /\ terms' = terms \ {term}
    <3>1. held.owner = o /\ held.gen = row[r].gen /\ o # FenceOwner
      OBVIOUS
    <3>2. ASSUME NEW t \in terms', t.role = r PROVE FALSE
      <4>1. t \in terms /\ t # term /\ t \in [owner : LeaseOwners, role : TeamRoles, gen : LaunchGens]
        BY <2>2, <3>2 DEF RuntimeTypeOK
      <4>2. lease[r] = [owner |-> t.owner, gen |-> t.gen, live |-> TRUE]
        BY <3>2, <4>1 DEF HoldersInv, HoldersAreCurrent
      <4>3. t.owner = o /\ t.gen = row[r].gen
        BY <1>1, <4>2
      <4>4. t = term
        BY <3>2, <4>1, <4>3
      <4>5. QED
        BY <4>1, <4>4
    <3>3. HoldersAreCurrent'
      <4> SUFFICES ASSUME NEW t \in terms'
                   PROVE  /\ lease'[t.role] = [owner |-> t.owner, gen |-> t.gen, live |-> TRUE]
                          /\ row'[t.role].gen = t.gen
        BY DEF HoldersAreCurrent
      <4>1. t \in terms /\ t.role # r /\ t.role \in TeamRoles
        BY <2>2, <3>2 DEF RuntimeTypeOK
      <4>2. lease[t.role] = [owner |-> t.owner, gen |-> t.gen, live |-> TRUE] /\ row[t.role].gen = t.gen
        BY <4>1 DEF HoldersInv, HoldersAreCurrent
      <4>3. QED
        BY <1>2, <1>3, <2>2, <4>1, <4>2
    <3>4. lease'[r] = NoLease /\ \A q \in TeamRoles \ {r} : lease'[q] = lease[q]
      BY <1>2, <2>2
    <3>5. NoLease.owner # FenceOwner
      BY DEF NoLease, Nobody, FenceOwner
    <3>6. FencesLast' /\ FencesHold
      BY <1>1, <1>3, <3>1, <3>4, <3>5 DEF HoldersInv, FencesLast, FencesHold, Fenced
    <3>7. QED
      BY <3>3, <3>6
  <2>3. QED
    BY <1>1, <2>1, <2>2
<1>5. FencesAreDue' /\ ScanIsCurrent'
  BY <1>1 DEF HoldersInv, FencesAreDue, ScanIsCurrent, Unlocked
<1>6. QED
  BY <1>4, <1>5 DEF HoldersInv

LEMMA TermHolders ==
    ASSUME HoldersInv, RuntimeTypeOK, NEW t \in terms, TermEnds(t)
    PROVE  HoldersInv' /\ FencesHold
<1>1. /\ t.role \in TeamRoles /\ t.owner \in LeaseOwners
      /\ t \in [owner : LeaseOwners, role : TeamRoles, gen : LaunchGens]
      /\ \A q \in TeamRoles \ {t.role} : lease'[q] = lease[q]
      /\ lease[t.role] = [owner |-> t.owner, gen |-> t.gen, live |-> TRUE]
  BY TermTypes DEF HoldersInv, HoldersAreCurrent, RuntimeTypeOK
<1>2. terms' = terms \ {t} /\ UNCHANGED <<row, launcher, scan>>
  BY DEF TermEnds
<1>3. ASSUME NEW u \in terms', u.role = t.role PROVE FALSE
  <2>1. u \in terms /\ u # t /\ u \in [owner : LeaseOwners, role : TeamRoles, gen : LaunchGens]
    BY <1>2, <1>3 DEF RuntimeTypeOK
  <2>2. lease[t.role] = [owner |-> u.owner, gen |-> u.gen, live |-> TRUE]
    BY <1>3, <2>1 DEF HoldersInv, HoldersAreCurrent
  <2>3. u.owner = t.owner /\ u.gen = t.gen
    BY <1>1, <2>2
  <2>4. u = t
    BY <1>1, <1>3, <2>1, <2>3
  <2>5. QED
    BY <2>1, <2>4
<1>4. HoldersAreCurrent'
  BY <1>1, <1>2, <1>3 DEF HoldersInv, HoldersAreCurrent, RuntimeTypeOK
<1>5. lease[t.role].owner = t.owner /\ t.owner # FenceOwner
  BY <1>1
<1>6. lease'[t.role].owner # FenceOwner
  <2> DEFINE old == lease[t.role]
  <2>1. lease' = [lease EXCEPT ![t.role] =
                    IF old.owner = t.owner /\ old.gen = t.gen THEN [old EXCEPT !.live = FALSE] ELSE old]
    BY DEF TermEnds
  <2>2. lease \in [TeamRoles -> Leases] /\ old \in Leases
    BY <1>1 DEF RuntimeTypeOK
  <2>3. lease'[t.role] = old \/ lease'[t.role] = [old EXCEPT !.live = FALSE]
    BY <1>1, <2>1, <2>2
  <2>4. [old EXCEPT !.live = FALSE].owner = old.owner
    <3> HIDE DEF old
    <3>1. QED
      BY <2>2 DEF Leases
  <2>5. QED
    BY <1>5, <2>3, <2>4
<1>7. FencesLast' /\ FencesHold
  BY <1>1, <1>2, <1>5, <1>6 DEF HoldersInv, FencesLast, FencesHold, Fenced
<1>8. FencesAreDue' /\ ScanIsCurrent'
  BY <1>2 DEF HoldersInv, FencesAreDue, ScanIsCurrent
<1>9. QED
  BY <1>4, <1>7, <1>8 DEF HoldersInv

LEMMA HoldersStep ==
    ASSUME HoldersInv, RuntimeTypeOK, [RuntimeNext]_runtimeVars
    PROVE  HoldersInv' /\ FencesHold
<1>1. ASSUME UNCHANGED <<kernelVars, launcher>>, \A r \in TeamRoles : row'[r].gen = row[r].gen,
             ScanIsCurrent'
      PROVE  HoldersInv' /\ FencesHold
  BY <1>1, QuietLeases DEF HoldersInv, FencesAreDue
<1>2. CASE UNCHANGED runtimeVars
  BY <1>1, <1>2 DEF runtimeVars, HoldersInv, ScanIsCurrent
<1>3. CASE ReadAgents
  <2>1. scan'.rows = row' /\ UNCHANGED <<row, kernelVars, launcher>>
    BY <1>3 DEF ReadAgents
  <2>2. QED
    BY <1>1, <2>1 DEF ScanIsCurrent
<1>4. CASE WriteHealth
  <2>1. UNCHANGED <<kernelVars, launcher>> /\ ~scan'.on
    BY <1>4 DEF WriteHealth, NoScan
  <2>2. \A r \in TeamRoles : row'[r].gen = row[r].gen
    BY <1>4, HealthTypes, TypeParts
  <2>3. QED
    BY <1>1, <2>1, <2>2 DEF ScanIsCurrent
<1>5. ASSUME NEW o \in mission.owners, NEW r \in TeamRoles, RequestLaunch(o, r)
      PROVE  HoldersInv' /\ FencesHold
  <2>1. o \in LeaseOwners /\ row[r].gen \in LaunchGens
    BY MissionTypes, RowTypes DEF RuntimeTypeOK
  <2>2. nextGen <= MaxLaunchGen => nextGen \in LaunchGens
    BY DEF RuntimeTypeOK, LaunchGens
  <2>3. QED
    BY <1>5, <2>1, <2>2, LaunchHolders DEF RequestLaunch
<1>6. ASSUME NEW o \in mission.owners, NEW r \in TeamRoles,
             NEW h \in {"starting", "idle", "stopped"}, Observe(o, r, h)
      PROVE  HoldersInv' /\ FencesHold
  BY <1>6, ObserveHolders, MissionTypes DEF RuntimeTypeOK
<1>7. ASSUME NEW p \in LivePanes, AgentChanges(p) \/ PaneCloses(p) \/ UserAgent(p)
      PROVE  HoldersInv' /\ FencesHold
  <2>1. UNCHANGED <<row, kernelVars, launcher, scan>>
    BY <1>7 DEF AgentChanges, PaneCloses, UserAgent
  <2>2. QED
    BY <1>1, <2>1 DEF HoldersInv, ScanIsCurrent
<1>8. \A i \in DOMAIN mission.team : mission.team[i] \in TeamRoles
  BY MissionTypes DEF RuntimeTypeOK
<1>9. QED
  BY <1>2, <1>3, <1>4, <1>5, <1>6, <1>7, <1>8, LauncherHolders, TermHolders
     DEF RuntimeNext, KernelStep, OutsideStep

LEMMA HoldersStart == RuntimeInit => HoldersInv
<1> SUFFICES ASSUME RuntimeInit PROVE HoldersInv
  OBVIOUS
<1>1. HoldersAreCurrent /\ ScanIsCurrent
  BY DEF RuntimeInit, HoldersAreCurrent, ScanIsCurrent, NoScan
<1>2. NoLease.owner # FenceOwner
  BY DEF NoLease, Nobody, FenceOwner
<1>3. FencesLast
  BY <1>2 DEF RuntimeInit, FencesLast, Fenced
<1>4. FencesAreDue
  BY SmallTypes DEF RuntimeInit, FencesAreDue
<1>5. QED
  BY <1>1, <1>3, <1>4 DEF HoldersInv

\* A status that is new came from a process or a client, or from a reconciliation
\* that had read the row as it is.
LEMMA MissingStep ==
    ASSUME HoldersInv, RuntimeTypeOK, [RuntimeNext]_runtimeVars, NEW r \in TeamRoles,
           row'[r].health = "missing", row[r].health # "missing"
    PROVE  scan.rows[r].pane = row[r].pane /\ scan.rows[r].named
<1>1. RowsOK /\ row[r] \in Rows
  BY TypeParts DEF RowsOK
<1>2. row' # row
  OBVIOUS
<1>3. CASE WriteHealth
  <2>1. scan.on /\ scan.rows = row
    BY <1>3 DEF WriteHealth, HoldersInv, ScanIsCurrent
  <2>2. row[r].named
    BY <1>1, <1>3, HealthTypes
  <2>3. QED
    BY <2>1, <2>2
<1>4. ASSUME NEW l \in Launchers, LauncherStep(l) PROVE FALSE
  <2>1. CASE RecordPane(l) \/ RecordRuntime(l) \/ Finalize(l)
    BY <2>1, RecordedRow
  <2>2. CASE Stage(l)
    <3>1. row' = [row EXCEPT ![launcher[l].role] = StagedRow] /\ launcher[l].role \in TeamRoles
      BY <2>2, StagedLease DEF Stage, At
    <3>2. QED
      BY <1>1, <3>1 DEF RowsOK, StagedRow
  <2>3. CASE ~(RecordPane(l) \/ RecordRuntime(l) \/ Finalize(l) \/ Stage(l))
    BY <1>2, <1>4, <2>3
       DEF LauncherStep, Begin, Fail, Reuse, Skip, Resume, Allocate, Replace, StageUncertain, StageLost,
           FenceUnstaged, StartAgent, FindBusy, Adopt, Await, Join
  <2>4. QED
    BY <2>1, <2>2, <2>3
<1>5. ASSUME NEW o \in mission.owners, NEW q \in TeamRoles, RequestLaunch(o, q) PROVE FALSE
  <2> DEFINE old == row[q]
  <2>1. PICK g : row' = [row EXCEPT ![q] = [old EXCEPT !.gen = g, !.health = "starting"]]
    BY <1>5 DEF RequestLaunch, LaunchRequest
  <2>2. old \in Rows
    BY <1>1 DEF RowsOK
  <2>3. [old EXCEPT !.gen = g, !.health = "starting"].health = "starting"
    <3> HIDE DEF old
    <3>1. QED
      BY <2>2 DEF Rows
  <2>4. QED
    BY <1>1, <2>1, <2>3 DEF RowsOK
<1>6. ASSUME NEW o \in mission.owners, NEW q \in TeamRoles,
             NEW h \in {"starting", "idle", "stopped"}, Observe(o, q, h)
      PROVE FALSE
  <2>1. row'[q].health = h /\ \A x \in TeamRoles \ {q} : row'[x] = row[x]
    BY <1>6, ObserveTypes
  <2>2. QED
    BY <2>1
<1>7. CASE UNCHANGED runtimeVars \/ ReadAgents \/ OutsideStep
  BY <1>2, <1>7 DEF runtimeVars, ReadAgents, OutsideStep, TermEnds, AgentChanges, PaneCloses, UserAgent
<1>8. \A i \in DOMAIN mission.team : mission.team[i] \in TeamRoles
  BY MissionTypes DEF RuntimeTypeOK
<1>9. QED
  BY <1>3, <1>4, <1>5, <1>6, <1>7, <1>8 DEF RuntimeNext, KernelStep

-----------------------------------------------------------------------------
\* Whose pane it is.  A role claims a pane if, as long as the pane is open, the
\* role is recorded with it or has been taken from it.
Claimed(r, p) == p \in openPanes => <<r, p>> \in strays \/ row[r].pane = p

\* A process works at a pane its role claims, has seen panes that were claimed,
\* and replaces a pane that is gone.
ProcessOK(job) ==
    /\ job.pane < nextPane
    /\ \A r \in TeamRoles : job.seen[r].pane < nextPane /\ Claimed(r, job.seen[r].pane)
    /\ job.pc \in {"ensure", "busy", "adopt", "record"} => Claimed(job.role, job.pane)
    /\ job.pc = "stage" => job.snap.row.pane \notin openPanes /\ job.snap.row.pane < nextPane

PanesBelow ==
    /\ \A r \in TeamRoles : row[r].pane < nextPane
    /\ \A p \in openPanes : p < nextPane

AgentsClaimed ==
    \A p \in LivePanes : agent[p].state # "none" =>
        p \in openPanes /\ (agent[p].role = Nobody \/ Claimed(agent[p].role, p))

ClaimsInv == (\A l \in Launchers : ProcessOK(launcher[l])) /\ PanesBelow /\ AgentsClaimed

\* A step that opens no pane again that was closed, and takes no claim away.
KeepsClaims ==
    /\ nextPane <= nextPane'
    /\ \A p \in openPanes' : p \in openPanes \/ nextPane <= p
    /\ \A r \in TeamRoles, p \in Panes : p < nextPane /\ Claimed(r, p) => Claimed(r, p)'

\* Such a step leaves what a claim says of a pane that has been opened.
LEMMA ClaimStays ==
    ASSUME RuntimeTypeOK, RuntimeTypeOK', KeepsClaims,
           NEW r \in TeamRoles, NEW p \in Panes, p < nextPane
    PROVE  /\ p < nextPane'
           /\ Claimed(r, p) => Claimed(r, p)'
           /\ p \notin openPanes => p \notin openPanes'
<1>1. nextPane \in Int /\ nextPane' \in Int /\ nextPane <= nextPane' /\ p \in Int
  BY DEF RuntimeTypeOK, KeepsClaims, Panes, NoPane, LivePanes
<1>2. p < nextPane' /\ ~(nextPane <= p)
  BY <1>1
<1>3. QED
  BY <1>2 DEF KeepsClaims

LEMMA ProcessStays ==
    ASSUME RuntimeTypeOK, RuntimeTypeOK', KeepsClaims, NEW job \in Processes, ProcessOK(job)
    PROVE  ProcessOK(job)'
<1>1. /\ job.pane \in Panes /\ job.role \in TeamRoles
      /\ job.snap \in Snaps /\ job.seen \in [TeamRoles -> [pane : Panes, named : BOOLEAN]]
  BY ProcessFields
<1>2. job.snap.row.pane \in Panes
  <2>1. job.snap.row \in Rows
    BY <1>1 DEF Snaps
  <2>2. QED
    BY <2>1, RowTypes
<1>3. job.pane < nextPane' /\ (Claimed(job.role, job.pane) => Claimed(job.role, job.pane)')
  <2>1. job.pane < nextPane
    BY DEF ProcessOK
  <2>2. QED
    BY <1>1, <2>1, ClaimStays DEF Claimed
<1>4. ASSUME NEW r \in TeamRoles
      PROVE  job.seen[r].pane < nextPane' /\ Claimed(r, job.seen[r].pane)'
  <2>1. job.seen[r].pane \in Panes
    BY <1>1
  <2>2. job.seen[r].pane < nextPane /\ Claimed(r, job.seen[r].pane)
    BY DEF ProcessOK
  <2>3. QED
    BY <2>1, <2>2, ClaimStays DEF Claimed
<1>5. job.pc \in {"ensure", "busy", "adopt", "record"} => Claimed(job.role, job.pane)'
  BY <1>3 DEF ProcessOK
<1>6. ASSUME job.pc = "stage"
      PROVE  job.snap.row.pane \notin openPanes' /\ job.snap.row.pane < nextPane'
  <2>1. job.snap.row.pane \notin openPanes /\ job.snap.row.pane < nextPane
    BY <1>6 DEF ProcessOK
  <2>2. QED
    BY <1>1, <1>2, <2>1, ClaimStays DEF Claimed
<1>7. QED
  BY <1>3, <1>4, <1>5, <1>6 DEF ProcessOK

\* The claims outlast a step that takes no pane from a role.
LEMMA ClaimsKept ==
    ASSUME RuntimeTypeOK, RuntimeTypeOK', nextPane <= nextPane', strays \subseteq strays',
           \A p \in openPanes' : p \in openPanes \/ nextPane <= p,
           \A r \in TeamRoles : row'[r].pane = row[r].pane
    PROVE  KeepsClaims
<1> SUFFICES ASSUME NEW r \in TeamRoles, NEW p \in Panes, p < nextPane, Claimed(r, p), p \in openPanes'
             PROVE  <<r, p>> \in strays' \/ row'[r].pane = p
  BY DEF KeepsClaims, Claimed
<1>1. p \in Int /\ nextPane \in Int
  BY DEF RuntimeTypeOK, Panes, NoPane, LivePanes
<1>2. p \in openPanes
  BY <1>1
<1>3. QED
  BY <1>2 DEF Claimed

\* The panes stay below the next one if that moves on past what is opened.
LEMMA PanesStayBelow ==
    ASSUME RuntimeTypeOK, RuntimeTypeOK', PanesBelow, nextPane <= nextPane',
           \A p \in openPanes' : p \in openPanes \/ p < nextPane',
           \A r \in TeamRoles : row'[r].pane = row[r].pane
    PROVE  PanesBelow'
<1>1. nextPane \in Int /\ nextPane' \in Int /\ openPanes \subseteq Int
  BY DEF RuntimeTypeOK, LivePanes
<1>2. ASSUME NEW r \in TeamRoles PROVE row'[r].pane < nextPane'
  <2>1. row[r].pane \in Int /\ row[r].pane < nextPane
    <3>1. row[r] \in Rows
      BY DEF RuntimeTypeOK
    <3>2. row[r].pane \in Panes
      BY <3>1, RowTypes
    <3>3. QED
      BY <3>2 DEF PanesBelow, Panes, NoPane, LivePanes
  <2>2. QED
    BY <1>1, <2>1
<1>3. ASSUME NEW p \in openPanes' PROVE p < nextPane'
  <2>1. CASE p \in openPanes
    <3>1. p < nextPane /\ p \in Int
      BY <1>1, <2>1 DEF PanesBelow
    <3>2. QED
      BY <1>1, <3>1
  <2>2. QED
    BY <1>3, <2>1
<1>4. QED
  BY <1>2, <1>3 DEF PanesBelow

\* The agents stay where they are claimed.
LEMMA AgentsStay ==
    ASSUME RuntimeTypeOK, RuntimeTypeOK', ClaimsInv, KeepsClaims, UNCHANGED agent,
           openPanes \subseteq openPanes'
    PROVE  AgentsClaimed'
<1> SUFFICES ASSUME NEW p \in LivePanes, agent[p].state # "none"
             PROVE  p \in openPanes' /\ (agent[p].role = Nobody \/ Claimed(agent[p].role, p)')
  BY DEF AgentsClaimed
<1>1. p \in openPanes /\ (agent[p].role = Nobody \/ Claimed(agent[p].role, p)) /\ p < nextPane
  BY DEF ClaimsInv, AgentsClaimed, PanesBelow
<1>2. agent[p].role \in TeamRoles \cup {Nobody} /\ p \in Panes
  BY DEF RuntimeTypeOK, Agents, Panes
<1>3. QED
  BY <1>1, <1>2, ClaimStays DEF Claimed

\* The process that takes the step is the only one that changes.
LEMMA ClaimsTurn ==
    ASSUME RuntimeTypeOK, RuntimeTypeOK', ClaimsInv, KeepsClaims, PanesBelow', AgentsClaimed',
           NEW l \in Launchers, NEW job \in Processes, Turns(l, job), ProcessOK(job)'
    PROVE  ClaimsInv'
<1>1. launcher'[l] = job /\ \A k \in Launchers \ {l} : launcher'[k] = launcher[k]
  BY Turned, TypeParts
<1>2. ASSUME NEW k \in Launchers PROVE ProcessOK(launcher[k])'
  <2>1. CASE k = l
    BY <1>1, <2>1 DEF ProcessOK
  <2>2. CASE k # l
    <3>1. PICK old \in Processes : old = launcher[k] /\ old = launcher'[k]
      BY <1>1, <2>2 DEF RuntimeTypeOK
    <3>2. ProcessOK(old)
      BY <3>1 DEF ClaimsInv
    <3>3. ProcessOK(old)'
      BY <3>2, ProcessStays
    <3>4. QED
      BY <3>1, <3>3 DEF ProcessOK
  <2>3. QED
    BY <2>1, <2>2
<1>3. QED
  BY <1>2 DEF ClaimsInv

\* A step that moves a process and leaves rows, panes and agents alone.
LEMMA QuietTurn ==
    ASSUME RuntimeTypeOK, RuntimeTypeOK', ClaimsInv, NEW l \in Launchers, NEW job \in Processes,
           Turns(l, job), ProcessOK(job), UNCHANGED <<row, herdrVars, strays>>
    PROVE  ClaimsInv'
<1>1. nextPane \in Int
  BY DEF RuntimeTypeOK
<1>2. UNCHANGED <<row, nextPane, openPanes, agent, strays>>
  BY DEF herdrVars
<1>3. KeepsClaims
  BY <1>1, <1>2, ClaimsKept
<1>4. PanesBelow'
  BY <1>2 DEF ClaimsInv, PanesBelow
<1>5. AgentsClaimed'
  BY <1>2, <1>3, AgentsStay
<1>6. ProcessOK(job)'
  BY <1>3, ProcessStays
<1>7. QED
  BY <1>3, <1>4, <1>5, <1>6, ClaimsTurn

\* A step that moves a process and opens a pane at most.
LEMMA OpeningTurn ==
    ASSUME RuntimeTypeOK, RuntimeTypeOK', ClaimsInv, NEW l \in Launchers, NEW job \in Processes,
           Turns(l, job), UNCHANGED <<row, agent, strays>>,
           \/ UNCHANGED <<nextPane, openPanes>>
           \/ nextPane' = nextPane + 1 /\ openPanes' = openPanes \cup {nextPane},
           ProcessOK(job) \/ ProcessOK(job)'
    PROVE  ClaimsInv'
<1>1. nextPane \in Int /\ nextPane' \in Int
  BY DEF RuntimeTypeOK
<1>2. nextPane <= nextPane' /\ openPanes \subseteq openPanes'
  BY <1>1
<1>3. \A p \in openPanes' : p \in openPanes \/ nextPane <= p
  BY <1>1
<1>4. \A p \in openPanes' : p \in openPanes \/ p < nextPane'
  BY <1>1
<1>5. KeepsClaims
  BY <1>2, <1>3, ClaimsKept
<1>6. PanesBelow'
  BY <1>2, <1>4, PanesStayBelow DEF ClaimsInv
<1>7. AgentsClaimed'
  BY <1>2, <1>5, AgentsStay
<1>8. ProcessOK(job)'
  BY <1>5, ProcessStays
<1>9. QED
  BY <1>5, <1>6, <1>7, <1>8, ClaimsTurn

\* What a process is that starts over, or goes on in its pane.
LEMMA StartsOK ==
    ASSUME RuntimeTypeOK, NEW old \in Processes, ProcessOK(old), NEW job \in Processes,
           Starts(job, old)
    PROVE  ProcessOK(job)
<1>1. NoPane < nextPane /\ NoPane \notin openPanes
  BY DEF RuntimeTypeOK, NoPane, LivePanes
<1>2. \A r \in TeamRoles : Resting.seen[r].pane = NoPane
  BY SmallTypes DEF Resting
<1>3. job.pane < nextPane
  BY <1>1 DEF Starts
<1>4. ASSUME NEW r \in TeamRoles PROVE job.seen[r].pane < nextPane /\ Claimed(r, job.seen[r].pane)
  <2>1. CASE job.seen = old.seen
    BY <2>1 DEF ProcessOK
  <2>2. CASE job.seen = Resting.seen
    BY <1>1, <1>2, <2>2 DEF Claimed
  <2>3. QED
    BY <2>1, <2>2 DEF Starts
<1>5. QED
  BY <1>3, <1>4 DEF ProcessOK, Starts

LEMMA KeepsOK ==
    ASSUME NEW old \in Processes, ProcessOK(old), NEW job \in Processes, Keeps(job, old),
           job.pc # "stage",
           job.pc \in {"ensure", "busy", "adopt", "record"} => Claimed(old.role, old.pane)
    PROVE  ProcessOK(job)
BY DEF ProcessOK, Keeps

\* What a process that opens a pane, or is given one, still knows.
LEMMA SeenOK ==
    ASSUME RuntimeTypeOK, RuntimeTypeOK', KeepsClaims, NEW old \in Processes, ProcessOK(old),
           NEW job \in Processes, job.seen = old.seen, job.pc # "stage", job.pane < nextPane',
           job.pc \in {"ensure", "busy", "adopt", "record"} => Claimed(job.role, job.pane)'
    PROVE  ProcessOK(job)'
<1>1. ProcessOK(old)'
  BY ProcessStays
<1>2. \A r \in TeamRoles : job.seen[r].pane < nextPane' /\ Claimed(r, job.seen[r].pane)'
  BY <1>1 DEF ProcessOK
<1>3. QED
  BY <1>2 DEF ProcessOK

\* The claims outlast a step that gives one role another pane, if that role loses
\* none that is open or is counted among the strays.
LEMMA RowClaims ==
    ASSUME RuntimeTypeOK, RuntimeTypeOK', nextPane <= nextPane', strays \subseteq strays',
           \A p \in openPanes' : p \in openPanes \/ nextPane <= p,
           NEW r \in TeamRoles, \A q \in TeamRoles \ {r} : row'[q] = row[q],
           row[r].pane \in openPanes => <<r, row[r].pane>> \in strays' \/ row'[r].pane = row[r].pane
    PROVE  KeepsClaims
<1> SUFFICES ASSUME NEW q \in TeamRoles, NEW p \in Panes, p < nextPane, Claimed(q, p), p \in openPanes'
             PROVE  <<q, p>> \in strays' \/ row'[q].pane = p
  BY DEF KeepsClaims, Claimed
<1>1. p \in Int /\ nextPane \in Int
  BY DEF RuntimeTypeOK, Panes, NoPane, LivePanes
<1>2. p \in openPanes
  BY <1>1
<1>3. <<q, p>> \in strays \/ row[q].pane = p
  BY <1>2 DEF Claimed
<1>4. CASE q = r
  BY <1>2, <1>3, <1>4
<1>5. CASE q # r
  BY <1>3, <1>5
<1>6. QED
  BY <1>4, <1>5

\* The panes stay below the next one if the role's pane does.
LEMMA RowsBelow ==
    ASSUME RuntimeTypeOK, RuntimeTypeOK', PanesBelow, nextPane <= nextPane',
           \A p \in openPanes' : p \in openPanes \/ p < nextPane',
           NEW r \in TeamRoles, \A q \in TeamRoles \ {r} : row'[q] = row[q], row'[r].pane < nextPane'
    PROVE  PanesBelow'
<1>1. nextPane \in Int /\ nextPane' \in Int /\ openPanes \subseteq Int
  BY DEF RuntimeTypeOK, LivePanes
<1>2. ASSUME NEW q \in TeamRoles PROVE row'[q].pane < nextPane'
  <2>1. row[q].pane \in Int /\ row[q].pane < nextPane
    <3>1. row[q] \in Rows
      BY DEF RuntimeTypeOK
    <3>2. row[q].pane \in Panes
      BY <3>1, RowTypes
    <3>3. QED
      BY <3>2 DEF PanesBelow, Panes, NoPane, LivePanes
  <2>2. q # r => row'[q].pane = row[q].pane
    OBVIOUS
  <2>3. QED
    BY <1>1, <2>1, <2>2
<1>3. ASSUME NEW p \in openPanes' PROVE p < nextPane'
  <2>1. CASE p \in openPanes
    <3>1. p < nextPane /\ p \in Int
      BY <1>1, <2>1 DEF PanesBelow
    <3>2. QED
      BY <1>1, <3>1
  <2>2. QED
    BY <1>3, <2>1
<1>4. QED
  BY <1>2, <1>3 DEF PanesBelow

LEMMA RecordClaims ==
    ASSUME RuntimeTypeOK, RuntimeTypeOK', ClaimsInv, NEW l \in Launchers,
           RecordPane(l) \/ RecordRuntime(l) \/ Finalize(l)
    PROVE  /\ KeepsClaims /\ PanesBelow' /\ AgentsClaimed'
           /\ RecordPane(l) \/ RecordRuntime(l) =>
                 \A r \in TeamRoles, p \in Panes :
                    r = launcher[l].role /\ p = launcher[l].pane => Claimed(r, p)'
<1> DEFINE r == launcher[l].role
           p == launcher[l].pane
<1>1. /\ r \in TeamRoles /\ \A q \in TeamRoles \ {r} : row'[q] = row[q]
      /\ RecordPane(l) \/ RecordRuntime(l) => row'[r].pane = p
      /\ Finalize(l) => row'[r].pane = row[r].pane
  BY RecordedRow
<1>2. UNCHANGED <<nextPane, openPanes, agent>> /\ strays \subseteq strays'
  BY <1>1, RebindTypes DEF RecordPane, RecordRuntime, Finalize, herdrVars, RuntimeTypeOK, RowsOK
<1>3. nextPane \in Int /\ nextPane' = nextPane
  BY <1>2 DEF RuntimeTypeOK
<1>4. row[r].pane \in openPanes => <<r, row[r].pane>> \in strays' \/ row'[r].pane = row[r].pane
  <2>1. NoPane \notin openPanes
    BY DEF RuntimeTypeOK, NoPane, LivePanes
  <2>2. CASE RecordPane(l) \/ RecordRuntime(l)
    <3>1. row[r].pane \in {NoPane, p} \/ <<r, row[r].pane>> \in strays'
      BY <2>2 DEF RecordPane, RecordRuntime, Rebinds
    <3>2. QED
      BY <1>1, <2>1, <2>2, <3>1
  <2>3. QED
    BY <1>1, <2>2
<1>5. KeepsClaims
  <2>1. nextPane <= nextPane'
    BY <1>3
  <2>2. QED
    BY <1>1, <1>2, <1>4, <2>1, RowClaims
<1>6. PanesBelow'
  <2>1. launcher[l] \in Processes /\ ProcessOK(launcher[l]) /\ PanesBelow
    BY DEF RuntimeTypeOK, ClaimsInv
  <2>2. p < nextPane' /\ row[r].pane < nextPane'
    BY <1>1, <1>3, <2>1 DEF ProcessOK, PanesBelow
  <2>3. row'[r].pane < nextPane' /\ nextPane <= nextPane'
    BY <1>1, <1>3, <2>2
  <2>4. QED
    BY <1>1, <1>2, <2>1, <2>3, RowsBelow
<1>7. AgentsClaimed'
  BY <1>2, <1>5, AgentsStay
<1>8. ASSUME RecordPane(l) \/ RecordRuntime(l), NEW q \in TeamRoles, NEW x \in Panes, q = r, x = p
      PROVE  Claimed(q, x)'
  BY <1>1, <1>8 DEF Claimed
<1>9. QED
  BY <1>5, <1>6, <1>7, <1>8

\* Stage: the recorded pane is gone, and the new one is the role's.
LEMMA StageClaims ==
    ASSUME RuntimeTypeOK, RuntimeTypeOK', ClaimsInv, NEW l \in Launchers, Stage(l)
    PROVE  ClaimsInv'
<1> DEFINE r == launcher[l].role
<1>1. launcher[l] \in Processes /\ ProcessOK(launcher[l]) /\ PanesBelow /\ launcher[l].pc = "stage"
  BY DEF RuntimeTypeOK, ClaimsInv, Stage, At
<1>2. /\ r \in TeamRoles /\ \A q \in TeamRoles \ {r} : row'[q] = row[q]
      /\ row' = [row EXCEPT ![r] = StagedRow]
  BY <1>1, StagedLease
<1>3. row'[r].pane = nextPane
  <2>1. row'[r] = StagedRow
    BY <1>2 DEF RuntimeTypeOK
  <2>2. QED
    BY <2>1 DEF StagedRow
<1>4. /\ nextPane' = nextPane + 1 /\ openPanes' = openPanes \cup {nextPane}
      /\ nextPane <= MaxPane /\ nextGen <= MaxLaunchGen /\ UNCHANGED <<agent, strays>>
      /\ Binding(r) = launcher[l].snap
  BY DEF Stage, MayStage
<1>5. nextPane \in LivePanes /\ nextGen \in LaunchGens /\ LauncherOK
      /\ nextPane \in Int
  BY <1>4 DEF RuntimeTypeOK, LivePanes, LaunchGens, LauncherOK
<1>6. /\ nextPane <= nextPane' /\ nextPane < nextPane' /\ nextPane \in Panes
      /\ openPanes \subseteq openPanes'
      /\ \A p \in openPanes' : p \in openPanes \/ nextPane <= p
      /\ \A p \in openPanes' : p \in openPanes \/ p < nextPane'
  BY <1>4, <1>5 DEF Panes
<1>7. row[r].pane \notin openPanes
  <2>1. launcher[l].snap.row = row[r]
    BY <1>4 DEF Binding
  <2>2. QED
    BY <1>1, <2>1 DEF ProcessOK
<1>8. KeepsClaims
  BY <1>2, <1>4, <1>6, <1>7, RowClaims
<1>9. PanesBelow'
  <2>1. row'[r].pane < nextPane'
    BY <1>3, <1>6
  <2>2. QED
    BY <1>1, <1>2, <1>6, <2>1, RowsBelow
<1>10. AgentsClaimed'
  BY <1>4, <1>6, <1>8, AgentsStay
<1>11. PICK job \in Processes :
          /\ Turns(l, job) /\ job.pc = "ensure" /\ job.pane = nextPane
          /\ job.role = launcher[l].role /\ job.seen = launcher[l].seen
  BY <1>5, StageTurns
<1>12. Claimed(job.role, job.pane)'
  BY <1>3, <1>11 DEF Claimed
<1>13. ProcessOK(job)'
  <2>1. PICK old \in Processes : old = launcher[l]
    BY <1>1
  <2>2. ProcessOK(old) /\ job.seen = old.seen
    BY <1>1, <1>11, <2>1
  <2>3. job.pc # "stage" /\ job.pane < nextPane'
    BY <1>6, <1>11
  <2>4. QED
    BY <1>8, <1>12, <2>2, <2>3, SeenOK
<1>14. QED
  BY <1>8, <1>9, <1>10, <1>11, <1>13, ClaimsTurn

\* A process that comes to a role's agent: the agent is named in a claimed pane.
LEMMA AgentNamed ==
    ASSUME RuntimeTypeOK, RuntimeTypeOK', ClaimsInv, UNCHANGED <<row, nextPane, openPanes>>,
           strays \subseteq strays',
           NEW p \in LivePanes, NEW new \in Agents, agent' = [agent EXCEPT ![p] = new],
           p \in openPanes,
           new.role = Nobody \/ \E r \in TeamRoles : r = new.role /\ Claimed(r, p)'
    PROVE  KeepsClaims /\ PanesBelow' /\ AgentsClaimed'
<1>1. nextPane \in Int
  BY DEF RuntimeTypeOK
<1>2. KeepsClaims
  BY <1>1, ClaimsKept
<1>3. PanesBelow'
  BY DEF ClaimsInv, PanesBelow
<1>4. agent'[p] = new /\ \A q \in LivePanes \ {p} : agent'[q] = agent[q]
  BY DEF RuntimeTypeOK
<1>5. ASSUME NEW q \in LivePanes, agent'[q].state # "none"
      PROVE  q \in openPanes' /\ (agent'[q].role = Nobody \/ Claimed(agent[q].role, q)')
  <2>1. CASE q = p
    BY <1>4, <2>1 DEF Claimed
  <2>2. CASE q # p
    <3>1. agent'[q] = agent[q]
      BY <1>4, <2>2
    <3>2. q \in openPanes /\ q < nextPane /\ q \in Panes
      BY <1>5, <3>1 DEF ClaimsInv, AgentsClaimed, PanesBelow, Panes
    <3>3. PICK r : r = agent[q].role
      OBVIOUS
    <3>4. r = Nobody \/ (r \in TeamRoles /\ Claimed(r, q))
      BY <1>5, <3>1, <3>3 DEF ClaimsInv, AgentsClaimed, RuntimeTypeOK, Agents
    <3>5. r = Nobody \/ Claimed(r, q)'
      BY <1>2, <3>2, <3>4, ClaimStays DEF Claimed
    <3>6. QED
      BY <3>1, <3>2, <3>3, <3>5 DEF Claimed
  <2>3. QED
    BY <2>1, <2>2
<1>6. QED
  BY <1>2, <1>3, <1>5 DEF AgentsClaimed

\* The steps that look, wait, give up or go on.
QuietStep(l) ==
    \/ Begin(l, mission.team, NoPane)
    \/ \E i \in DOMAIN mission.team, p \in Anchors : Begin(l, <<mission.team[i]>>, p)
    \/ Fail(l) \/ Skip(l) \/ Resume(l) \/ Replace(l) \/ FenceUnstaged(l) \/ FindBusy(l) \/ Await(l)

LEMMA QuietProcess ==
    ASSUME RuntimeTypeOK, ClaimsInv, NEW l \in Launchers, QuietStep(l)
    PROVE  \E job \in Processes : Turns(l, job) /\ ProcessOK(job)
<1> DEFINE old == launcher[l]
<1>1. /\ LauncherOK /\ old \in Processes /\ ProcessOK(old) /\ PanesBelow
      /\ row \in [TeamRoles -> Rows] /\ lease \in [TeamRoles -> Leases]
      /\ old.role \in TeamRoles
  <2>1. old \in Processes
    BY DEF RuntimeTypeOK
  <2>2. QED
    BY <2>1, ProcessFields DEF RuntimeTypeOK, ClaimsInv, LauncherOK
<1>2. NoPane < nextPane /\ NoPane \notin openPanes
  BY DEF RuntimeTypeOK, NoPane, LivePanes
<1>3. ASSUME NEW todo \in Seq(TeamRoles), NEW anchor \in Panes, Begin(l, todo, anchor)
      PROVE  \E job \in Processes : Turns(l, job) /\ ProcessOK(job)
  <2>1. PICK job \in Processes :
              /\ Turns(l, job) /\ job.pc = "role" /\ job.pane = NoPane
              /\ \A r \in TeamRoles : job.seen[r].pane = row[r].pane
    BY <1>1, <1>3, BeginTurns
  <2>2. ASSUME NEW r \in TeamRoles PROVE job.seen[r].pane < nextPane /\ Claimed(r, job.seen[r].pane)
    BY <1>1, <2>1 DEF PanesBelow, Claimed
  <2>3. ProcessOK(job)
    BY <1>2, <2>1, <2>2 DEF ProcessOK
  <2>4. QED
    BY <2>1, <2>3
<1>4. CASE Begin(l, mission.team, NoPane)
  <2>1. mission.team \in Seq(TeamRoles) /\ NoPane \in Panes
    BY MissionTypes DEF RuntimeTypeOK, Panes
  <2>2. QED
    BY <1>3, <1>4, <2>1
<1>5. ASSUME NEW i \in DOMAIN mission.team, NEW p \in Anchors, Begin(l, <<mission.team[i]>>, p)
      PROVE  \E job \in Processes : Turns(l, job) /\ ProcessOK(job)
  <2>1. mission.team[i] \in TeamRoles /\ p \in Panes
    BY MissionTypes DEF RuntimeTypeOK, Panes, LivePanes
  <2>2. <<mission.team[i]>> \in Seq(TeamRoles)
    BY <2>1
  <2>3. QED
    BY <1>3, <1>5, <2>1, <2>2
<1>6. CASE Fail(l) \/ FenceUnstaged(l)
  <2>1. PICK job \in Processes : Turns(l, job) /\ Starts(job, old)
    BY <1>6, RestTurns DEF Fail, FenceUnstaged
  <2>2. QED
    BY <1>1, <2>1, StartsOK
<1>7. CASE Skip(l)
  <2>1. PICK job \in Processes : Turns(l, job) /\ Starts(job, old)
    BY <1>1, <1>7, AdvanceTurns DEF Skip
  <2>2. QED
    BY <1>1, <2>1, StartsOK
<1>8. CASE Resume(l)
  <2>1. PICK job \in Processes :
              /\ Turns(l, job) /\ job.pc = "ensure" /\ job.pane = Seen(l).pane
              /\ job.role = old.role /\ job.seen = old.seen
    BY <1>1, <1>8, ResumeTurns
  <2>2. job.pane = job.seen[job.role].pane
    BY <2>1 DEF Seen
  <2>3. \A r \in TeamRoles : job.seen[r].pane < nextPane /\ Claimed(r, job.seen[r].pane)
    BY <1>1, <2>1 DEF ProcessOK
  <2>4. ProcessOK(job)
    BY <1>1, <2>1, <2>2, <2>3 DEF ProcessOK
  <2>5. QED
    BY <2>1, <2>4
<1>9. CASE Replace(l)
  <2>1. PICK job \in Processes :
              /\ Turns(l, job) /\ job.pc = "stage" /\ job.pane = old.pane
              /\ job.role = old.role /\ job.seen = old.seen /\ job.snap.row.pane = Seen(l).pane
    BY <1>1, <1>9, ReplaceTurns
  <2>2. Seen(l).pane < nextPane /\ Seen(l).pane \notin openPanes
    BY <1>1, <1>9 DEF Seen, Replace, ProcessOK
  <2>3. ProcessOK(job)
    BY <1>1, <2>1, <2>2 DEF ProcessOK
  <2>4. QED
    BY <2>1, <2>3
<1>10. ASSUME NEW pc \in {"busy", "adopt", "ensure"}, Goto(l, pc), old.pc \in {"ensure", "busy"}
       PROVE  \E job \in Processes : Turns(l, job) /\ ProcessOK(job)
  <2>1. pc \in Pcs
    BY DEF Pcs
  <2>2. PICK job \in Processes : Turns(l, job) /\ job.pc = pc /\ Keeps(job, old)
    BY <1>1, <1>10, <2>1, GotoTurns
  <2>3. Claimed(old.role, old.pane) /\ job.pc # "stage"
    BY <1>1, <1>10, <2>2 DEF ProcessOK
  <2>4. QED
    BY <1>1, <2>2, <2>3, KeepsOK
<1>11. CASE FindBusy(l)
  <2>1. (IF launcher[l].fresh \/ LooksEmpty(launcher[l].pane) THEN "busy" ELSE "adopt")
             \in {"busy", "adopt", "ensure"}
    OBVIOUS
  <2>2. QED
    BY <1>10, <1>11, <2>1 DEF FindBusy, At
<1>12. CASE Await(l)
  BY <1>10, <1>12 DEF Await, At
<1>13. QED
  BY <1>4, <1>5, <1>6, <1>7, <1>8, <1>9, <1>11, <1>12 DEF QuietStep

LEMMA QuietClaims ==
    ASSUME RuntimeTypeOK, RuntimeTypeOK', ClaimsInv, NEW l \in Launchers, QuietStep(l)
    PROVE  ClaimsInv'
<1>1. UNCHANGED <<row, herdrVars, strays>>
  BY DEF QuietStep, Begin, Fail, Skip, Resume, Replace, FenceUnstaged, FindBusy, Await
<1>2. QED
  BY <1>1, QuietProcess, QuietTurn

\* A pane is opened: for the role, for nobody, or for nobody to know of.
LEMMA OpeningClaims ==
    ASSUME RuntimeTypeOK, RuntimeTypeOK', ClaimsInv, NEW l \in Launchers,
           Allocate(l) \/ StageUncertain(l) \/ StageLost(l)
    PROVE  ClaimsInv'
<1> DEFINE old == launcher[l]
<1>1. LauncherOK /\ old \in Processes /\ ProcessOK(old)
  BY DEF RuntimeTypeOK, ClaimsInv, LauncherOK
<1>2. /\ UNCHANGED <<row, agent, strays>>
      /\ \/ UNCHANGED <<nextPane, openPanes>>
         \/ nextPane' = nextPane + 1 /\ openPanes' = openPanes \cup {nextPane}
  BY DEF Allocate, StageUncertain, StageLost, herdrVars
<1>3. ASSUME NEW job \in Processes, Turns(l, job), ProcessOK(job) \/ ProcessOK(job)'
      PROVE  ClaimsInv'
  BY <1>2, <1>3, OpeningTurn
<1>4. CASE launcher' = [launcher EXCEPT ![l] = Resting]
  <2>1. PICK job \in Processes : Turns(l, job) /\ Starts(job, old)
    BY <1>4, RestTurns
  <2>2. ProcessOK(job)
    BY <1>1, <2>1, StartsOK
  <2>3. QED
    BY <1>3, <2>1, <2>2
<1>5. CASE StageLost(l)
  <2>1. Goto(l, "fence") /\ "fence" \in Pcs
    BY <1>5 DEF StageLost, Pcs
  <2>2. PICK job \in Processes : Turns(l, job) /\ job.pc = "fence" /\ Keeps(job, old)
    BY <1>1, <2>1, GotoTurns
  <2>3. ProcessOK(job)
    BY <1>1, <2>2, KeepsOK
  <2>4. QED
    BY <1>3, <2>2, <2>3
<1>6. ASSUME NEW p \in Panes,
             launcher' = [launcher EXCEPT ![l] =
                [launcher[l] EXCEPT !.pc = "split", !.pane = p, !.fresh = TRUE]],
             p < nextPane'
      PROVE  ClaimsInv'
  <2>1. PICK job \in Processes :
              /\ Turns(l, job) /\ job.pc = "split" /\ job.pane = p
              /\ job.role = launcher[l].role /\ job.seen = launcher[l].seen
              /\ job.todo = launcher[l].todo
    BY <1>1, <1>6, SplitTurns
  <2>2. KeepsClaims
    <3>1. nextPane \in Int /\ nextPane' \in Int
      BY DEF RuntimeTypeOK
    <3>2. nextPane <= nextPane' /\ \A q \in openPanes' : q \in openPanes \/ nextPane <= q
      BY <1>2, <3>1
    <3>3. QED
      BY <1>2, <3>2, ClaimsKept
  <2>3. ProcessOK(job)'
    <3>1. PICK was \in Processes : was = launcher[l]
      BY <1>1
    <3>2. ProcessOK(was) /\ job.seen = was.seen
      BY <1>1, <2>1, <3>1
    <3>3. job.pc # "stage" /\ job.pane < nextPane'
          /\ job.pc \notin {"ensure", "busy", "adopt", "record"}
      BY <1>6, <2>1
    <3>4. QED
      BY <2>2, <3>2, <3>3, SeenOK
  <2>4. QED
    BY <1>3, <2>1, <2>3
<1>7. CASE Allocate(l)
  <2>1. CASE /\ UNCHANGED herdrVars
             /\ launcher' = [launcher EXCEPT ![l] =
                    [launcher[l] EXCEPT !.pc = "split", !.pane = RootPane, !.fresh = TRUE]]
    <3>1. RootPane \in Panes /\ RootPane < nextPane'
      BY DEF RuntimeTypeOK, Panes, LivePanes, RootPane
    <3>2. QED
      BY <1>6, <2>1, <3>1
  <2>2. CASE /\ nextPane <= MaxPane /\ nextPane' = nextPane + 1
             /\ launcher' = [launcher EXCEPT ![l] =
                    [launcher[l] EXCEPT !.pc = "split", !.pane = nextPane, !.fresh = TRUE]]
    <3>1. nextPane \in Panes /\ nextPane < nextPane'
      BY <2>2 DEF RuntimeTypeOK, Panes, LivePanes
    <3>2. QED
      BY <1>6, <2>2, <3>1
  <2>3. QED
    BY <1>4, <1>7, <2>1, <2>2 DEF Allocate
<1>8. CASE StageUncertain(l)
  BY <1>4, <1>8 DEF StageUncertain
<1>9. QED
  BY <1>5, <1>7, <1>8

\* The row that is written names the pane the process works at.
LEMMA WritingClaims ==
    ASSUME RuntimeTypeOK, RuntimeTypeOK', ClaimsInv, NEW l \in Launchers,
           RecordPane(l) \/ RecordRuntime(l) \/ Finalize(l)
    PROVE  ClaimsInv'
<1>1. PICK old \in Processes : old = launcher[l]
  BY DEF RuntimeTypeOK
<1>2. LauncherOK /\ ProcessOK(old) /\ old.role \in TeamRoles /\ old.pane \in Panes
  BY <1>1, ProcessFields DEF RuntimeTypeOK, ClaimsInv, LauncherOK
<1>3. KeepsClaims /\ PanesBelow' /\ AgentsClaimed'
  BY RecordClaims
<1>4. CASE RecordPane(l)
  <2>1. Goto(l, "ensure") /\ "ensure" \in Pcs
    BY <1>4 DEF RecordPane, Pcs
  <2>2. PICK job \in Processes : Turns(l, job) /\ job.pc = "ensure" /\ Keeps(job, old)
    BY <1>1, <1>2, <2>1, GotoTurns
  <2>3. Claimed(old.role, old.pane)'
    BY <1>1, <1>2, <1>4, RecordClaims
  <2>4. job.pane < nextPane' /\ job.seen = old.seen /\ job.pc # "stage"
        /\ job.role = old.role /\ job.pane = old.pane
    <3>1. ProcessOK(old)'
      BY <1>2, <1>3, ProcessStays
    <3>2. QED
      BY <2>2, <3>1 DEF ProcessOK, Keeps
  <2>5. ProcessOK(job)'
    BY <1>2, <1>3, <2>3, <2>4, SeenOK
  <2>6. QED
    BY <1>3, <2>2, <2>5, ClaimsTurn
<1>5. CASE RecordRuntime(l) \/ Finalize(l)
  <2>1. PICK job \in Processes : Turns(l, job) /\ Starts(job, old)
    BY <1>1, <1>2, <1>5, AdvanceTurns DEF RecordRuntime, Finalize
  <2>2. ProcessOK(job)
    BY <1>2, <2>1, StartsOK
  <2>3. ProcessOK(job)'
    BY <1>3, <2>2, ProcessStays
  <2>4. QED
    BY <1>3, <2>1, <2>3, ClaimsTurn
<1>6. QED
  BY <1>4, <1>5

\* The agent that is started, adopted or joined runs in the pane that is recorded,
\* or its role has been taken from that pane.
LEMMA NamingClaims ==
    ASSUME RuntimeTypeOK, RuntimeTypeOK', ClaimsInv, NEW l \in Launchers, StartAgent(l) \/ Adopt(l)
    PROVE  ClaimsInv'
<1>1. PICK old \in Processes : old = launcher[l]
  BY DEF RuntimeTypeOK
<1>2. /\ LauncherOK /\ AgentsOK /\ ProcessOK(old) /\ old.role \in TeamRoles
      /\ old.pane \in openPanes /\ old.pane \in LivePanes
      /\ old.pc \in {"ensure", "busy", "adopt"}
  BY <1>1, ProcessFields
     DEF RuntimeTypeOK, ClaimsInv, LauncherOK, AgentsOK, StartAgent, Adopt, Ready, At
<1>3. UNCHANGED <<row, nextPane, openPanes, strays>>
  BY DEF StartAgent, Adopt
<1>4. Claimed(old.role, old.pane)
  BY <1>2 DEF ProcessOK
<1>5. PICK new \in Agents : new.role = old.role /\ agent' = [agent EXCEPT ![old.pane] = new]
  <2>1. CASE StartAgent(l)
    <3>1. PICK s \in {"late", "pending", "ready"} :
             agent' = [agent EXCEPT ![old.pane] = Runs(old.role, s)]
      BY <1>1, <2>1 DEF StartAgent
    <3>2. Runs(old.role, s) \in Agents /\ Runs(old.role, s).role = old.role
      BY <1>2 DEF Agents, Runs
    <3>3. QED
      BY <3>1, <3>2
  <2>2. CASE Adopt(l)
    <3> DEFINE was == agent[old.pane]
               new == [was EXCEPT !.role = old.role]
    <3>1. agent' = [agent EXCEPT ![old.pane] = new] /\ was \in Agents
      BY <1>1, <1>2, <2>2 DEF Adopt, AgentsOK
    <3> HIDE DEF was
    <3>2. new \in Agents /\ new.role = old.role
      BY <1>2, <3>1 DEF Agents
    <3> HIDE DEF new
    <3>3. QED
      BY <3>1, <3>2
  <2>3. QED
    BY <2>1, <2>2
<1>6. Claimed(new.role, old.pane)'
  BY <1>3, <1>4, <1>5 DEF Claimed
<1>7. KeepsClaims /\ PanesBelow' /\ AgentsClaimed'
  BY <1>2, <1>3, <1>5, <1>6, AgentNamed
<1>8. PICK pc \in {"record", "adopt"} : Goto(l, pc)
  BY DEF StartAgent, Adopt
<1>9. PICK job \in Processes : Turns(l, job) /\ job.pc = pc /\ Keeps(job, old)
  <2>1. pc \in Pcs
    BY DEF Pcs
  <2>2. QED
    BY <1>1, <1>2, <1>8, <2>1, GotoTurns
<1>10. ProcessOK(job)
  BY <1>2, <1>4, <1>9, KeepsOK
<1>11. ProcessOK(job)'
  BY <1>7, <1>10, ProcessStays
<1>12. QED
  BY <1>7, <1>9, <1>11, ClaimsTurn

\* The pane a completed role was seen in is still the role's, or was taken from it.
LEMMA ReuseClaims ==
    ASSUME RuntimeTypeOK, RuntimeTypeOK', ClaimsInv, NEW l \in Launchers, Reuse(l)
    PROVE  ClaimsInv'
<1>1. PICK old \in Processes : old = launcher[l]
  BY DEF RuntimeTypeOK
<1>2. LauncherOK /\ AgentsOK /\ ProcessOK(old) /\ old.role \in TeamRoles
  BY <1>1, ProcessFields DEF RuntimeTypeOK, ClaimsInv, LauncherOK, AgentsOK
<1>3. PICK p \in LivePanes : p = old.seen[old.role].pane /\ p \in openPanes
  BY <1>1 DEF Reuse, Ready, Seen, RuntimeTypeOK
<1>4. UNCHANGED <<row, nextPane, openPanes, strays>> /\ Advance(l)
  BY DEF Reuse
<1>5. Claimed(old.role, p)
  BY <1>2, <1>3 DEF ProcessOK
<1>6. PICK new \in Agents : new.role = old.role /\ agent' = [agent EXCEPT ![p] = new]
  <2> DEFINE was == agent[p]
             new == [was EXCEPT !.role = old.role]
  <2>1. agent' = [agent EXCEPT ![p] = new] /\ was \in Agents
    BY <1>1, <1>2, <1>3 DEF Reuse, Seen, AgentsOK
  <2> HIDE DEF was
  <2>2. new \in Agents /\ new.role = old.role
    BY <1>2, <2>1 DEF Agents
  <2> HIDE DEF new
  <2>3. QED
    BY <2>1, <2>2
<1>7. Claimed(new.role, p)'
  BY <1>4, <1>5, <1>6 DEF Claimed
<1>8. KeepsClaims /\ PanesBelow' /\ AgentsClaimed'
  BY <1>2, <1>3, <1>4, <1>6, <1>7, AgentNamed
<1>9. PICK job \in Processes : Turns(l, job) /\ Starts(job, old)
  BY <1>1, <1>2, <1>4, AdvanceTurns
<1>10. ProcessOK(job)'
  BY <1>2, <1>8, <1>9, StartsOK, ProcessStays
<1>11. QED
  BY <1>8, <1>9, <1>10, ClaimsTurn

LEMMA JoinClaims ==
    ASSUME RuntimeTypeOK, RuntimeTypeOK', ClaimsInv, NEW l \in Launchers,
           NEW r \in TeamRoles, NEW p \in LivePanes, Join(l, r, p)
    PROVE  ClaimsInv'
<1>1. /\ LauncherOK /\ AgentsOK /\ p \in openPanes /\ p < nextPane
      /\ UNCHANGED <<row, nextPane, openPanes>>
  BY DEF RuntimeTypeOK, ClaimsInv, PanesBelow, LauncherOK, AgentsOK, Join, Ready
<1>2. strays \subseteq strays' /\ Claimed(r, p)'
  BY <1>1 DEF Join, Claimed
<1>3. PICK new \in Agents : new.role = r /\ agent' = [agent EXCEPT ![p] = new]
  <2> DEFINE was == agent[p]
             new == [was EXCEPT !.role = r]
  <2>1. agent' = [agent EXCEPT ![p] = new] /\ was \in Agents
    BY <1>1 DEF Join, AgentsOK
  <2> HIDE DEF was
  <2>2. new \in Agents /\ new.role = r
    BY <2>1 DEF Agents
  <2> HIDE DEF new
  <2>3. QED
    BY <2>1, <2>2
<1>4. KeepsClaims /\ PanesBelow' /\ AgentsClaimed'
  BY <1>1, <1>2, <1>3, AgentNamed
<1>5. CASE launcher' = launcher
  <2>1. ASSUME NEW k \in Launchers PROVE ProcessOK(launcher[k])'
    <3>1. PICK old \in Processes : old = launcher[k] /\ old = launcher'[k]
      BY <1>5 DEF RuntimeTypeOK
    <3>2. ProcessOK(old)'
      BY <1>4, <3>1, ProcessStays DEF ClaimsInv
    <3>3. QED
      BY <3>1, <3>2 DEF ProcessOK
  <2>2. QED
    BY <1>4, <2>1 DEF ClaimsInv
<1>6. ASSUME NEW job \in Processes, Turns(l, job), job.pc = "record", job.role = r, job.pane = p,
             job.seen = Resting.seen
      PROVE  ClaimsInv'
  <2>1. ASSUME NEW q \in TeamRoles PROVE job.seen[q].pane < nextPane' /\ Claimed(q, job.seen[q].pane)'
    <3>1. job.seen[q].pane = NoPane
      BY <1>6 DEF Resting
    <3>2. NoPane < nextPane' /\ NoPane \notin openPanes'
      BY DEF RuntimeTypeOK, NoPane, LivePanes
    <3>3. QED
      BY <3>1, <3>2 DEF Claimed
  <2>2. ProcessOK(job)'
    BY <1>1, <1>2, <1>6, <2>1 DEF ProcessOK
  <2>3. QED
    BY <1>4, <1>6, <2>2, ClaimsTurn
<1>7. QED
  BY <1>1, <1>5, <1>6, JoinTurns

\* A step that moves no process.
LEMMA OthersTurn ==
    ASSUME RuntimeTypeOK, RuntimeTypeOK', ClaimsInv, UNCHANGED launcher, KeepsClaims,
           PanesBelow', AgentsClaimed'
    PROVE  ClaimsInv'
<1>1. ASSUME NEW k \in Launchers PROVE ProcessOK(launcher[k])'
  <2>1. PICK old \in Processes : old = launcher[k] /\ old = launcher'[k]
    BY DEF RuntimeTypeOK
  <2>2. ProcessOK(old)'
    BY <2>1, ProcessStays DEF ClaimsInv
  <2>3. QED
    BY <2>1, <2>2 DEF ProcessOK
<1>2. QED
  BY <1>1 DEF ClaimsInv

\* An observation that names another pane takes the role from its own.
LEMMA ObserveClaims ==
    ASSUME RuntimeTypeOK, RuntimeTypeOK', ClaimsInv, NEW o, NEW r \in TeamRoles,
           NEW h \in {"starting", "idle", "stopped"}, Observe(o, r, h)
    PROVE  ClaimsInv'
<1>1. UNCHANGED <<nextPane, openPanes, agent, launcher>>
  BY DEF Observe, herdrVars
<1>2. nextPane \in Int /\ NoPane \notin openPanes /\ PanesBelow
  BY DEF RuntimeTypeOK, NoPane, LivePanes, ClaimsInv
<1>3. /\ strays \subseteq strays' /\ \A q \in TeamRoles \ {r} : row'[q] = row[q]
      /\ row'[r].pane = row[r].pane \/ row'[r].pane < nextPane
      /\ row[r].pane \in {NoPane, row'[r].pane} \/ <<r, row[r].pane>> \in strays'
  BY ObserveTypes
<1>4. KeepsClaims
  <2>1. row[r].pane \in openPanes => <<r, row[r].pane>> \in strays' \/ row'[r].pane = row[r].pane
    BY <1>2, <1>3
  <2>2. nextPane <= nextPane'
    BY <1>1, <1>2
  <2>3. QED
    BY <1>1, <1>3, <2>1, <2>2, RowClaims
<1>5. PanesBelow'
  BY <1>1, <1>2, <1>3 DEF PanesBelow
<1>6. AgentsClaimed'
  BY <1>1, <1>4, AgentsStay
<1>7. QED
  BY <1>1, <1>4, <1>5, <1>6, OthersTurn

LEMMA KernelClaims ==
    ASSUME RuntimeTypeOK, RuntimeTypeOK', ClaimsInv, KernelStep \/ \E t \in terms : TermEnds(t)
    PROVE  ClaimsInv'
<1>0. \A i \in DOMAIN mission.team : mission.team[i] \in TeamRoles
  BY MissionTypes DEF RuntimeTypeOK
<1>1. ASSUME UNCHANGED <<nextPane, openPanes, agent, launcher, strays>>,
             \A r \in TeamRoles : row'[r].pane = row[r].pane
      PROVE  ClaimsInv'
  <2>1. nextPane \in Int
    BY DEF RuntimeTypeOK
  <2>2. KeepsClaims
    BY <1>1, <2>1, ClaimsKept
  <2>3. PanesBelow'
    BY <1>1 DEF ClaimsInv, PanesBelow
  <2>4. AgentsClaimed'
    BY <1>1, <2>2, AgentsStay
  <2>5. QED
    BY <1>1, <2>2, <2>3, <2>4, OthersTurn
<1>2. CASE WriteHealth
  BY <1>1, <1>2, HealthTypes, TypeParts DEF WriteHealth, herdrVars
<1>3. CASE ReadAgents \/ \E t \in terms : TermEnds(t)
  BY <1>1, <1>3 DEF ReadAgents, TermEnds, herdrVars
<1>4. ASSUME NEW o \in mission.owners, NEW q \in TeamRoles, RequestLaunch(o, q)
      PROVE  ClaimsInv'
  <2>1. o \in LeaseOwners /\ row[q].gen \in LaunchGens
    BY MissionTypes, RowTypes DEF RuntimeTypeOK
  <2>2. nextGen <= MaxLaunchGen => nextGen \in LaunchGens
    BY DEF RuntimeTypeOK, LaunchGens
  <2>3. PICK g \in LaunchGens : LaunchRequest(o, q, g)
    BY <1>4, <2>1, <2>2 DEF RequestLaunch
  <2>4. row'[q].pane = row[q].pane /\ \A x \in TeamRoles \ {q} : row'[x] = row[x]
    BY <2>1, <2>3, LaunchTypes
  <2>5. UNCHANGED <<nextPane, openPanes, agent, launcher, strays>>
    BY <2>3 DEF LaunchRequest, herdrVars
  <2>6. QED
    BY <1>1, <2>4, <2>5
<1>5. ASSUME NEW o \in mission.owners, NEW q \in TeamRoles,
             NEW h \in {"starting", "idle", "stopped"}, Observe(o, q, h)
      PROVE  ClaimsInv'
  BY <1>5, ObserveClaims
<1>6. QED
  BY <1>0, <1>2, <1>3, <1>4, <1>5 DEF KernelStep

LEMMA PaneClaims ==
    ASSUME RuntimeTypeOK, RuntimeTypeOK', ClaimsInv,
           NEW p \in LivePanes, AgentChanges(p) \/ PaneCloses(p) \/ UserAgent(p)
    PROVE  ClaimsInv'
<1>1. UNCHANGED <<row, launcher, strays>>
  BY DEF AgentChanges, PaneCloses, UserAgent
<1>2. /\ \A q \in LivePanes \ {p} : agent'[q] = agent[q]
      /\ \/ AgentChanges(p) /\ agent'[p].role = agent[p].role /\ agent[p].state # "none"
         \/ PaneCloses(p) /\ agent'[p].state = "none"
         \/ UserAgent(p) /\ agent'[p].role = Nobody
  BY PaneTypes
<1>3. /\ nextPane \in Int /\ nextPane' \in Int /\ nextPane <= nextPane'
      /\ \A q \in openPanes' : q \in openPanes \/ (q = nextPane /\ nextPane < nextPane')
  BY DEF RuntimeTypeOK, AgentChanges, PaneCloses, UserAgent
<1>4. KeepsClaims
  <2>1. \A q \in openPanes' : q \in openPanes \/ nextPane <= q
    BY <1>3
  <2>2. QED
    BY <1>1, <1>3, <2>1, ClaimsKept
<1>5. PanesBelow'
  <2>1. \A q \in openPanes' : q \in openPanes \/ q < nextPane'
    BY <1>3
  <2>2. QED
    BY <1>1, <1>3, <2>1, PanesStayBelow DEF ClaimsInv
<1>6. ASSUME NEW q \in LivePanes, agent'[q].state # "none"
      PROVE  q \in openPanes' /\ (agent'[q].role = Nobody \/ Claimed(agent[q].role, q)')
  <2>1. CASE agent'[q].role = agent[q].role /\ agent[q].state # "none" /\ q \in openPanes'
    <3>1. q \in openPanes /\ q < nextPane /\ q \in Panes
      BY <2>1 DEF ClaimsInv, AgentsClaimed, PanesBelow, Panes
    <3>2. PICK r : r = agent[q].role
      OBVIOUS
    <3>3. r = Nobody \/ (r \in TeamRoles /\ Claimed(r, q))
      BY <2>1, <3>2 DEF ClaimsInv, AgentsClaimed, RuntimeTypeOK, Agents
    <3>4. r = Nobody \/ Claimed(r, q)'
      BY <1>4, <3>1, <3>3, ClaimStays DEF Claimed
    <3>5. QED
      BY <2>1, <3>2, <3>4 DEF Claimed
  <2>2. CASE q # p
    <3>1. agent'[q] = agent[q]
      BY <1>2, <2>2
    <3>2. q \in openPanes
      BY <1>6, <3>1 DEF ClaimsInv, AgentsClaimed
    <3>3. q \in openPanes'
      BY <2>2, <3>2 DEF AgentChanges, PaneCloses, UserAgent
    <3>4. QED
      BY <1>6, <2>1, <3>1, <3>3
  <2>3. CASE q = p
    <3>1. CASE AgentChanges(p) /\ agent'[p].role = agent[p].role /\ agent[p].state # "none"
      <4>1. q \in openPanes'
        BY <2>3, <3>1 DEF AgentChanges
      <4>2. QED
        BY <2>1, <2>3, <3>1, <4>1
    <3>2. CASE UserAgent(p) /\ agent'[p].role = Nobody
      BY <2>3, <3>2 DEF UserAgent
    <3>3. QED
      BY <1>2, <1>6, <2>3, <3>1, <3>2
  <2>4. QED
    BY <2>2, <2>3
<1>7. AgentsClaimed'
  BY <1>6 DEF AgentsClaimed
<1>8. QED
  BY <1>1, <1>4, <1>5, <1>7, OthersTurn

LEMMA ClaimsStep ==
    ASSUME RuntimeTypeOK, RuntimeTypeOK', ClaimsInv, [RuntimeNext]_runtimeVars
    PROVE  ClaimsInv'
<1>1. CASE UNCHANGED runtimeVars
  BY <1>1 DEF runtimeVars, herdrVars, ClaimsInv, ProcessOK, PanesBelow, AgentsClaimed, Claimed
<1>2. ASSUME NEW l \in Launchers, LauncherStep(l) PROVE ClaimsInv'
  <2>1. ASSUME NEW i \in DOMAIN mission.team, NEW p \in mission.users, Join(l, mission.team[i], p)
        PROVE  ClaimsInv'
    <3>1. PICK r \in TeamRoles : r = mission.team[i]
      BY MissionTypes DEF RuntimeTypeOK
    <3>2. p \in LivePanes
      BY MissionTypes DEF RuntimeTypeOK
    <3>3. QED
      BY <2>1, <3>1, <3>2, JoinClaims
  <2>2. QED
    BY <1>2, <2>1, QuietClaims, OpeningClaims, WritingClaims, StageClaims, NamingClaims,
       ReuseClaims
       DEF LauncherStep, QuietStep
<1>3. QED
  BY <1>1, <1>2, KernelClaims, PaneClaims DEF RuntimeNext, OutsideStep

LEMMA ClaimsStart == RuntimeInit => ClaimsInv
<1> SUFFICES ASSUME RuntimeInit PROVE ClaimsInv
  OBVIOUS
<1>1. \A p \in LivePanes : agent[p].state = "none"
  BY DEF RuntimeInit, Runs
<1>2. PanesBelow
  BY DEF RuntimeInit, PanesBelow, NoSnap, NoPane, RootPane
<1>3. ASSUME NEW l \in Launchers PROVE ProcessOK(launcher[l])
  <2>1. launcher[l] = Resting /\ Resting.pane = NoPane /\ Resting.pc = "idle"
        /\ \A r \in TeamRoles : Resting.seen[r].pane = NoPane
    BY SmallTypes DEF RuntimeInit, Resting
  <2>2. NoPane < nextPane /\ NoPane \notin openPanes
    BY DEF RuntimeInit, NoPane, RootPane
  <2>3. QED
    BY <2>1, <2>2 DEF ProcessOK, Claimed
<1>4. QED
  BY <1>1, <1>2, <1>3 DEF ClaimsInv, AgentsClaimed

-----------------------------------------------------------------------------
\* What one launcher does when nobody else binds roles.  The roles it has still to
\* come to are recorded as it saw them and come once each, and the pane it works
\* at is recorded, or its role has none yet: no step takes a role from a pane.
RowsAsSeen(job) ==
    /\ \A i \in DOMAIN job.todo :
          /\ job.todo[i] # job.role /\ job.seen[job.todo[i]].pane = row[job.todo[i]].pane
          /\ \A j \in DOMAIN job.todo : job.todo[i] = job.todo[j] => i = j
    /\ job.pc = "role" => job.seen[job.role].pane = row[job.role].pane
    /\ job.pc = "split" => row[job.role].pane = NoPane
    /\ job.pc \in {"ensure", "busy", "adopt", "record"} => row[job.role].pane = job.pane

SingleInv ==
    OneLauncher =>
       /\ strays = {}
       /\ \A l \in Launchers : launcher[l].pc # "idle" => l \in mission.launchers
       /\ \A l \in mission.launchers : RowsAsSeen(launcher[l])

\* The process stays with its role, or goes on to the next one.
LEMMA SameRole ==
    ASSUME NEW old \in Processes, NEW job \in Processes, RowsAsSeen(old),
           job.todo = old.todo, job.role = old.role, job.seen = old.seen,
           \A q \in TeamRoles \ {old.role} : row'[q].pane = row[q].pane,
           job.pc # "role", job.pc = "split" => row'[old.role].pane = NoPane,
           job.pc \in {"ensure", "busy", "adopt", "record"} => row'[old.role].pane = job.pane
    PROVE  RowsAsSeen(job)'
<1>1. job.todo \in Seq(TeamRoles)
  BY ProcessFields
<1>2. \A i \in DOMAIN job.todo : job.todo[i] \in TeamRoles
  BY <1>1
<1>3. QED
  BY <1>2 DEF RowsAsSeen

LEMMA NextRole ==
    ASSUME NEW old \in Processes, NEW job \in Processes, RowsAsSeen(old), Starts(job, old),
           \A q \in TeamRoles \ {old.role} : row'[q].pane = row[q].pane
    PROVE  RowsAsSeen(job)'
<1>1. CASE job = Resting
  <2>1. Resting.todo = << >> /\ Resting.pc = "idle"
    BY SmallTypes DEF Resting
  <2>2. QED
    BY <1>1, <2>1 DEF RowsAsSeen
<1>2. CASE /\ old.todo # << >> /\ job.role = Head(old.todo) /\ job.todo = Tail(old.todo)
           /\ job.seen = old.seen
  <2> DEFINE todo == old.todo
  <2>1. todo \in Seq(TeamRoles) /\ todo # << >>
    BY <1>2, ProcessFields
  <2>2. /\ 1 \in DOMAIN todo /\ job.role = todo[1]
        /\ \A i \in DOMAIN job.todo : /\ job.todo[i] = todo[i + 1]
                                      /\ i + 1 \in DOMAIN todo /\ i + 1 # 1 /\ i \in Int
    BY <1>2, <2>1
  <2>3. \A i \in DOMAIN todo :
           /\ todo[i] \in TeamRoles /\ todo[i] # old.role
           /\ old.seen[todo[i]].pane = row[todo[i]].pane
           /\ \A j \in DOMAIN todo : todo[i] = todo[j] => i = j
    BY <2>1 DEF RowsAsSeen
  <2> HIDE DEF todo
  <2>4. \A i \in DOMAIN todo : job.seen[todo[i]].pane = row'[todo[i]].pane
    BY <1>2, <2>3
  <2>5. \A i \in DOMAIN job.todo :
           /\ job.todo[i] # job.role /\ job.seen[job.todo[i]].pane = row'[job.todo[i]].pane
           /\ \A j \in DOMAIN job.todo : job.todo[i] = job.todo[j] => i = j
    BY <2>2, <2>3, <2>4
  <2>6. job.seen[job.role].pane = row'[job.role].pane
    BY <2>2, <2>4
  <2>7. QED
    BY <2>5, <2>6 DEF RowsAsSeen, Starts
<1>3. QED
  BY <1>1, <1>2 DEF Starts

\* A run that begins: a team names no role twice.
LEMMA FirstRole ==
    ASSUME NEW todo \in Seq(TeamRoles), todo # << >>,
           \A i, j \in DOMAIN todo : todo[i] = todo[j] => i = j,
           NEW job \in Processes, job.pc = "role", job.role = Head(todo), job.todo = Tail(todo),
           \A r \in TeamRoles : job.seen[r].pane = row[r].pane
    PROVE  RowsAsSeen(job)
<1>1. /\ 1 \in DOMAIN todo /\ job.role = todo[1]
      /\ \A i \in DOMAIN job.todo : /\ job.todo[i] = todo[i + 1]
                                    /\ i + 1 \in DOMAIN todo /\ i + 1 # 1 /\ i \in Int
  OBVIOUS
<1>2. \A i \in DOMAIN todo : todo[i] \in TeamRoles
  OBVIOUS
<1>3. \A i \in DOMAIN job.todo :
         /\ job.todo[i] # job.role /\ job.seen[job.todo[i]].pane = row[job.todo[i]].pane
         /\ \A j \in DOMAIN job.todo : job.todo[i] = job.todo[j] => i = j
  BY <1>1, <1>2
<1>4. job.seen[job.role].pane = row[job.role].pane
  BY <1>1, <1>2
<1>5. QED
  BY <1>3, <1>4 DEF RowsAsSeen

\* There is one process to look at.
LEMMA SingleTurn ==
    ASSUME RuntimeTypeOK, SingleInv, OneLauncher, strays' = {}, UNCHANGED mission,
           NEW l \in Launchers, l \in mission.launchers,
           NEW job \in Processes, Turns(l, job), RowsAsSeen(job)'
    PROVE  SingleInv'
<1>1. launcher'[l] = job /\ \A k \in Launchers \ {l} : launcher'[k] = launcher[k]
  BY TypeParts, Turned
<1>2. \A k \in mission.launchers : k = l
  BY DEF OneLauncher
<1>3. RowsAsSeen(launcher[l])'
  BY <1>1 DEF RowsAsSeen
<1>4. \A k \in mission.launchers : RowsAsSeen(launcher[k])'
  BY <1>2, <1>3 DEF RowsAsSeen
<1>5. \A k \in Launchers : launcher'[k].pc # "idle" => k \in mission.launchers
  BY <1>1 DEF SingleInv
<1>6. QED
  BY <1>4, <1>5 DEF SingleInv

LEMMA SingleLauncher ==
    ASSUME RuntimeTypeOK, RuntimeTypeOK', SingleInv, OneLauncher, NEW l \in Launchers, LauncherStep(l)
    PROVE  SingleInv'
<1> DEFINE r == launcher[l].role
           p == launcher[l].pane
<1>0. /\ LauncherOK /\ row \in [TeamRoles -> Rows] /\ lease \in [TeamRoles -> Leases]
      /\ mission \in Missions /\ RowsOK /\ strays \subseteq TeamRoles \X LivePanes
  BY TypeParts DEF RuntimeTypeOK
<1>1. mission.users = {} /\ UNCHANGED mission /\ strays = {}
  BY DEF OneLauncher, SingleInv, LauncherStep, Begin, Fail, Reuse, Skip, Resume, Allocate, RecordPane,
         Replace, Stage, StageUncertain, StageLost, FenceUnstaged, StartAgent, FindBusy, Adopt,
         Await, Finalize, RecordRuntime, Join
<1>2. PICK old \in Processes : old = launcher[l] /\ old.role \in TeamRoles
  BY <1>0, ProcessFields DEF LauncherOK
<1>3. ASSUME NEW todo \in Seq(TeamRoles), NEW anchor \in Panes, Begin(l, todo, anchor),
             \A i, j \in DOMAIN todo : todo[i] = todo[j] => i = j
      PROVE  SingleInv'
  <2>1. /\ todo # << >> /\ l \in mission.launchers /\ UNCHANGED <<row, strays>>
    BY <1>3 DEF Begin
  <2>2. PICK job \in Processes :
              /\ Turns(l, job) /\ job.pc = "role" /\ job.pane = NoPane
              /\ job.role = Head(todo) /\ job.todo = Tail(todo)
              /\ \A q \in TeamRoles : job.seen[q].pane = row[q].pane
    <3>1. Begin(l, todo, anchor)
      BY <1>3
    <3> HIDE <1>3
    <3>2. QED
      BY <1>0, <3>1, BeginTurns
  <2>3. RowsAsSeen(job)
    BY <1>3, <2>1, <2>2, FirstRole
  <2>4. RowsAsSeen(job)'
    BY <2>1, <2>3 DEF RowsAsSeen
  <2>5. QED
    BY <1>1, <2>1, <2>2, <2>4, SingleTurn
<1>4. CASE Begin(l, mission.team, NoPane)
  <2>1. mission.team \in Seq(TeamRoles) /\ NoPane \in Panes
    BY <1>0, MissionTypes DEF Panes
  <2>2. \A i, j \in DOMAIN mission.team : mission.team[i] = mission.team[j] => i = j
    BY <1>0
  <2>3. QED
    BY <1>3, <1>4, <2>1, <2>2
<1>5. ASSUME NEW i \in DOMAIN mission.team, NEW x \in Anchors, Begin(l, <<mission.team[i]>>, x)
      PROVE  SingleInv'
  <2>1. mission.team[i] \in TeamRoles /\ x \in Panes
    BY <1>0, MissionTypes DEF Panes, LivePanes
  <2>2. /\ <<mission.team[i]>> \in Seq(TeamRoles)
        /\ \A j, k \in DOMAIN <<mission.team[i]>> : j = k
    BY <2>1
  <2>3. QED
    BY <1>3, <1>5, <2>1, <2>2
<1>6. ASSUME ~At(l, "idle")
      PROVE  l \in mission.launchers /\ RowsAsSeen(old)
  <2>1. l \in mission.launchers
    BY <1>6 DEF SingleInv, At
  <2>2. RowsAsSeen(launcher[l])
    BY <2>1 DEF SingleInv
  <2>3. QED
    BY <1>2, <2>1, <2>2
<1>7. ASSUME ~At(l, "idle"), strays' = {}, NEW job \in Processes, Turns(l, job),
             Starts(job, old), \A q \in TeamRoles \ {old.role} : row'[q].pane = row[q].pane
      PROVE  SingleInv'
  BY <1>1, <1>6, <1>7, NextRole, SingleTurn
<1>8. ASSUME ~At(l, "idle"), strays' = {}, NEW job \in Processes, Turns(l, job),
             job.todo = old.todo, job.role = old.role, job.seen = old.seen,
             \A q \in TeamRoles \ {old.role} : row'[q].pane = row[q].pane,
             job.pc # "role", job.pc = "split" => row'[old.role].pane = NoPane,
             job.pc \in {"ensure", "busy", "adopt", "record"} => row'[old.role].pane = job.pane
      PROVE  SingleInv'
  <2>1. RowsAsSeen(job)'
    BY <1>6, <1>8, SameRole
  <2>2. QED
    BY <1>1, <1>6, <1>8, <2>1, SingleTurn
<1>9. CASE Fail(l) \/ StageUncertain(l) \/ FenceUnstaged(l)
  <2>1. /\ ~At(l, "idle") /\ UNCHANGED <<row, strays>>
        /\ launcher' = [launcher EXCEPT ![l] = Resting]
    BY <1>9 DEF Fail, StageUncertain, FenceUnstaged, At
  <2>2. QED
    BY <1>1, <1>2, <1>7, <2>1, RestTurns
<1>10. CASE Reuse(l) \/ Skip(l)
  <2>1. ~At(l, "idle") /\ UNCHANGED <<row, strays>> /\ Advance(l)
    BY <1>10 DEF Reuse, Skip, At
  <2>2. QED
    BY <1>0, <1>1, <1>2, <1>7, <2>1, AdvanceTurns
<1>11. CASE Finalize(l) \/ RecordRuntime(l)
  <2>1. ~At(l, "idle") /\ Advance(l)
    BY <1>11 DEF Finalize, RecordRuntime, At
  <2>2. strays' = {}
    <3>1. CASE Finalize(l)
      BY <1>1, <3>1 DEF Finalize
    <3>2. CASE RecordRuntime(l)
      <4>1. Rebinds(r, p) /\ old.pc = "record"
        BY <1>2, <3>2 DEF RecordRuntime, At
      <4>2. row[r].pane = p
        BY <1>2, <1>6, <2>1, <4>1 DEF RowsAsSeen
      <4>3. QED
        BY <1>1, <4>1, <4>2 DEF Rebinds
    <3>3. QED
      BY <1>11, <3>1, <3>2
  <2>3. \A q \in TeamRoles \ {old.role} : row'[q].pane = row[q].pane
    BY <1>2, <1>11, RecordedRow
  <2>4. QED
    BY <1>0, <1>2, <1>7, <2>1, <2>2, <2>3, AdvanceTurns
<1>12. CASE Resume(l)
  <2>1. At(l, "role") /\ UNCHANGED <<row, strays>>
    BY <1>12 DEF Resume
  <2>2. PICK job \in Processes :
              /\ Turns(l, job) /\ job.pc = "ensure" /\ job.pane = Seen(l).pane
              /\ job.role = old.role /\ job.seen = old.seen /\ job.todo = old.todo
    BY <1>0, <1>2, <1>12, ResumeTurns
  <2>3. ~At(l, "idle") /\ row[old.role].pane = job.pane
    BY <1>2, <1>6, <2>1, <2>2 DEF At, RowsAsSeen, Seen
  <2>4. QED
    BY <1>1, <1>8, <2>1, <2>2, <2>3
<1>13. CASE Allocate(l)
  <2>1. At(l, "role") /\ Seen(l).pane = NoPane /\ UNCHANGED <<row, strays>>
    BY <1>13 DEF Allocate
  <2>2. ~At(l, "idle") /\ row[old.role].pane = NoPane
    BY <1>2, <1>6, <2>1 DEF At, RowsAsSeen, Seen
  <2>3. ASSUME NEW x \in Panes,
               launcher' = [launcher EXCEPT ![l] =
                  [launcher[l] EXCEPT !.pc = "split", !.pane = x, !.fresh = TRUE]]
        PROVE  SingleInv'
    <3>1. PICK job \in Processes :
              /\ Turns(l, job) /\ job.pc = "split"
              /\ job.role = old.role /\ job.seen = old.seen /\ job.todo = old.todo
      BY <1>0, <1>2, <2>3, SplitTurns
    <3>2. QED
      BY <1>1, <1>8, <2>1, <2>2, <3>1
  <2>4. ASSUME launcher' = [launcher EXCEPT ![l] = Resting]
        PROVE  SingleInv'
    BY <1>1, <1>2, <1>7, <2>1, <2>2, <2>4, RestTurns
  <2>5. RootPane \in Panes /\ (nextPane <= MaxPane => nextPane \in Panes)
    BY DEF RuntimeTypeOK, Panes, LivePanes, RootPane
  <2>6. QED
    BY <1>13, <2>3, <2>4, <2>5 DEF Allocate
<1>14. CASE Replace(l)
  <2>1. ~At(l, "idle") /\ UNCHANGED <<row, strays>>
    BY <1>14 DEF Replace, At
  <2>2. PICK job \in Processes :
              /\ Turns(l, job) /\ job.pc = "stage"
              /\ job.role = old.role /\ job.seen = old.seen /\ job.todo = old.todo
    BY <1>0, <1>2, <1>14, ReplaceTurns
  <2>3. QED
    BY <1>1, <1>8, <2>1, <2>2
<1>15. CASE Stage(l)
  <2>1. /\ At(l, "stage") /\ UNCHANGED strays
        /\ nextPane \in LivePanes /\ nextGen \in LaunchGens
    BY <1>15 DEF Stage, RuntimeTypeOK, LivePanes, LaunchGens
  <2>2. PICK job \in Processes :
              /\ Turns(l, job) /\ job.pc = "ensure" /\ job.pane = nextPane
              /\ job.role = old.role /\ job.seen = old.seen /\ job.todo = old.todo
    BY <1>0, <1>2, <1>15, <2>1, StageTurns
  <2>3. /\ row' = [row EXCEPT ![old.role] = StagedRow]
        /\ \A q \in TeamRoles \ {old.role} : row'[q] = row[q]
    BY <1>2, <1>15, <2>1, StagedLease DEF At
  <2>4. row'[old.role].pane = nextPane
    <3>1. row'[old.role] = StagedRow
      BY <1>0, <1>2, <2>3
    <3>2. QED
      BY <3>1 DEF StagedRow
  <2>5. ~At(l, "idle")
    BY <2>1 DEF At
  <2>6. QED
    BY <1>1, <1>8, <2>1, <2>2, <2>3, <2>4, <2>5
<1>16. ASSUME NEW pc \in {"ensure", "busy", "adopt", "record", "fence"}, Goto(l, pc),
              ~At(l, "idle"), strays' = {}, \A q \in TeamRoles \ {old.role} : row'[q].pane = row[q].pane,
              pc # "fence" => row'[old.role].pane = old.pane
       PROVE  SingleInv'
  <2>1. pc \in Pcs
    BY DEF Pcs
  <2>2. PICK job \in Processes : Turns(l, job) /\ job.pc = pc /\ Keeps(job, old)
    BY <1>0, <1>2, <1>16, <2>1, GotoTurns
  <2>3. QED
    BY <1>8, <1>16, <2>2 DEF Keeps
<1>17. CASE StageLost(l)
  BY <1>1, <1>16, <1>17 DEF StageLost, At
<1>18. CASE RecordPane(l)
  <2>1. At(l, "split") /\ Goto(l, "ensure") /\ Rebinds(r, p)
    BY <1>18 DEF RecordPane
  <2>2. ~At(l, "idle") /\ row[r].pane = NoPane
    BY <1>2, <1>6, <2>1 DEF At, RowsAsSeen
  <2>3. strays' = {}
    BY <1>1, <2>1, <2>2 DEF Rebinds
  <2>4. row'[old.role].pane = old.pane /\ \A q \in TeamRoles \ {old.role} : row'[q].pane = row[q].pane
    BY <1>2, <1>18, RecordedRow
  <2>5. QED
    BY <1>16, <2>1, <2>2, <2>3, <2>4
<1>19. CASE StartAgent(l) \/ FindBusy(l) \/ Adopt(l) \/ Await(l)
  <2>1. /\ launcher[l].pc \in {"ensure", "busy", "adopt"} /\ UNCHANGED <<row, strays>>
        /\ \E pc \in {"ensure", "busy", "adopt", "record"} : Goto(l, pc)
    BY <1>19 DEF StartAgent, FindBusy, Adopt, Await, At
  <2>2. ~At(l, "idle") /\ row[old.role].pane = old.pane
    BY <1>2, <1>6, <2>1 DEF At, RowsAsSeen
  <2>3. QED
    BY <1>1, <1>16, <2>1, <2>2
<1>20. QED
  BY <1>1, <1>4, <1>5, <1>9, <1>10, <1>11, <1>12, <1>13, <1>14, <1>15, <1>17, <1>18, <1>19
     DEF LauncherStep

LEMMA SingleStep ==
    ASSUME RuntimeTypeOK, RuntimeTypeOK', SingleInv, [RuntimeNext]_runtimeVars
    PROVE  SingleInv'
<1>1. UNCHANGED mission
  BY DEF RuntimeNext, runtimeVars, KernelStep, OutsideStep, ReadAgents, WriteHealth, RequestLaunch,
         LaunchRequest, Observe, TermEnds, AgentChanges, PaneCloses, UserAgent, LauncherStep, Begin,
         Fail, Reuse, Skip, Resume, Allocate, RecordPane, Replace, Stage, StageUncertain, StageLost,
         FenceUnstaged, StartAgent, FindBusy, Adopt, Await, Finalize, RecordRuntime, Join
<1>2. SUFFICES ASSUME OneLauncher PROVE SingleInv'
  BY <1>1 DEF SingleInv, OneLauncher
<1>3. ASSUME UNCHANGED <<launcher, strays>>, \A r \in TeamRoles : row'[r].pane = row[r].pane
      PROVE  SingleInv'
  <2>1. mission.launchers \subseteq Launchers
    BY DEF RuntimeTypeOK
  <2>2. ASSUME NEW l \in mission.launchers PROVE RowsAsSeen(launcher[l])'
    <3>1. PICK job \in Processes : job = launcher[l] /\ job = launcher'[l]
      BY <1>3, <2>1, <2>2 DEF RuntimeTypeOK
    <3>2. job.role \in TeamRoles /\ \A i \in DOMAIN job.todo : job.todo[i] \in TeamRoles
      <4>1. job.role \in TeamRoles /\ job.todo \in Seq(TeamRoles)
        BY ProcessFields
      <4>2. QED
        BY <4>1
    <3>3. RowsAsSeen(job)
      BY <1>2, <2>2, <3>1 DEF SingleInv
    <3>4. RowsAsSeen(job)'
      BY <1>3, <3>2, <3>3 DEF RowsAsSeen
    <3>5. QED
      BY <3>1, <3>4 DEF RowsAsSeen
  <2>3. QED
    BY <1>1, <1>2, <1>3, <2>2 DEF SingleInv
<1>4. CASE UNCHANGED runtimeVars \/ OutsideStep \/ ReadAgents
  BY <1>3, <1>4 DEF runtimeVars, OutsideStep, TermEnds, AgentChanges, PaneCloses, UserAgent, ReadAgents
<1>5. CASE WriteHealth
  BY <1>3, <1>5, HealthTypes, TypeParts DEF WriteHealth
<1>6. mission.owners = {}
  BY <1>2 DEF OneLauncher
<1>7. QED
  BY <1>2, <1>4, <1>5, <1>6, SingleLauncher DEF RuntimeNext, KernelStep

LEMMA SingleStart == RuntimeInit => SingleInv
<1> SUFFICES ASSUME RuntimeInit PROVE SingleInv
  OBVIOUS
<1>1. Resting.todo = << >> /\ Resting.pc = "idle"
  BY SmallTypes DEF Resting
<1>2. mission.launchers \subseteq Launchers /\ \A l \in Launchers : launcher[l] = Resting
  BY DEF RuntimeInit
<1>3. \A l \in mission.launchers : RowsAsSeen(launcher[l])
  BY <1>1, <1>2 DEF RowsAsSeen
<1>4. QED
  BY <1>1, <1>2, <1>3 DEF SingleInv, RuntimeInit

-----------------------------------------------------------------------------
LEMMA RuntimeAlways == RuntimeSpec => [](RuntimeTypeOK /\ HoldersInv /\ ClaimsInv /\ SingleInv)
<1>1. RuntimeInit => RuntimeTypeOK /\ HoldersInv /\ ClaimsInv /\ SingleInv
  BY RuntimeTypeStart, HoldersStart, ClaimsStart, SingleStart
<1>2. RuntimeTypeOK /\ HoldersInv /\ ClaimsInv /\ SingleInv /\ [RuntimeNext]_runtimeVars
         => (RuntimeTypeOK /\ HoldersInv /\ ClaimsInv /\ SingleInv)'
  BY RuntimeTypeStep, HoldersStep, ClaimsStep, SingleStep
<1>3. QED
  BY <1>1, <1>2, PTL DEF RuntimeSpec

\* Rows, leases, panes, agents and processes keep their types.
THEOREM RuntimeIsTyped == RuntimeSpec => []RuntimeTypeOK
BY RuntimeAlways, PTL

\* No two clients launch one role: a client that takes itself to hold a role's
\* launch has the role's live lease of the role's generation (the
\* reducer's launch inputs, persist_role_launch_request in store.rs).
THEOREM HoldersStayCurrent == RuntimeSpec => []HoldersAreCurrent
<1>1. HoldersInv => HoldersAreCurrent
  BY DEF HoldersInv
<1>2. QED
  BY <1>1, RuntimeAlways, PTL

\* A replacement fence is never lifted, and its role keeps its generation
\* (stage_role_runtime_replacement and fence_unstaged_role_runtime_replacement in
\* creation.rs, the lease check in store.rs).
THEOREM FencesAreForGood == RuntimeSpec => FencesStay
<1>1. RuntimeTypeOK /\ HoldersInv /\ ClaimsInv /\ SingleInv /\ [RuntimeNext]_runtimeVars
         => [FencesHold]_runtimeVars
  BY HoldersStep
<1>2. [FencesHold]_runtimeVars =>
         [\A r \in TeamRoles : Fenced(r) =>
            lease'[r] = lease[r] /\ row'[r].gen = row[r].gen]_runtimeVars
  BY DEF FencesHold
<1>3. QED
  BY <1>1, <1>2, RuntimeAlways, PTL DEF RuntimeSpec, FencesStay

\* A reconciliation marks a role missing only if the role was bound to that pane
\* when the agents were listed (reconcile_role_healths in creation.rs).
THEOREM MissingWasSeen == RuntimeSpec => MissingIsNotNews
<1>1. RuntimeTypeOK /\ HoldersInv /\ ClaimsInv /\ SingleInv /\ [RuntimeNext]_runtimeVars
         => [\A r \in TeamRoles :
               row'[r].health = "missing" /\ row[r].health # "missing" =>
                   scan.rows[r].pane = row[r].pane /\ scan.rows[r].named]_runtimeVars
  BY MissingStep
<1>2. QED
  BY <1>1, RuntimeAlways, PTL DEF RuntimeSpec, MissingIsNotNews

\* An agent with a role's name runs in the pane the role is recorded with, unless it
\* is one of the panes a process has taken the role from, or that `join' has put it
\* in (record_role_pane before any agent is started, ensure_agent_running,
\* record_role_runtime, persist_role_observation); and the runs of one launcher,
\* of whatever team and wherever they stop, take no role from a pane.
THEOREM AgentsStayRecorded == RuntimeSpec => []AgentsAreRecorded
<1>1. ClaimsInv /\ SingleInv => AgentsAreRecorded
  <2> SUFFICES ASSUME ClaimsInv, SingleInv PROVE AgentsAreRecorded
    OBVIOUS
  <2>1. ASSUME NEW p \in LivePanes, agent[p].state # "none"
        PROVE  \/ agent[p].role = Nobody \/ row[agent[p].role].pane = p
               \/ <<agent[p].role, p>> \in strays
    BY <2>1 DEF ClaimsInv, AgentsClaimed, Claimed
  <2>2. OneLauncher => strays = {}
    BY DEF SingleInv
  <2>3. QED
    BY <2>1, <2>2 DEF AgentsAreRecorded
<1>2. QED
  BY <1>1, RuntimeAlways, PTL
=============================================================================
