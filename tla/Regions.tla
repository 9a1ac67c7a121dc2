------------------------------ MODULE Regions ------------------------------
(***************************************************************************)
(* Where a mission's roles live: its own Herdr workspace with three named  *)
(* tabs (ensure_mission_workspace and ensure_stage_tabs in                 *)
(* src/src/runtime.rs), recorded in the table mission_workspace            *)
(* (src/src/workspace.rs).                                                 *)
(*                                                                         *)
(* A run of launch_mission keeps its own copy of the row, asks Herdr for   *)
(* what the copy lacks and writes the copy back, whole, after each step.   *)
(* It may stop after any Herdr call, and another run may be under way.     *)
(***************************************************************************)
EXTENDS Integers, FiniteSets

CONSTANTS
    Builders,       \* processes that run launch_mission
    MaxSpaces,      \* bound: workspaces that are ever created
    MaxTabs         \* bound: tabs that are ever created

VARIABLES
    spaceRow,   \* table mission_workspace: the row, or NoSpaceRow
    spaces,     \* the workspaces of this mission that Herdr has
    tabs,       \* the tabs Herdr has: [id, space, label]
    nextTab,    \* the identifier Herdr gives the next tab
    builder,    \* [Builders -> process]
    overlapped  \* history: two runs have been under way at once

regionVars == <<spaceRow, spaces, tabs, nextTab, builder, overlapped>>

ASSUME RegionAssumption == MaxSpaces \in Nat /\ MaxTabs \in Nat

RegionNames == {"work", "review", "verification"}
Labels == RegionNames \cup {"initial", "renamed"}
NoTab == 0
TabIds == 1 .. MaxTabs

\* A row or a process's copy of it: the workspace, its first tab and the tabs of
\* the regions; 0 is the empty string.
SpaceRows == [space : 0 .. MaxSpaces, first : 0 .. MaxTabs,
              region : [RegionNames -> 0 .. MaxTabs]]
NoSpaceRow == [space |-> 0, first |-> NoTab,
               region |-> [name \in RegionNames |-> NoTab]]

Following(name) == CASE name = "work" -> "review"
                     [] name = "review" -> "verification"
                     [] name = "verification" -> "done"
Steps == {"idle", "workspace", "save", "done"} \cup RegionNames
Waiting == [pc |-> "idle", copy |-> NoSpaceRow, then |-> "idle"]
Busy(b) == builder[b].pc # "idle"
Copy(b) == builder[b].copy

Labelled(space, label) == {t \in tabs : t.space = space /\ t.label = label}
HasTab(id, space) == \E t \in tabs : t.id = id /\ t.space = space

\* Every change of the copy is saved before the next step.
Save(b, copy, then) ==
    builder' = [builder EXCEPT ![b] = [pc |-> "save", copy |-> copy, then |-> then]]
Go(b, pc) == builder' = [builder EXCEPT ![b].pc = pc]

RegionInit ==
    /\ spaceRow = NoSpaceRow
    /\ spaces = {} /\ tabs = {} /\ nextTab = 1
    /\ builder = [b \in Builders |-> Waiting]
    /\ overlapped = FALSE

\* read_workspace; a recorded workspace must still be there.
BeginBuild(b) ==
    /\ ~Busy(b)
    /\ spaceRow.space # 0 => spaceRow.space \in spaces
    /\ builder' = [builder EXCEPT ![b] = [pc |-> IF spaceRow.space = 0 THEN "workspace"
                                                 ELSE "work",
                                          copy |-> spaceRow, then |-> "idle"]]
    /\ overlapped' = (overlapped \/ \E c \in Builders : Busy(c))
    /\ UNCHANGED <<spaceRow, spaces, tabs, nextTab>>

NewTab(space, label) == [id |-> nextTab, space |-> space, label |-> label]

\* `workspace create` or `worktree create/open`: a workspace with its first tab.
CreateWorkspace(b) ==
    LET space == Cardinality(spaces) + 1
        copy == [NoSpaceRow EXCEPT !.space = space, !.first = nextTab]
    IN  /\ builder[b].pc = "workspace"
        /\ space <= MaxSpaces /\ nextTab <= MaxTabs
        /\ spaces' = spaces \cup {space}
        /\ tabs' = tabs \cup {NewTab(space, "initial")}
        /\ nextTab' = nextTab + 1
        /\ Save(b, copy, "work")
        /\ UNCHANGED <<spaceRow, overlapped>>

\* Mutant: an empty column keeps what is recorded.
WrittenColumns(b) ==
    [Copy(b) EXCEPT !.region =
        [name \in RegionNames |-> IF @[name] = NoTab THEN spaceRow.region[name] ELSE @[name]]]

\* upsert_workspace writes every column.
Written(b) == Copy(b)

SaveRow(b) ==
    /\ builder[b].pc = "save"
    /\ spaceRow' = Written(b)
    /\ builder' = [builder EXCEPT ![b] = [@ EXCEPT !.pc = builder[b].then, !.then = "idle"]]
    /\ UNCHANGED <<spaces, tabs, nextTab, overlapped>>

\* The work region is the workspace's first tab, renamed.
RenameFirst(b) ==
    /\ builder[b].pc = "work"
    /\ Copy(b).region["work"] = NoTab
    /\ HasTab(Copy(b).first, Copy(b).space)
    /\ tabs' = {IF t.id = Copy(b).first THEN [t EXCEPT !.label = "work"] ELSE t : t \in tabs}
    /\ Save(b, [Copy(b) EXCEPT !.region["work"] = Copy(b).first], "review")
    /\ UNCHANGED <<spaceRow, spaces, nextTab, overlapped>>

\* find_unique_stage_tab: the one tab with the region's label is taken over.
ReuseTab(b, name) ==
    /\ builder[b].pc = name /\ name # "work"
    /\ Copy(b).region[name] = NoTab
    /\ \E t \in tabs :
          /\ Labelled(Copy(b).space, name) = {t}
          /\ Save(b, [Copy(b) EXCEPT !.region[name] = t.id], Following(name))
    /\ UNCHANGED <<spaceRow, spaces, tabs, nextTab, overlapped>>

\* Mutant: what the row does not name is created.
LacksRecord(b, name) == Copy(b).region[name] = NoTab

\* Neither the row names a tab for the region nor does a tab have its label.
LacksTab(b, name) ==
    Copy(b).region[name] = NoTab /\ Labelled(Copy(b).space, name) = {}

\* One is created.  The run may end before it is recorded.
CreateTab(b, name) ==
    /\ builder[b].pc = name /\ name # "work"
    /\ LacksTab(b, name)
    /\ Copy(b).space \in spaces /\ nextTab <= MaxTabs
    /\ tabs' = tabs \cup {NewTab(Copy(b).space, name)}
    /\ nextTab' = nextTab + 1
    /\ Save(b, [Copy(b) EXCEPT !.region[name] = nextTab], Following(name))
    /\ UNCHANGED <<spaceRow, spaces, overlapped>>

\* ensure_named_tab: a recorded tab must be there, and gets its name back.
CheckTab(b, name) ==
    LET id == Copy(b).region[name] IN
    /\ builder[b].pc = name /\ id # NoTab
    /\ HasTab(id, Copy(b).space)
    /\ tabs' = {IF t.id = id THEN [t EXCEPT !.label = name] ELSE t : t \in tabs}
    /\ Go(b, Following(name))
    /\ UNCHANGED <<spaceRow, spaces, nextTab, overlapped>>

\* launch_mission writes the row once more and goes on to the roles.
FinishBuild(b) ==
    /\ builder[b].pc = "done"
    /\ spaceRow' = Written(b)
    /\ builder' = [builder EXCEPT ![b] = Waiting]
    /\ UNCHANGED <<spaces, tabs, nextTab, overlapped>>

\* A call fails, a lookup finds several tabs or a recorded one gone, or the
\* process dies.
StopBuild(b) ==
    /\ Busy(b)
    /\ builder' = [builder EXCEPT ![b] = Waiting]
    /\ UNCHANGED <<spaceRow, spaces, tabs, nextTab, overlapped>>

\* The user renames or closes a tab.
RenameTab(id) ==
    /\ tabs' = {IF t.id = id THEN [t EXCEPT !.label = "renamed"] ELSE t : t \in tabs}
    /\ UNCHANGED <<spaceRow, spaces, nextTab, builder, overlapped>>
CloseTab(id) ==
    /\ tabs' = {t \in tabs : t.id # id}
    /\ UNCHANGED <<spaceRow, spaces, nextTab, builder, overlapped>>

RegionNext ==
    \/ \E b \in Builders :
          \/ BeginBuild(b) \/ CreateWorkspace(b) \/ SaveRow(b) \/ RenameFirst(b)
          \/ FinishBuild(b) \/ StopBuild(b)
          \/ \E name \in RegionNames : ReuseTab(b, name) \/ CreateTab(b, name) \/ CheckTab(b, name)
    \/ \E t \in tabs : RenameTab(t.id) \/ CloseTab(t.id)

RegionSpec == RegionInit /\ [][RegionNext]_regionVars

-----------------------------------------------------------------------------
RegionTypeOK ==
    /\ spaceRow \in SpaceRows
    /\ spaces \subseteq 1 .. MaxSpaces
    /\ tabs \subseteq [id : TabIds, space : 1 .. MaxSpaces, label : Labels]
    /\ nextTab \in 1 .. MaxTabs + 1
    /\ builder \in [Builders -> [pc : Steps, copy : SpaceRows, then : Steps]]
    /\ overlapped \in BOOLEAN

\* Each region is one tab: however often a run stopped halfway, the next one finds
\* the tab it left, unless two runs were under way at once or the user renamed it.
RegionsAreUnique ==
    \A s \in spaces, name \in RegionNames :
        overlapped \/ Cardinality(Labelled(s, name)) <= 1

\* The recorded tabs are tabs of the recorded workspace, and different ones, even
\* when several runs write their copies over each other's.
RegionsBelongTogether ==
    /\ \A name \in RegionNames :
          \A t \in tabs : t.id = spaceRow.region[name] => t.space = spaceRow.space
    /\ \A m, n \in RegionNames :
          spaceRow.region[m] = spaceRow.region[n] /\ m # n => spaceRow.region[m] = NoTab
=============================================================================
