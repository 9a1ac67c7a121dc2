--------------------------- MODULE ControlCenter ---------------------------
(***************************************************************************)
(* The mission table and the processes that create, launch and delete      *)
(* missions: the control center of src/src/tui.rs, which shows a list of   *)
(* missions and runs one job at a time off its event loop, and the command *)
(* line (run_new, run_resume and run_delete in src/src/cli.rs).            *)
(*                                                                         *)
(* The list is a copy: it is read again every two seconds of quiet and     *)
(* after a job, while others change the table.  What is shown is selected  *)
(* by its position in the list.  Launching and deleting take several steps *)
(* and any two of them may cross.  What a launch does inside the mission's *)
(* workspace is the subject of Regions and RoleRuntime.                    *)
(***************************************************************************)
EXTENDS Integers, FiniteSets

CONSTANTS
    Shells,         \* command-line processes
    MaxMissions,    \* bound: missions that are ever created
    MaxWorkspaces,  \* bound: workspaces that are ever created
    Matching        \* the missions the search matches

VARIABLES
    missions,       \* the identifiers in team_missions, in order of creation
    nextMission,    \* the identifier the next mission gets
    recorded,       \* [MissionIds -> workspace]: mission_workspace; 0 is no row
    openSpaces,     \* the workspaces Herdr has
    nextSpace,      \* the identifier Herdr gives the next workspace
    app,            \* the control center's state
    worker,         \* [Workers -> process]: the control center's job, and the shells
    intent,         \* history: the mission the user was shown, and whether the list has changed since
    abandoned       \* history: the workspaces that were lost sight of, and why they may be

MissionIds == 1 .. MaxMissions
SpaceIds == 1 .. MaxWorkspaces
Console == "console"
Workers == Shells \cup {Console}

ASSUME ControlAssumption ==
    /\ MaxMissions \in Nat /\ MaxWorkspaces \in Nat
    /\ Matching \subseteq MissionIds
    /\ Console \notin Shells

tableVars == <<missions, nextMission, recorded>>
spaceVars == <<openSpaces, nextSpace>>
controlVars == <<tableVars, spaceVars, app, worker, intent, abandoned>>

-----------------------------------------------------------------------------
\* The control center.

\* "catalog" is the copy of the table, "selected" a position in the part of it
\* that is shown, "busy" that a job has been started and not yet polled.
Apps == [view : {"list", "search", "new", "send", "help", "quit"},
         catalog : SUBSET MissionIds, filtered : BOOLEAN,
         selected : 0 .. MaxMissions, confirm : BOOLEAN, busy : BOOLEAN]

\* apply_search: the newest mission first.
Shown(catalog, filtered) == IF filtered THEN catalog \cap Matching ELSE catalog
List == Shown(app.catalog, app.filtered)

\* Mutant: one position too many.
ClampedAtSize(selected, size) == IF selected <= size THEN selected ELSE size

Clamped(selected, size) ==
    IF selected < size THEN selected ELSE IF size = 0 THEN 0 ELSE size - 1

\* selected_mission.
AtPosition(m, i) == m \in List /\ Cardinality({k \in List : k > m}) = i
Selected(m) == AtPosition(m, app.selected)

\* A process does one thing: "delete" and "launch" a mission, which may be "new",
\* or something that touches neither missions nor workspaces.
Workloads == [pc : {"idle", "create", "read", "space", "bind", "roles", "lookup", "rows",
                "close", "other", "over", "dead"},
          mission : MissionIds \cup {0}, space : SpaceIds \cup {0}]
NoWork == [pc |-> "idle", mission |-> 0, space |-> 0]
Work(pc, m) == [pc |-> pc, mission |-> m, space |-> 0]
WorkAt(w, pc) == worker[w].pc = pc

\* What a process that ends here does not record or close any more.
LostBy(w) == IF worker[w].pc \in {"bind", "close"} THEN {worker[w].space} ELSE {}

\* handle_key is reached only while no job is under way.
OnKey(view) == app.view = view /\ ~app.busy

\* start_job spawns the thread.
StartJob(job) == worker' = [worker EXCEPT ![Console] = job]

ControlInit ==
    /\ missions = {} /\ nextMission = 1
    /\ recorded = [m \in MissionIds |-> 0]
    /\ openSpaces = {} /\ nextSpace = 1
    /\ app = [view |-> "list", catalog |-> {}, filtered |-> FALSE, selected |-> 0,
              confirm |-> FALSE, busy |-> FALSE]
    /\ worker = [w \in Workers |-> NoWork]
    /\ intent = [mission |-> 0, changed |-> FALSE]
    /\ abandoned = {}

\* refresh, then apply_search: the position is kept, and clamped.
Refreshed(a) ==
    [a EXCEPT !.catalog = missions,
              !.selected = Clamped(@, Cardinality(Shown(missions, a.filtered)))]

\* Two seconds without a key and without a job.  Whatever is on the screen, a
\* deletion that waits for its confirmation included, the list is read again.
Tick ==
    /\ app.view # "quit" /\ ~app.busy
    /\ app' = Refreshed(app)
    /\ intent' = [intent EXCEPT !.changed = @ \/ missions # app.catalog]
    /\ UNCHANGED <<tableVars, spaceVars, worker, abandoned>>

\* Mutant: a confirmation stays until it is used.
ListKeyKeeps(a) == OnKey("list") /\ app' = a

\* A key of the list.  All but `x` take a confirmation back.
ListKey(a) ==
    /\ OnKey("list")
    /\ app' = [a EXCEPT !.confirm = FALSE]

MoveSelection ==
    /\ \E delta \in {1, -1} :
          ListKey(IF List = {} THEN app
                  ELSE [app EXCEPT !.selected = (@ + delta) % Cardinality(List)])
    /\ UNCHANGED <<tableVars, spaceVars, worker, intent, abandoned>>

\* `/`, `n`, `?`, `q`, and the keys that do nothing here.
ChangeView ==
    /\ \E view \in {"list", "search", "new", "help", "quit"} : ListKey([app EXCEPT !.view = view])
    /\ UNCHANGED <<tableVars, spaceVars, worker, intent, abandoned>>

\* Every edit of the search goes to the top of the list; escape drops the search.
EditSearch ==
    /\ OnKey("search")
    /\ \E filtered \in BOOLEAN, view \in {"list", "search"} :
          app' = [app EXCEPT
              !.filtered = filtered, !.view = view,
              !.selected = IF view = "search" THEN 0
                           ELSE Clamped(@, Cardinality(Shown(app.catalog, filtered)))]
    /\ app'.view = "list" => app'.filtered \in {FALSE, app.filtered}
    /\ UNCHANGED <<tableVars, spaceVars, worker, intent, abandoned>>

\* Escape.
LeaveForm ==
    /\ \E view \in {"new", "send", "help"} : OnKey(view)
    /\ app' = [app EXCEPT !.view = "list"]
    /\ UNCHANGED <<tableVars, spaceVars, worker, intent, abandoned>>

\* `s` opens the form for the mission that is selected; the form does not show it.
OpenSendForm ==
    /\ ListKey([app EXCEPT !.view = "send"])
    /\ \/ List = {} /\ intent' = [mission |-> 0, changed |-> FALSE]
       \/ \E m \in List : Selected(m) /\ intent' = [mission |-> m, changed |-> FALSE]
    /\ UNCHANGED <<tableVars, spaceVars, worker, abandoned>>

\* do_send, for the mission that is selected by now.
DoSend ==
    /\ OnKey("send")
    /\ \/ /\ List = {} /\ UNCHANGED worker
          /\ app' = [app EXCEPT !.view = "list"]
       \/ \E m \in List :
             /\ Selected(m)
             /\ StartJob(Work("other", m))
             /\ app' = [app EXCEPT !.view = "list", !.busy = TRUE]
    /\ UNCHANGED <<tableVars, spaceVars, intent, abandoned>>

\* do_new, do_deliver and do_resume.
DoNew ==
    /\ OnKey("new")
    /\ \/ StartJob(Work("create", 0)) /\ app' = [app EXCEPT !.view = "list", !.busy = TRUE]
       \/ app' = [app EXCEPT !.view = "list"] /\ UNCHANGED worker
    /\ UNCHANGED <<tableVars, spaceVars, intent, abandoned>>

DoDeliver ==
    /\ ListKey([app EXCEPT !.busy = TRUE])
    /\ StartJob(Work("other", 0))
    /\ UNCHANGED <<tableVars, spaceVars, intent, abandoned>>

DoResume ==
    /\ \E m \in List :
          /\ Selected(m)
          /\ ListKey([app EXCEPT !.busy = TRUE])
          /\ StartJob(Work("read", m))
    /\ UNCHANGED <<tableVars, spaceVars, intent, abandoned>>

\* do_delete, first `x`: the message names the mission and asks to confirm.
AskDelete ==
    /\ OnKey("list") /\ ~app.confirm
    /\ \E m \in List : Selected(m) /\ intent' = [mission |-> m, changed |-> FALSE]
    /\ app' = [app EXCEPT !.confirm = TRUE]
    /\ UNCHANGED <<tableVars, spaceVars, worker, abandoned>>

\* do_delete, second `x`: the mission that is selected by now is deleted.
DoDelete ==
    /\ OnKey("list") /\ app.confirm
    /\ \E m \in List : Selected(m) /\ StartJob(Work("lookup", m))
    /\ app' = [app EXCEPT !.confirm = FALSE, !.busy = TRUE]
    /\ UNCHANGED <<tableVars, spaceVars, intent, abandoned>>

\* Mutant: a thread that died is waited for.
Answered == WorkAt(Console, "over")

Ended == WorkAt(Console, "over") \/ WorkAt(Console, "dead")

\* poll_job: the outcome arrived, or the thread died and dropped its channel.
PollJob ==
    /\ app.view # "quit" /\ app.busy
    /\ Ended
    /\ app' = Refreshed([app EXCEPT !.busy = FALSE])
    /\ worker' = [worker EXCEPT ![Console] = NoWork]
    /\ UNCHANGED <<tableVars, spaceVars, intent, abandoned>>

\* `q` while a job runs: the process exits, and its job with it.
QuitBusy ==
    /\ app.view # "quit" /\ app.busy
    /\ app' = [app EXCEPT !.view = "quit"]
    /\ worker' = [worker EXCEPT ![Console] = NoWork]
    /\ abandoned' = abandoned \cup LostBy(Console)
    /\ UNCHANGED <<tableVars, spaceVars, intent>>

-----------------------------------------------------------------------------
\* What a job or a shell does.

WorkGoesTo(w, pc) ==
    worker' = [worker EXCEPT ![w] = IF pc = "over" THEN Work(pc, 0) ELSE [@ EXCEPT !.pc = pc]]

\* A shell is started for a mission the user has seen, which may be gone by now.
StartShell(w) ==
    /\ w \in Shells /\ WorkAt(w, "idle")
    /\ \/ worker' = [worker EXCEPT ![w] = Work("create", 0)]
       \/ \E m \in 1 .. nextMission - 1, pc \in {"read", "lookup"} :
             worker' = [worker EXCEPT ![w] = Work(pc, m)]
    /\ UNCHANGED <<tableVars, spaceVars, app, intent, abandoned>>

\* create_mission; `--no-start` ends there.
CreateMission(w) ==
    /\ WorkAt(w, "create") /\ nextMission <= MaxMissions
    /\ missions' = missions \cup {nextMission}
    /\ nextMission' = nextMission + 1
    /\ \E pc \in {"read", "over"} : worker' = [worker EXCEPT ![w] = Work(pc, nextMission)]
    /\ UNCHANGED <<recorded, spaceVars, app, intent, abandoned>>

\* launch_mission: a mission that is gone or whose workspace is gone fails.
ReadMission(w) ==
    LET m == worker[w].mission IN
    /\ WorkAt(w, "read")
    /\ WorkGoesTo(w, IF m \notin missions THEN "over"
                   ELSE IF recorded[m] = 0 THEN "space"
                   ELSE IF recorded[m] \in openSpaces THEN "roles" ELSE "over")
    /\ UNCHANGED <<tableVars, spaceVars, app, intent, abandoned>>

CreateSpace(w) ==
    /\ WorkAt(w, "space") /\ nextSpace <= MaxWorkspaces
    /\ openSpaces' = openSpaces \cup {nextSpace}
    /\ nextSpace' = nextSpace + 1
    /\ worker' = [worker EXCEPT ![w].pc = "bind", ![w].space = nextSpace]
    /\ UNCHANGED <<tableVars, app, intent, abandoned>>

\* Mutant: foreign keys are off.
BindsAnything(m) == TRUE

MayBind(m) == m \in missions

\* upsert_workspace: a foreign key keeps it from a mission that was deleted
\* meanwhile; another launch's workspace is overwritten.
BindSpace(w) ==
    LET m == worker[w].mission
        s == worker[w].space
    IN  /\ WorkAt(w, "bind")
        /\ IF MayBind(m)
           THEN /\ recorded' = [recorded EXCEPT ![m] = s]
                /\ abandoned' = abandoned \cup ({recorded[m]} \ {0})
                /\ WorkGoesTo(w, "roles")
           ELSE /\ abandoned' = abandoned \cup {s}
                /\ WorkGoesTo(w, "over") /\ UNCHANGED recorded
        /\ UNCHANGED <<missions, nextMission, spaceVars, app, intent>>

\* The roles are launched, or not.
LaunchRoles(w) ==
    /\ WorkAt(w, "roles") \/ WorkAt(w, "other")
    /\ WorkGoesTo(w, "over")
    /\ UNCHANGED <<tableVars, spaceVars, app, intent, abandoned>>

\* delete_mission reads the workspace first, in a statement of its own.
LookUpSpace(w) ==
    /\ WorkAt(w, "lookup")
    /\ worker' = [worker EXCEPT ![w].pc = "rows", ![w].space = recorded[worker[w].mission]]
    /\ UNCHANGED <<tableVars, spaceVars, app, intent, abandoned>>

\* Mutant: the workspace is left to the user.
NoneToClose(s) == "over"

AfterRows(s) == IF s = 0 THEN "over" ELSE "close"

\* DELETE FROM team_missions cascades to every row of the mission.
DeleteRows(w) ==
    LET m == worker[w].mission
        s == worker[w].space
    IN  /\ WorkAt(w, "rows")
        /\ missions' = missions \ {m}
        /\ recorded' = [recorded EXCEPT ![m] = 0]
        /\ abandoned' = abandoned \cup ({recorded[m]} \ {0, s})
        /\ WorkGoesTo(w, AfterRows(s))
        /\ UNCHANGED <<nextMission, spaceVars, app, intent>>

\* `workspace close`, whether the rows were this process's to delete or not.
CloseSpace(w) ==
    /\ WorkAt(w, "close")
    /\ openSpaces' = openSpaces \ {worker[w].space}
    /\ WorkGoesTo(w, "over")
    /\ UNCHANGED <<tableVars, nextSpace, app, intent, abandoned>>

\* A call fails, a thread panics or a process is killed: what it was about to
\* record or to close stays.
GiveUp(w) ==
    /\ worker[w].pc \notin {"idle", "over", "dead"}
    /\ \E pc \in {"over", "dead"} : worker' = [worker EXCEPT ![w] = Work(pc, 0)]
    /\ abandoned' = abandoned \cup LostBy(w)
    /\ UNCHANGED <<tableVars, spaceVars, app, intent>>

WorkerStep(w) ==
    \/ CreateMission(w) \/ ReadMission(w) \/ CreateSpace(w) \/ BindSpace(w)
    \/ LaunchRoles(w) \/ LookUpSpace(w) \/ DeleteRows(w) \/ CloseSpace(w) \/ GiveUp(w)

ControlNext ==
    \/ Tick \/ MoveSelection \/ ChangeView \/ EditSearch \/ LeaveForm
    \/ OpenSendForm \/ DoSend \/ DoNew \/ DoDeliver \/ DoResume
    \/ AskDelete \/ DoDelete \/ PollJob \/ QuitBusy
    \/ \E w \in Workers : StartShell(w) \/ WorkerStep(w)

\* The event loop and its job's thread keep running, and Herdr's calls return.
ControlFairness == WF_controlVars(PollJob) /\ WF_controlVars(WorkerStep(Console))
ControlSpec == ControlInit /\ [][ControlNext]_controlVars /\ ControlFairness

-----------------------------------------------------------------------------
ControlTypeOK ==
    /\ missions \subseteq 1 .. nextMission - 1 /\ nextMission \in 1 .. MaxMissions + 1
    /\ recorded \in [MissionIds -> SpaceIds \cup {0}]
    /\ openSpaces \subseteq 1 .. nextSpace - 1 /\ nextSpace \in 1 .. MaxWorkspaces + 1
    /\ app \in Apps /\ (app.selected = 0 \/ app.selected < Cardinality(List))
    /\ worker \in [Workers -> Workloads]
    /\ intent \in [mission : MissionIds \cup {0}, changed : BOOLEAN]
    /\ abandoned \subseteq SpaceIds

\* What a confirmed deletion deletes, and what a task is sent to, is the mission
\* the user was shown, unless the list was read again with another content since.
ActsOnTheShown ==
    [][DoSend \/ DoDelete =>
          worker'[Console].mission \in {0, intent.mission} \/ intent.changed]_controlVars

\* A workspace that is open belongs to a mission, or to a process that is about
\* to record or to close it: deleting and launching missions leaves none behind
\* unless a step of theirs failed or the two crossed.
WorkspacesAreOwned ==
    \A s \in openSpaces \ abandoned :
        \/ \E m \in missions : recorded[m] = s
        \/ \E w \in Workers : worker[w].space = s /\ worker[w].pc \in {"bind", "close"}

\* A launch that outlives its mission brings nothing of it back.
DeletedLeaveNothing == \A m \in MissionIds : recorded[m] # 0 => m \in missions

\* However a job ends, the control center takes keys again.
JobsAreReported == app.busy ~> ~app.busy \/ app.view = "quit"
=============================================================================
