------------------------------ MODULE MCLaunch ------------------------------
(***************************************************************************)
(* What goes on around one mission beside its prompts: who launches its    *)
(* roles, the workspace they live in, and the jobs of its worker.  The     *)
(* three modules share no variable, so that what holds of each holds of    *)
(* all: a behaviour moves the one that its initial state names and leaves  *)
(* the others alone, and TLC visits the sum of their states.               *)
(***************************************************************************)
EXTENDS RoleRuntime, Regions, ToolJobs

VARIABLE turn       \* the module that moves

launchVars == <<turn, runtimeVars, regionVars, jobVars>>

Launch(team, manual, reconciles, launchers, owners, told) ==
    [team |-> team, manual |-> manual, reconciles |-> reconciles, users |-> {},
     launchers |-> launchers, owners |-> owners, told |-> told]

TwoClients == Launch(<<"pm", "worker">>, FALSE, FALSE, {}, {"o1", "o2"}, {0, 1})

\* Two launches of one role; a launch, `reconcile' and a user who joins an agent;
\* a PM and a worker, in either mode, and `reconcile'; a launch beside a client
\* of the kernel and `reconcile'; a launch beside a client whose observations name
\* a pane; two clients whose observations name one or none.
TheMissions ==
    {Launch(<<"worker">>, FALSE, FALSE, {"l1", "l2"}, {}, {}),
     [Launch(<<"worker">>, FALSE, TRUE, {"l1"}, {}, {}) EXCEPT !.users = {2}],
     Launch(<<"pm", "worker">>, TRUE, TRUE, {"l1"}, {}, {}),
     Launch(<<"pm", "worker">>, FALSE, TRUE, {"l1"}, {}, {}),
     Launch(<<"worker">>, FALSE, TRUE, {"l1"}, {"o1"}, {}),
     Launch(<<"worker">>, FALSE, FALSE, {"l1"}, {"o1"}, {2}),
     TwoClients}

LaunchInit ==
    /\ turn \in {"runtime", "regions", "jobs"}
    /\ RuntimeInit /\ RegionInit /\ JobInit
    /\ turn # "runtime" => mission = TwoClients

Moves(module) == turn = module /\ turn' = turn

LaunchNext ==
    \/ Moves("runtime") /\ RuntimeNext /\ UNCHANGED <<regionVars, jobVars>>
    \/ Moves("regions") /\ RegionNext /\ UNCHANGED <<runtimeVars, jobVars>>
    \/ Moves("jobs") /\ JobNext /\ UNCHANGED <<runtimeVars, regionVars>>

LaunchSpec == LaunchInit /\ [][LaunchNext]_launchVars

\* Every variable of the three modules has its type.
LaunchTypeOK == RuntimeTypeOK /\ RegionTypeOK /\ JobTypeOK
=============================================================================
