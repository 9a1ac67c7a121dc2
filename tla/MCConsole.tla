----------------------------- MODULE MCConsole ------------------------------
(***************************************************************************)
(* The processes that outlive a command, the delivery daemon and the       *)
(* control center, and the rosters a delivery pass works with.  The three  *)
(* modules share no variable; a behaviour moves the one that its initial   *)
(* state names, as in MCLaunch.                                            *)
(***************************************************************************)
EXTENDS DeliveryDaemon, ControlCenter, MCPromptRouting

VARIABLE turn       \* the module that moves

consoleVars == <<turn, daemonVars, controlVars, routingVars>>

ConsoleInit ==
    /\ turn \in {"daemon", "control", "routing"}
    /\ DaemonInit /\ ControlInit /\ RoutingInit

Moves(module) == turn = module /\ turn' = turn
DaemonMoves == Moves("daemon") /\ UNCHANGED <<controlVars, routingVars>>
ControlMoves == Moves("control") /\ UNCHANGED <<daemonVars, routingVars>>
RoutingMoves == Moves("routing") /\ UNCHANGED <<daemonVars, controlVars>>

ConsoleNext ==
    \/ DaemonMoves /\ DaemonNext
    \/ ControlMoves /\ ControlNext
    \/ RoutingMoves /\ RoutingNext

\* The fairness of DaemonSpec, ControlSpec and RoutingSpec, for the module that moves.
ConsoleSpec ==
    /\ ConsoleInit /\ [][ConsoleNext]_consoleVars
    /\ \A d \in Daemons : WF_consoleVars(DaemonMoves /\ DaemonStep(d))
    /\ WF_consoleVars(ControlMoves /\ PollJob)
    /\ WF_consoleVars(ControlMoves /\ WorkerStep(Console))
    /\ \A p \in DeliveryPasses : WF_consoleVars(RoutingMoves /\ RoutingStep(p))

\* Every variable of the three modules has its type.
ConsoleTypeOK == DaemonTypeOK /\ ControlTypeOK /\ RoutingTypeOK
=============================================================================
