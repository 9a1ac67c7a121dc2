--------------------------- MODULE DeliveryDaemon ---------------------------
(***************************************************************************)
(* The persistent delivery daemon: its lock file, its stop marker and the  *)
(* order in which it serves missions (src/src/daemon.rs and kernel_deliver *)
(* in src/src/coordination.rs).                                            *)
(*                                                                         *)
(* Each daemon is one process and runs once.  Every file operation is a    *)
(* step of its own: creating the lock file, writing the pid into it,       *)
(* reading it, removing it.  What a pass does to a mission's outbox is the *)
(* subject of MissionStore; here a mission is due or not.  The relay pass  *)
(* between two delivery passes is the subject of PeerRelay, whose finding  *)
(* says that it may never end; here it does.                               *)
(***************************************************************************)
EXTENDS Integers

CONSTANTS
    Daemons,        \* daemon processes, which are also their pids
    MissionCount,   \* missions 1 .. MissionCount, in the order of their identifiers
    Breakable,      \* bound: the missions whose state may become unreadable
    NoLock          \* no lock file

VARIABLES
    lockFile,   \* NoLock, or [by, written]: who created it, and whether its pid is in it
    stopMarker, \* the stop marker exists
    daemon,     \* [Daemons -> process]
    due,        \* the missions with queued, retry or sending rows
    broken,     \* the missions whose drive fails
    seized      \* history: a daemon has removed a lock that was not the stale one it saw

daemonVars == <<lockFile, stopMarker, daemon, due, broken, seized>>

Queue == 1 .. MissionCount

ASSUME DaemonAssumption ==
    /\ MissionCount \in Nat
    /\ Breakable \subseteq Queue

LockFiles == [by : Daemons, written : BOOLEAN]
ASSUME NoLockAssumption == NoLock \notin LockFiles

Phases == {"new", "stale", "locking", "head", "pass", "stopping", "over", "dead"}
DaemonProcesses == [phase : Phases, stale : LockFiles \cup {NoLock}, todo : SUBSET Queue]
InPhase(d, phase) == daemon[d].phase = phase
Alive(d) == ~InPhase(d, "over") /\ ~InPhase(d, "dead")
Serving(d) == daemon[d].phase \in {"head", "pass", "stopping"}
Holding(d) == InPhase(d, "locking") \/ Serving(d)
Move(d, phase) == daemon' = [daemon EXCEPT ![d].phase = phase]

DaemonInit ==
    /\ lockFile = NoLock /\ stopMarker = FALSE
    /\ daemon = [d \in Daemons |-> [phase |-> "new", stale |-> NoLock, todo |-> {}]]
    /\ due = {} /\ broken = {}
    /\ seized = FALSE

\* DaemonLock::acquire, by create_new.
CreateLock(d) ==
    /\ InPhase(d, "new") /\ lockFile = NoLock
    /\ lockFile' = [by |-> d, written |-> FALSE]
    /\ Move(d, "locking")
    /\ UNCHANGED <<stopMarker, due, broken, seized>>

\* The pid goes into the file that was created, which may be gone by now.
WritePid(d) ==
    /\ InPhase(d, "locking")
    /\ lockFile' = IF lockFile = [by |-> d, written |-> FALSE]
                   THEN [lockFile EXCEPT !.written = TRUE] ELSE lockFile
    /\ Move(d, "head")
    /\ UNCHANGED <<stopMarker, due, broken, seized>>

\* Mutant: a file with no pid in it is stale.
IsStaleUnwritten(file) == file # NoLock /\ (file.written => ~Alive(file.by))

\* is_stale_lock: a file with no pid in it is never stale.
IsStale(file) == file # NoLock /\ file.written /\ ~Alive(file.by)

FindLock(d) ==
    /\ InPhase(d, "new") /\ lockFile # NoLock
    /\ daemon' = [daemon EXCEPT ![d] =
          IF IsStale(lockFile) THEN [@ EXCEPT !.phase = "stale", !.stale = lockFile]
          ELSE [@ EXCEPT !.phase = "over"]]
    /\ UNCHANGED <<lockFile, stopMarker, due, broken, seized>>

\* The path is removed, whatever file is there by now, and the lock tried again.
RemoveStale(d) ==
    /\ InPhase(d, "stale")
    /\ lockFile' = NoLock
    /\ seized' = (seized \/ lockFile \notin {NoLock, daemon[d].stale})
    /\ daemon' = [daemon EXCEPT ![d].phase = "new", ![d].stale = NoLock]
    /\ UNCHANGED <<stopMarker, due, broken>>

\* The head of the loop: a stop marker is consumed and ends it; otherwise
\* queued_mission_ids begins a pass.
SeeStop(d) ==
    /\ InPhase(d, "head") /\ stopMarker
    /\ stopMarker' = FALSE
    /\ Move(d, "stopping")
    /\ UNCHANGED <<lockFile, due, broken, seized>>

BeginPass(d) ==
    /\ InPhase(d, "head") /\ ~stopMarker
    /\ daemon' = [daemon EXCEPT ![d].phase = "pass", ![d].todo = due]
    /\ UNCHANGED <<lockFile, stopMarker, due, broken, seized>>

\* Mutant: a pass serves one mission.
NoneLeft(d, m) == {}

StillToServe(d, m) == daemon[d].todo \ {m}

\* The missions are served in order; one that fails ends the pass.
ServeMission(d) ==
    /\ InPhase(d, "pass")
    /\ IF daemon[d].todo = {} THEN Move(d, "head") /\ UNCHANGED due
       ELSE \E m \in daemon[d].todo :
              /\ \A k \in daemon[d].todo : m <= k
              /\ IF m \in broken THEN Move(d, "head") /\ UNCHANGED due
                 ELSE /\ daemon' = [daemon EXCEPT ![d].todo = StillToServe(d, m)]
                      /\ due' = due \ {m}
    /\ UNCHANGED <<lockFile, stopMarker, broken, seized>>

\* Drop: the path is removed, whatever file is there by now.
ReleaseLock(d) ==
    /\ InPhase(d, "stopping")
    /\ lockFile' = NoLock
    /\ Move(d, "over")
    /\ UNCHANGED <<stopMarker, due, broken, seized>>

\* A process that dies drops nothing.
DieDaemon(d) ==
    /\ Alive(d)
    /\ Move(d, "dead")
    /\ UNCHANGED <<lockFile, stopMarker, due, broken, seized>>

RequestStop ==
    /\ stopMarker' = TRUE
    /\ UNCHANGED <<lockFile, daemon, due, broken, seized>>

\* Prompts are queued, and the state of a mission becomes unreadable or is repaired.
Enqueue(m) ==
    /\ due' = due \cup {m}
    /\ UNCHANGED <<lockFile, stopMarker, daemon, broken, seized>>
Break(m) ==
    /\ broken' = IF m \in broken THEN broken \ {m} ELSE broken \cup {m}
    /\ UNCHANGED <<lockFile, stopMarker, daemon, due, seized>>

DaemonStep(d) ==
    \/ CreateLock(d) \/ WritePid(d) \/ FindLock(d) \/ RemoveStale(d)
    \/ SeeStop(d) \/ BeginPass(d) \/ ServeMission(d) \/ ReleaseLock(d)

DaemonNext ==
    \/ \E d \in Daemons : DaemonStep(d) \/ DieDaemon(d)
    \/ RequestStop
    \/ \E m \in Queue : Enqueue(m)
    \/ \E m \in Breakable : Break(m)

\* A process that is not killed keeps running.
DaemonFairness == \A d \in Daemons : WF_daemonVars(DaemonStep(d))
DaemonSpec == DaemonInit /\ [][DaemonNext]_daemonVars /\ DaemonFairness

-----------------------------------------------------------------------------
DaemonTypeOK ==
    /\ lockFile \in LockFiles \cup {NoLock}
    /\ stopMarker \in BOOLEAN /\ seized \in BOOLEAN
    /\ daemon \in [Daemons -> DaemonProcesses]
    /\ due \subseteq Queue /\ broken \subseteq Breakable

\* One daemon at a time delivers, whatever died where, unless one has taken the
\* lock another had just created for the stale one it saw before.
OneDaemonServes ==
    \A d, e \in Daemons : Serving(d) /\ Serving(e) /\ d # e => seized

\* A mission with queued prompts is served while a daemon runs, however much is
\* queued for the missions before it, unless one of these or itself is broken.
MissionsAreServed ==
    \A m \in Queue :
        (m \in due) ~> \/ m \notin due
                       \/ \A d \in Daemons : ~Serving(d)
                       \/ \E k \in broken : k <= m
=============================================================================
