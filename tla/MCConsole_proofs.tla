-------------------------- MODULE MCConsole_proofs --------------------------
(***************************************************************************)
(* Proofs about DeliveryDaemon, for any number of daemons and missions,    *)
(* about PromptRouting, for any roles, agents and passes, and about        *)
(* MCConsole: what is proved of the daemon, the control center and the     *)
(* rosters, each by itself, holds where they stand side by side.           *)
(***************************************************************************)
EXTENDS MCConsole, ControlCenter_proofs

-----------------------------------------------------------------------------
\* The delivery daemon.

USE DaemonAssumption, NoLockAssumption

\* A daemon that holds the lock has created the lock file that is there; nobody
\* has removed it, because a lock file is found stale only once its creator is
\* over or dead, unless the file was exchanged after it had been looked at.
HoldersOwnTheFile ==
    seized \/ \A d \in Daemons : Holding(d) => lockFile # NoLock /\ lockFile.by = d

\* A lock file that was found stale had a dead or stopped creator.
StaleIsDead ==
    \A d \in Daemons :
        InPhase(d, "stale") => daemon[d].stale # NoLock /\ ~Alive(daemon[d].stale.by)

DaemonInv == DaemonTypeOK /\ HoldersOwnTheFile /\ StaleIsDead

-----------------------------------------------------------------------------
LEMMA DaemonStart == DaemonInit => DaemonInv
<1> SUFFICES ASSUME DaemonInit PROVE DaemonInv
  OBVIOUS
<1>1. DaemonTypeOK
  BY DEF DaemonInit, DaemonTypeOK, DaemonProcesses, Phases
<1>2. \A d \in Daemons : daemon[d].phase = "new"
  BY DEF DaemonInit
<1>3. QED
  BY <1>1, <1>2 DEF DaemonInv, HoldersOwnTheFile, StaleIsDead, Holding, Serving, InPhase

\* What a daemon's process becomes has the type of a process.
LEMMA ProcessType ==
    ASSUME DaemonTypeOK, NEW d \in Daemons
    PROVE  /\ daemon[d] \in DaemonProcesses
           /\ daemon[d].phase \in Phases
           /\ daemon[d].stale \in LockFiles \cup {NoLock} /\ daemon[d].todo \subseteq Queue
           /\ \A phase \in Phases, stale \in LockFiles \cup {NoLock}, todo \in SUBSET Queue :
                 /\ [daemon[d] EXCEPT !.phase = phase] \in DaemonProcesses
                 /\ [daemon[d] EXCEPT !.phase = phase, !.stale = stale] \in DaemonProcesses
                 /\ [daemon[d] EXCEPT !.phase = phase, !.todo = todo] \in DaemonProcesses
                 /\ [daemon[d] EXCEPT !.todo = todo] \in DaemonProcesses
BY DEF DaemonTypeOK, DaemonProcesses

LEMMA WritesOwnPid ==
    ASSUME NEW d \in Daemons, WritePid(d)
    PROVE  \/ lockFile' = lockFile
           \/ lockFile.by = d /\ lockFile' \in LockFiles /\ lockFile'.by = d
<1> DEFINE fresh == [by |-> d, written |-> FALSE]
<1> DEFINE filled == [fresh EXCEPT !.written = TRUE]
<1>1. fresh.by = d /\ fresh \in LockFiles
  BY DEF LockFiles
<1>2. \A file \in LockFiles :
         /\ [file EXCEPT !.written = TRUE] \in LockFiles
         /\ [file EXCEPT !.written = TRUE].by = file.by
  BY DEF LockFiles
<1>3. filled \in LockFiles /\ filled.by = d
  <2> HIDE DEF fresh
  <2>1. QED
    BY <1>1, <1>2
<1>4. lockFile' = IF lockFile = fresh THEN [lockFile EXCEPT !.written = TRUE] ELSE lockFile
  BY DEF WritePid
<1> HIDE DEF fresh
<1>5. CASE lockFile = fresh
  BY <1>1, <1>3, <1>4, <1>5
<1>6. CASE lockFile # fresh
  BY <1>4, <1>6
<1>7. QED
  BY <1>5, <1>6

LEMMA DaemonTypeStep == DaemonTypeOK /\ [DaemonNext]_daemonVars => DaemonTypeOK'
<1> SUFFICES ASSUME DaemonTypeOK, [DaemonNext]_daemonVars PROVE DaemonTypeOK'
  OBVIOUS
<1> USE DEF Phases
<1>1. ASSUME NEW d \in Daemons, CreateLock(d) PROVE DaemonTypeOK'
  BY <1>1, ProcessType DEF CreateLock, Move, DaemonTypeOK, LockFiles
<1>2. ASSUME NEW d \in Daemons, WritePid(d) PROVE DaemonTypeOK'
  <2>1. daemon' = [daemon EXCEPT ![d] = [daemon[d] EXCEPT !.phase = "head"]]
    BY <1>2 DEF WritePid, Move
  <2>2. daemon' \in [Daemons -> DaemonProcesses]
    BY <2>1, ProcessType DEF DaemonTypeOK
  <2>3. QED
    BY <1>2, <2>2, WritesOwnPid DEF WritePid, DaemonTypeOK
<1>3. ASSUME NEW d \in Daemons, FindLock(d) PROVE DaemonTypeOK'
  <2>1. \/ daemon' = [daemon EXCEPT ![d] = [daemon[d] EXCEPT !.phase = "stale", !.stale = lockFile]]
        \/ daemon' = [daemon EXCEPT ![d] = [daemon[d] EXCEPT !.phase = "over"]]
    BY <1>3 DEF FindLock
  <2>2. lockFile \in LockFiles \cup {NoLock}
    BY DEF DaemonTypeOK
  <2>3. CASE daemon' = [daemon EXCEPT ![d] = [daemon[d] EXCEPT !.phase = "stale", !.stale = lockFile]]
    <3>1. [daemon[d] EXCEPT !.phase = "stale", !.stale = lockFile] \in DaemonProcesses
      BY <2>2, ProcessType
    <3>2. daemon' \in [Daemons -> DaemonProcesses]
      BY <2>3, <3>1 DEF DaemonTypeOK
    <3>3. QED
      BY <1>3, <3>2 DEF FindLock, DaemonTypeOK
  <2>4. CASE daemon' = [daemon EXCEPT ![d] = [daemon[d] EXCEPT !.phase = "over"]]
    <3>1. daemon' \in [Daemons -> DaemonProcesses]
      BY <2>4, ProcessType DEF DaemonTypeOK
    <3>2. QED
      BY <1>3, <3>1 DEF FindLock, DaemonTypeOK
  <2>5. QED
    BY <2>1, <2>3, <2>4
<1>4. ASSUME NEW d \in Daemons, RemoveStale(d) PROVE DaemonTypeOK'
  <2>1. daemon' = [daemon EXCEPT ![d] = [daemon[d] EXCEPT !.phase = "new", !.stale = NoLock]]
    BY <1>4 DEF RemoveStale
  <2>2. daemon' \in [Daemons -> DaemonProcesses]
    BY <2>1, ProcessType DEF DaemonTypeOK
  <2>3. QED
    BY <1>4, <2>2 DEF RemoveStale, DaemonTypeOK
<1>5. ASSUME NEW d \in Daemons, SeeStop(d) PROVE DaemonTypeOK'
  BY <1>5, ProcessType DEF SeeStop, Move, DaemonTypeOK
<1>6. ASSUME NEW d \in Daemons, BeginPass(d) PROVE DaemonTypeOK'
  <2>1. daemon' = [daemon EXCEPT ![d] = [daemon[d] EXCEPT !.phase = "pass", !.todo = due]]
    BY <1>6 DEF BeginPass
  <2>2. due \in SUBSET Queue
    BY DEF DaemonTypeOK
  <2>3. daemon' \in [Daemons -> DaemonProcesses]
    BY <2>1, <2>2, ProcessType DEF DaemonTypeOK
  <2>4. QED
    BY <1>6, <2>3 DEF BeginPass, DaemonTypeOK
<1>7. ASSUME NEW d \in Daemons, ServeMission(d) PROVE DaemonTypeOK'
  <2>1. \/ daemon' = [daemon EXCEPT ![d] = [daemon[d] EXCEPT !.phase = "head"]]
        \/ \E m \in Queue : daemon' = [daemon EXCEPT ![d] = [daemon[d] EXCEPT !.todo = StillToServe(d, m)]]
    BY <1>7, ProcessType DEF ServeMission, Move
  <2>2. \A m \in Queue : StillToServe(d, m) \in SUBSET Queue
    BY ProcessType DEF StillToServe
  <2>3. CASE daemon' = [daemon EXCEPT ![d] = [daemon[d] EXCEPT !.phase = "head"]]
    BY <1>7, <2>3, ProcessType DEF DaemonTypeOK, ServeMission
  <2>4. ASSUME NEW m \in Queue,
               daemon' = [daemon EXCEPT ![d] = [daemon[d] EXCEPT !.todo = StillToServe(d, m)]]
        PROVE  DaemonTypeOK'
    <3>1. [daemon[d] EXCEPT !.todo = StillToServe(d, m)] \in DaemonProcesses
      BY <2>2, ProcessType
    <3>2. daemon' \in [Daemons -> DaemonProcesses]
      BY <2>4, <3>1 DEF DaemonTypeOK
    <3>3. QED
      BY <1>7, <3>2 DEF ServeMission, DaemonTypeOK
  <2>5. QED
    BY <2>1, <2>3, <2>4
<1>8. ASSUME NEW d \in Daemons, ReleaseLock(d) PROVE DaemonTypeOK'
  BY <1>8, ProcessType DEF ReleaseLock, Move, DaemonTypeOK
<1>9. ASSUME NEW d \in Daemons, DieDaemon(d) PROVE DaemonTypeOK'
  BY <1>9, ProcessType DEF DieDaemon, Move, DaemonTypeOK
<1>10. ASSUME RequestStop PROVE DaemonTypeOK'
  BY <1>10 DEF RequestStop, DaemonTypeOK
<1>11. ASSUME NEW m \in Queue, Enqueue(m) PROVE DaemonTypeOK'
  BY <1>11 DEF Enqueue, DaemonTypeOK
<1>12. ASSUME NEW m \in Breakable, Break(m) PROVE DaemonTypeOK'
  BY <1>12 DEF Break, DaemonTypeOK
<1>13. ASSUME UNCHANGED daemonVars PROVE DaemonTypeOK'
  BY <1>13 DEF daemonVars, DaemonTypeOK
<1>14. QED
  BY <1>1, <1>2, <1>3, <1>4, <1>5, <1>6, <1>7, <1>8, <1>9, <1>10, <1>11, <1>12, <1>13
     DEF DaemonNext, DaemonStep

-----------------------------------------------------------------------------
\* A step that leaves the lock file alone, and changes one process, without
\* making it a holder, a stale finder or alive.
LEMMA QuietStep ==
    ASSUME DaemonInv, DaemonTypeOK', UNCHANGED <<lockFile, seized>>,
           NEW d \in Daemons, \A e \in Daemons \ {d} : daemon'[e] = daemon[e],
           Holding(d)' => Holding(d), Alive(d)' => Alive(d),
           ~InPhase(d, "stale")'
    PROVE  DaemonInv'
<1>1. HoldersOwnTheFile'
  BY DEF DaemonInv, HoldersOwnTheFile, Holding, Serving, InPhase
<1>2. StaleIsDead'
  BY DEF DaemonInv, StaleIsDead, Alive, InPhase, DaemonTypeOK, LockFiles, DaemonProcesses
<1>3. QED
  BY <1>1, <1>2 DEF DaemonInv

LEMMA DaemonInvStep == DaemonInv /\ [DaemonNext]_daemonVars => DaemonInv'
<1> SUFFICES ASSUME DaemonInv, [DaemonNext]_daemonVars PROVE DaemonInv'
  OBVIOUS
<1>0. DaemonTypeOK /\ DaemonTypeOK'
  BY DaemonTypeStep DEF DaemonInv
<1> USE DEF InPhase, Serving, Holding, Alive
<1>1. ASSUME NEW d \in Daemons, CreateLock(d) PROVE DaemonInv'
  <2>1. [by |-> d, written |-> FALSE] \in LockFiles
    BY DEF LockFiles
  <2>2. lockFile' # NoLock /\ lockFile'.by = d
    BY <1>1, <2>1 DEF CreateLock
  <2>3. HoldersOwnTheFile'
    BY <1>0, <1>1, <2>2 DEF CreateLock, Move, DaemonInv, HoldersOwnTheFile, DaemonTypeOK
  <2>4. StaleIsDead'
    BY <1>0, <1>1 DEF CreateLock, Move, DaemonInv, StaleIsDead, DaemonTypeOK, LockFiles,
                      DaemonProcesses
  <2>5. QED
    BY <1>0, <2>3, <2>4 DEF DaemonInv
<1>2. ASSUME NEW d \in Daemons, WritePid(d) PROVE DaemonInv'
  <2>0. \A e \in Daemons : lockFile # NoLock /\ lockFile.by = e
                           => lockFile' # NoLock /\ lockFile'.by = e
    BY <1>2, WritesOwnPid
  <2>1. HoldersOwnTheFile'
    BY <1>0, <1>2, <2>0 DEF WritePid, Move, DaemonInv, HoldersOwnTheFile, DaemonTypeOK
  <2>2. StaleIsDead'
    BY <1>0, <1>2 DEF WritePid, Move, DaemonInv, StaleIsDead, DaemonTypeOK, LockFiles,
                      DaemonProcesses
  <2>3. QED
    BY <1>0, <2>1, <2>2 DEF DaemonInv
<1>3. ASSUME NEW d \in Daemons, FindLock(d) PROVE DaemonInv'
  <2>1. HoldersOwnTheFile'
    BY <1>0, <1>3 DEF FindLock, DaemonInv, HoldersOwnTheFile, DaemonTypeOK, DaemonProcesses
  <2>2. StaleIsDead'
    BY <1>0, <1>3 DEF FindLock, IsStale, DaemonInv, StaleIsDead, DaemonTypeOK, LockFiles,
                      DaemonProcesses
  <2>3. QED
    BY <1>0, <2>1, <2>2 DEF DaemonInv
<1>4. ASSUME NEW d \in Daemons, RemoveStale(d) PROVE DaemonInv'
  <2>1. HoldersOwnTheFile'
    BY <1>0, <1>4 DEF RemoveStale, DaemonInv, HoldersOwnTheFile, StaleIsDead, DaemonTypeOK,
                      DaemonProcesses
  <2>2. StaleIsDead'
    BY <1>0, <1>4 DEF RemoveStale, DaemonInv, StaleIsDead, DaemonTypeOK, LockFiles,
                      DaemonProcesses
  <2>3. QED
    BY <1>0, <2>1, <2>2 DEF DaemonInv
<1>5. ASSUME NEW d \in Daemons, SeeStop(d) PROVE DaemonInv'
  BY <1>0, <1>5, QuietStep DEF SeeStop, Move, DaemonTypeOK, DaemonProcesses
<1>6. ASSUME NEW d \in Daemons, BeginPass(d) PROVE DaemonInv'
  BY <1>0, <1>6, QuietStep DEF BeginPass, DaemonTypeOK, DaemonProcesses
<1>7. ASSUME NEW d \in Daemons, ServeMission(d) PROVE DaemonInv'
  <2>1. /\ UNCHANGED <<lockFile, seized>>
        /\ \A e \in Daemons \ {d} : daemon'[e] = daemon[e]
        /\ daemon[d].phase = "pass" /\ daemon'[d].phase \in {"head", "pass"}
    BY <1>0, <1>7 DEF ServeMission, Move, DaemonTypeOK, DaemonProcesses
  <2>2. QED
    BY <1>0, <2>1, QuietStep
<1>8. ASSUME NEW d \in Daemons, ReleaseLock(d) PROVE DaemonInv'
  <2>1. HoldersOwnTheFile'
    BY <1>0, <1>8 DEF ReleaseLock, Move, DaemonInv, HoldersOwnTheFile, DaemonTypeOK,
                      DaemonProcesses
  <2>2. StaleIsDead'
    BY <1>0, <1>8 DEF ReleaseLock, Move, DaemonInv, StaleIsDead, DaemonTypeOK, LockFiles,
                      DaemonProcesses
  <2>3. QED
    BY <1>0, <2>1, <2>2 DEF DaemonInv
<1>9. ASSUME NEW d \in Daemons, DieDaemon(d) PROVE DaemonInv'
  BY <1>0, <1>9, QuietStep DEF DieDaemon, Move, DaemonTypeOK, DaemonProcesses
<1>10. ASSUME UNCHANGED <<lockFile, daemon, seized>> PROVE DaemonInv'
  BY <1>0, <1>10 DEF DaemonInv, HoldersOwnTheFile, StaleIsDead
<1>11. QED
  BY <1>1, <1>2, <1>3, <1>4, <1>5, <1>6, <1>7, <1>8, <1>9, <1>10
     DEF DaemonNext, DaemonStep, RequestStop, Enqueue, Break, daemonVars

-----------------------------------------------------------------------------
\* The daemons, their lock file and the queue are well typed.
THEOREM DaemonsAreTyped == DaemonSpec => []DaemonTypeOK
<1>1. DaemonInit => DaemonTypeOK
  BY DaemonStart DEF DaemonInv
<1>2. QED
  BY <1>1, DaemonTypeStep, PTL DEF DaemonSpec

\* However many daemons start, stop and die, at most one delivers at a time as
\* long as none removes a lock file that took the place of the stale one it had
\* found (DaemonLock::acquire).
THEOREM OneDaemonAtATime == DaemonSpec => []OneDaemonServes
<1>1. DaemonInv => OneDaemonServes
  BY DEF DaemonInv, HoldersOwnTheFile, OneDaemonServes, Holding
<1>2. QED
  BY DaemonStart, DaemonInvStep, <1>1, PTL DEF DaemonSpec

-----------------------------------------------------------------------------
\* The rosters of the delivery passes.

\* What a pass has read of the agents, and to whom it has sent its prompt, goes back
\* to what agents were recorded with since it began; this is what PromptsAreRecent
\* lacks to be inductive.
RosterWasSeen ==
    \A p \in DeliveryPasses : delivery[p].pc # "resting" =>
        \A r \in PromptRoles : delivery[p].roster[r] # NoAgent =>
            <<r, delivery[p].roster[r]>> \in sighted[p]

HeardByTarget ==
    \A p \in DeliveryPasses :
        /\ delivery[p].pc \in {"prompting", "reporting"} => delivery[p].role \in PromptRoles
        /\ delivery[p].to # NoAgent =>
              delivery[p].pc = "reporting" /\ delivery[p].to = Target(p, delivery[p].role)

RoutingInv == RoutingTypeOK /\ RosterWasSeen /\ HeardByTarget

Deliverers ==
    [pc : {"resting", "claiming", "prompting", "reporting"}, roster : Rosters,
     claims : 0 .. EffectBudget, role : PromptRoles \cup {"none"},
     to : AllAgents \cup {NoAgent}]

\* What is proved of one process.
PassOK(job, seen) ==
    /\ job \in Deliverers
    /\ job.pc # "resting" =>
          \A r \in PromptRoles : job.roster[r] # NoAgent => <<r, job.roster[r]>> \in seen
    /\ job.pc \in {"prompting", "reporting"} => job.role \in PromptRoles
    /\ job.to # NoAgent => job.pc = "reporting" /\ job.to = job.roster[Kind[job.role]]

LEMMA RoutingParts ==
    RoutingInv <=>
        /\ agentOf \in Rosters
        /\ prompt \in [PromptRoles -> {"none", "queued", "delivered"} \cup DeliveryPasses]
        /\ delivery \in [DeliveryPasses -> Deliverers]
        /\ sighted \in [DeliveryPasses -> SUBSET RoleAgents]
        /\ \A p \in DeliveryPasses : PassOK(delivery[p], sighted[p])
<1>1. RoutingTypeOK <=>
        /\ agentOf \in Rosters
        /\ prompt \in [PromptRoles -> {"none", "queued", "delivered"} \cup DeliveryPasses]
        /\ delivery \in [DeliveryPasses -> Deliverers]
        /\ sighted \in [DeliveryPasses -> SUBSET RoleAgents]
  BY DEF RoutingTypeOK, Deliverers
<1>2. ASSUME delivery \in [DeliveryPasses -> Deliverers]
      PROVE  RosterWasSeen /\ HeardByTarget <=>
                \A p \in DeliveryPasses : PassOK(delivery[p], sighted[p])
  <2>1. \A p \in DeliveryPasses : delivery[p] \in Deliverers
    BY <1>2
  <2>2. QED
    BY <2>1 DEF RosterWasSeen, HeardByTarget, PassOK, Target
<1>3. QED
  BY <1>1, <1>2 DEF RoutingInv

LEMMA RestingOK == Resting \in Deliverers /\ \A seen : PassOK(Resting, seen)
<1>1. Resting.pc = "resting" /\ Resting.to = NoAgent /\ Resting \in Deliverers
  BY RoutingAssumption DEF Resting, Deliverers, Rosters
<1>2. QED
  BY <1>1 DEF PassOK

LEMMA RoutingStart == RoutingInit => RoutingInv
<1> SUFFICES ASSUME RoutingInit PROVE RoutingInv
  OBVIOUS
<1>1. agentOf \in Rosters
  BY DEF RoutingInit, Rosters
<1>2. QED
  BY <1>1, RestingOK, RoutingParts DEF RoutingInit

\* A pass that changes alone.
LEMMA PassChanges ==
    ASSUME RoutingInv, NEW p \in DeliveryPasses, NEW job, NEW seen \in SUBSET RoleAgents,
           PassOK(job, seen), agentOf' = agentOf,
           delivery' = [delivery EXCEPT ![p] = job], sighted' = [sighted EXCEPT ![p] = seen],
           prompt' \in [PromptRoles -> {"none", "queued", "delivered"} \cup DeliveryPasses]
    PROVE  RoutingInv'
<1>0. /\ agentOf \in Rosters /\ delivery \in [DeliveryPasses -> Deliverers]
      /\ sighted \in [DeliveryPasses -> SUBSET RoleAgents]
      /\ \A q \in DeliveryPasses : PassOK(delivery[q], sighted[q])
  BY RoutingParts
<1>1. /\ delivery' \in [DeliveryPasses -> Deliverers] /\ agentOf' \in Rosters
      /\ sighted' \in [DeliveryPasses -> SUBSET RoleAgents]
  BY <1>0 DEF PassOK
<1>2. \A q \in DeliveryPasses : PassOK(delivery'[q], sighted'[q])
  BY <1>0
<1>3. RoutingTypeOK'
  BY <1>1 DEF RoutingTypeOK, Deliverers
<1>4. RosterWasSeen' /\ HeardByTarget'
  BY <1>2 DEF RosterWasSeen, HeardByTarget, PassOK, Target
<1>5. QED
  BY <1>3, <1>4 DEF RoutingInv

\* The steps of a pass that leave what it has seen alone.
LEMMA PassGoesOn ==
    ASSUME RoutingInv, NEW p \in DeliveryPasses, NEW job, PassOK(job, sighted[p]),
           agentOf' = agentOf, delivery' = [delivery EXCEPT ![p] = job], sighted' = sighted,
           prompt' \in [PromptRoles -> {"none", "queued", "delivered"} \cup DeliveryPasses]
    PROVE  RoutingInv'
<1>1. sighted \in [DeliveryPasses -> SUBSET RoleAgents]
  BY RoutingParts
<1>2. sighted[p] \in SUBSET RoleAgents /\ sighted' = [sighted EXCEPT ![p] = sighted[p]]
  BY <1>1
<1>3. QED
  BY <1>2, PassChanges

\* The pass ends, whichever way.
LEMMA PassRests ==
    ASSUME RoutingInv, NEW p \in DeliveryPasses, agentOf' = agentOf, prompt' = prompt,
           delivery' = [delivery EXCEPT ![p] = Resting], sighted' = [sighted EXCEPT ![p] = {}]
    PROVE  RoutingInv'
<1>1. /\ prompt \in [PromptRoles -> {"none", "queued", "delivered"} \cup DeliveryPasses]
      /\ {} \in SUBSET RoleAgents
  BY RoutingParts
<1>2. PassOK(Resting, {})
  BY RestingOK
<1>3. QED
  BY <1>1, <1>2, PassChanges

LEMMA BeginRoutingStep ==
    ASSUME RoutingInv, NEW p \in DeliveryPasses, BeginRouting(p)
    PROVE  RoutingInv'
<1> DEFINE job == [Resting EXCEPT !.pc = "claiming", !.roster = agentOf]
           seen == {ra \in RoleAgents : agentOf[ra[1]] = ra[2]}
<1>1. /\ agentOf \in Rosters /\ Resting \in Deliverers
      /\ prompt \in [PromptRoles -> {"none", "queued", "delivered"} \cup DeliveryPasses]
  BY RoutingParts, RestingOK
<1>2. job \in Deliverers /\ job.pc = "claiming" /\ job.roster = agentOf /\ job.to = NoAgent
  BY <1>1 DEF Deliverers, Resting
<1>3. ASSUME NEW r \in PromptRoles, agentOf[r] # NoAgent PROVE <<r, agentOf[r]>> \in seen
  BY <1>1, <1>3 DEF Rosters, RoleAgents
<1>4. seen \in SUBSET RoleAgents
  OBVIOUS
<1>5. /\ delivery' = [delivery EXCEPT ![p] = job] /\ sighted' = [sighted EXCEPT ![p] = seen]
      /\ UNCHANGED <<agentOf, prompt>>
  BY DEF BeginRouting
<1> HIDE DEF job, seen
<1>6. PassOK(job, seen)
  BY <1>2, <1>3 DEF PassOK
<1>7. QED
  BY <1>1, <1>4, <1>5, <1>6, PassChanges

LEMMA ClaimPromptStep ==
    ASSUME RoutingInv, NEW p \in DeliveryPasses, NEW r \in PromptRoles, ClaimPrompt(p, r)
    PROVE  RoutingInv'
<1> DEFINE old == delivery[p]
           job == [old EXCEPT !.pc = "prompting", !.role = r, !.claims = old.claims + 1]
<1>1. /\ old \in Deliverers /\ PassOK(old, sighted[p])
      /\ prompt \in [PromptRoles -> {"none", "queued", "delivered"} \cup DeliveryPasses]
  BY RoutingParts
<1>2. old.pc = "claiming" /\ old.claims < EffectBudget /\ old.claims + 1 \in 0 .. EffectBudget
  BY <1>1, RoutingAssumption DEF ClaimPrompt, WithinBudget, Deliverers
<1>3. delivery' = [delivery EXCEPT ![p] = job] /\ sighted' = sighted /\ agentOf' = agentOf
      /\ prompt' = [prompt EXCEPT ![r] = p]
  BY DEF ClaimPrompt
<1>4. /\ job \in Deliverers /\ job.pc = "prompting" /\ job.roster = old.roster
      /\ job.role = r /\ job.to = old.to
  BY <1>1, <1>2 DEF Deliverers
<1> HIDE DEF job, old
<1>5. PassOK(job, sighted[p])
  BY <1>1, <1>2, <1>4 DEF PassOK
<1>6. QED
  BY <1>1, <1>3, <1>5, PassGoesOn

LEMMA SendPromptStep ==
    ASSUME RoutingInv, NEW p \in DeliveryPasses, NEW heard \in BOOLEAN, SendPrompt(p, heard)
    PROVE  RoutingInv'
<1> DEFINE old == delivery[p]
           a == Target(p, old.role)
           job == [old EXCEPT !.pc = "reporting", !.to = IF heard THEN a ELSE NoAgent]
<1>1. /\ old \in Deliverers /\ PassOK(old, sighted[p])
      /\ prompt \in [PromptRoles -> {"none", "queued", "delivered"} \cup DeliveryPasses]
  BY RoutingParts
<1>2. /\ old.pc = "prompting" /\ delivery' = [delivery EXCEPT ![p] = job]
      /\ sighted' = sighted /\ agentOf' = agentOf /\ prompt' = prompt
  BY DEF SendPrompt
<1>3. old.role \in PromptRoles /\ a = old.roster[Kind[old.role]]
  BY <1>1, <1>2 DEF PassOK, Target
<1>4. a \in AllAgents \cup {NoAgent}
  BY <1>1, <1>3, RoutingAssumption DEF Deliverers, Rosters
<1> HIDE DEF a
<1>5. /\ job \in Deliverers /\ job.pc = "reporting" /\ job.roster = old.roster
      /\ job.role = old.role /\ job.to \in {a, NoAgent}
  BY <1>1, <1>4 DEF Deliverers
<1> HIDE DEF job, old
<1>6. PassOK(job, sighted[p])
  BY <1>1, <1>2, <1>3, <1>5 DEF PassOK
<1>7. QED
  BY <1>1, <1>2, <1>6, PassGoesOn

LEMMA ReportPromptStep ==
    ASSUME RoutingInv, NEW p \in DeliveryPasses, ReportPrompt(p)
    PROVE  RoutingInv'
<1> DEFINE old == delivery[p]
           job == NextRound(p)
<1>1. /\ old \in Deliverers /\ PassOK(old, sighted[p])
      /\ prompt \in [PromptRoles -> {"none", "queued", "delivered"} \cup DeliveryPasses]
  BY RoutingParts
<1>2. /\ old.pc = "reporting" /\ delivery' = [delivery EXCEPT ![p] = job]
      /\ sighted' = sighted /\ agentOf' = agentOf
      /\ \E s \in {"delivered", "queued"} : prompt' = [prompt EXCEPT ![old.role] = s]
  BY DEF ReportPrompt
<1>3. /\ job \in Deliverers /\ job.pc = "claiming" /\ job.roster = old.roster
      /\ job.to = NoAgent
  BY <1>1 DEF Deliverers, NextRound
<1> HIDE DEF job, old
<1>4. PassOK(job, sighted[p])
  BY <1>1, <1>2, <1>3 DEF PassOK
<1>5. prompt' \in [PromptRoles -> {"none", "queued", "delivered"} \cup DeliveryPasses]
  BY <1>1, <1>2
<1>6. QED
  BY <1>1, <1>2, <1>4, <1>5, PassGoesOn

\* A role gets an agent while passes are under way.
LEMMA GiveAgentStep ==
    ASSUME RoutingInv, NEW r \in PromptRoles, NEW a \in AgentsOf[r], GiveAgent(r, a)
    PROVE  RoutingInv'
<1>1. /\ agentOf \in Rosters /\ delivery \in [DeliveryPasses -> Deliverers]
      /\ prompt \in [PromptRoles -> {"none", "queued", "delivered"} \cup DeliveryPasses]
      /\ sighted \in [DeliveryPasses -> SUBSET RoleAgents]
      /\ \A q \in DeliveryPasses : PassOK(delivery[q], sighted[q])
  BY RoutingParts
<1>2. a \in AllAgents /\ <<r, a>> \in RoleAgents
  BY DEF AllAgents, RoleAgents
<1>3. /\ agentOf' = [agentOf EXCEPT ![r] = a] /\ delivery' = delivery /\ prompt' = prompt
      /\ sighted' = [p \in DeliveryPasses |->
                        IF delivery[p].pc = "resting" THEN {} ELSE sighted[p] \cup {<<r, a>>}]
  BY DEF GiveAgent
<1>4. agentOf' \in Rosters /\ sighted' \in [DeliveryPasses -> SUBSET RoleAgents]
  BY <1>1, <1>2, <1>3 DEF Rosters
<1>5. RoutingTypeOK'
  BY <1>1, <1>3, <1>4 DEF RoutingTypeOK, Deliverers
<1>6. \A p \in DeliveryPasses : delivery[p].pc # "resting" => sighted[p] \subseteq sighted'[p]
  BY <1>3
<1>7. RosterWasSeen'
  BY <1>1, <1>3, <1>6 DEF RosterWasSeen, PassOK
<1>8. HeardByTarget'
  BY <1>3 DEF RoutingInv, HeardByTarget, Target
<1>9. QED
  BY <1>5, <1>7, <1>8 DEF RoutingInv

LEMMA RoutingStepOK == RoutingInv /\ [RoutingNext]_routingVars => RoutingInv'
<1> SUFFICES ASSUME RoutingInv, [RoutingNext]_routingVars PROVE RoutingInv'
  OBVIOUS
<1>0. /\ agentOf \in Rosters
      /\ prompt \in [PromptRoles -> {"none", "queued", "delivered"} \cup DeliveryPasses]
  BY RoutingParts
\* What leaves the passes and what they have seen alone.
<1>1. ASSUME delivery' = delivery, sighted' = sighted, agentOf' \in Rosters,
             prompt' \in [PromptRoles -> {"none", "queued", "delivered"} \cup DeliveryPasses]
      PROVE  RoutingInv'
  BY <1>1 DEF RoutingInv, RoutingTypeOK, RosterWasSeen, HeardByTarget, Target
<1>2. ASSUME NEW r \in PromptRoles, AskRole(r) \/ TakeAgent(r) \/ RequeuePrompt(r)
      PROVE  RoutingInv'
  <2>1. CASE AskRole(r) \/ RequeuePrompt(r)
    BY <1>0, <1>1, <2>1 DEF AskRole, RequeuePrompt
  <2>2. CASE TakeAgent(r)
    <3>1. agentOf' \in Rosters
      BY <1>0, <2>2 DEF TakeAgent, Rosters
    <3>2. QED
      BY <1>0, <1>1, <2>2, <3>1 DEF TakeAgent
  <2>3. QED
    BY <1>2, <2>1, <2>2
<1>3. ASSUME NEW p \in DeliveryPasses, RefusePrompt(p) \/ EndRouting(p) \/ DropRouting(p)
      PROVE  RoutingInv'
  BY <1>3, PassRests DEF RefusePrompt, EndRouting, DropRouting
<1>4. CASE UNCHANGED routingVars
  BY <1>0, <1>1, <1>4 DEF routingVars
<1>5. QED
  BY <1>2, <1>3, <1>4, GiveAgentStep, BeginRoutingStep, ClaimPromptStep, SendPromptStep,
     ReportPromptStep DEF RoutingNext, RoutingStep

LEMMA RoutingMeans == RoutingInv => RoutingTypeOK /\ PromptsAreRecent
<1> SUFFICES ASSUME RoutingInv, NEW p \in DeliveryPasses, delivery[p].to # NoAgent
             PROVE  <<Kind[delivery[p].role], delivery[p].to>> \in sighted[p]
  BY DEF RoutingInv, PromptsAreRecent
<1>1. /\ delivery[p].pc = "reporting" /\ delivery[p].role \in PromptRoles
      /\ delivery[p].to = delivery[p].roster[Kind[delivery[p].role]]
  BY DEF RoutingInv, HeardByTarget, Target
<1>2. Kind[delivery[p].role] \in PromptRoles
  BY <1>1, RoutingAssumption
<1>3. QED
  BY <1>1, <1>2 DEF RoutingInv, RosterWasSeen

\* However agents come and go under a pass, a prompt is heard only by an agent that
\* its kind of role was recorded with since the pass began (read_runtime_roles,
\* AgentProviderAdapter).
THEOREM PromptsStayRecent == RoutingSpec => [](RoutingTypeOK /\ PromptsAreRecent)
BY RoutingStart, RoutingStepOK, RoutingMeans, PTL DEF RoutingSpec

\* What a pass may become: it rests, or goes on with fewer steps left.
RunsDown(old, job) ==
    /\ StepsLeft(job) < StepsLeft(old)
    /\ job.pc # "resting" => job.roster = old.roster

LEMMA StepsCounted ==
    ASSUME NEW job \in Deliverers
    PROVE  /\ StepsLeft(job) \in Nat
           /\ job.pc = "resting" => StepsLeft(job) = 0
           /\ job.pc = "claiming" => StepsLeft(job) = 3 * (EffectBudget - job.claims) + 1
           /\ job.pc = "reporting" => StepsLeft(job) = 3 * (EffectBudget - job.claims) + 2
           /\ job.pc = "prompting" => StepsLeft(job) = 3 * (EffectBudget - job.claims) + 3
           /\ job.pc # "resting" => StepsLeft(job) > 0
<1>1. /\ job.claims \in Nat /\ EffectBudget \in Nat /\ job.claims <= EffectBudget
      /\ job.pc \in {"resting", "claiming", "prompting", "reporting"}
  BY RoutingAssumption DEF Deliverers
<1>2. CASE job.pc = "resting"
  BY <1>2 DEF StepsLeft
<1>3. CASE job.pc = "claiming"
  BY <1>1, <1>3 DEF StepsLeft
<1>4. CASE job.pc = "reporting"
  BY <1>1, <1>4 DEF StepsLeft
<1>5. CASE job.pc = "prompting"
  BY <1>1, <1>5 DEF StepsLeft
<1>6. QED
  BY <1>1, <1>2, <1>3, <1>4, <1>5

LEMMA PassStepsDown ==
    ASSUME RoutingInv, RoutingNext, NEW p \in DeliveryPasses,
           delivery[p].pc # "resting", delivery'[p] # delivery[p]
    PROVE  RunsDown(delivery[p], delivery'[p])
<1> DEFINE old == delivery[p]
           Goal == RunsDown(old, delivery'[p])
<1>0. /\ old \in Deliverers /\ delivery \in [DeliveryPasses -> Deliverers]
      /\ old.claims \in Nat /\ EffectBudget \in Nat
  BY RoutingParts, RoutingAssumption DEF Deliverers
<1>1. ASSUME NEW q \in DeliveryPasses, NEW job, delivery' = [delivery EXCEPT ![q] = job]
      PROVE  q = p /\ delivery'[p] = job
  BY <1>0, <1>1
<1>2. ASSUME NEW q \in DeliveryPasses, RefusePrompt(q) \/ EndRouting(q) \/ DropRouting(q)
      PROVE  Goal
  <2>1. delivery'[p] = Resting
    BY <1>1, <1>2 DEF RefusePrompt, EndRouting, DropRouting
  <2>2. StepsLeft(Resting) = 0 /\ Resting.pc = "resting"
    BY RestingOK, StepsCounted DEF Resting
  <2>3. QED
    BY <1>0, <2>1, <2>2, StepsCounted DEF RunsDown
<1>3. ASSUME NEW q \in DeliveryPasses, BeginRouting(q) PROVE Goal
  BY <1>1, <1>3 DEF BeginRouting
<1>4. ASSUME NEW q \in DeliveryPasses, NEW r \in PromptRoles, ClaimPrompt(q, r) PROVE Goal
  <2> DEFINE job == [old EXCEPT !.pc = "prompting", !.role = r, !.claims = old.claims + 1]
  <2>1. q = p
    BY <1>1, <1>4 DEF ClaimPrompt
  <2>2. delivery' = [delivery EXCEPT ![p] = job] /\ old.pc = "claiming"
        /\ old.claims < EffectBudget
    BY <1>4, <2>1 DEF ClaimPrompt, WithinBudget
  <2>3. /\ job \in Deliverers /\ job.pc = "prompting" /\ job.claims = old.claims + 1
        /\ job.roster = old.roster
    <3>1. old.claims + 1 \in 0 .. EffectBudget
      BY <1>0, <2>2
    <3>2. QED
      BY <1>0, <3>1 DEF Deliverers
  <2> HIDE DEF job
  <2>4. StepsLeft(job) < StepsLeft(old)
    <3>1. /\ StepsLeft(job) = 3 * (EffectBudget - (old.claims + 1)) + 3
          /\ StepsLeft(old) = 3 * (EffectBudget - old.claims) + 1
      BY <1>0, <2>2, <2>3, StepsCounted
    <3>2. QED
      BY <1>0, <3>1
  <2>5. QED
    BY <1>1, <2>2, <2>3, <2>4 DEF RunsDown
<1>5. ASSUME NEW q \in DeliveryPasses, NEW heard \in BOOLEAN, SendPrompt(q, heard) PROVE Goal
  <2> DEFINE a == IF heard THEN Target(p, old.role) ELSE NoAgent
             job == [old EXCEPT !.pc = "reporting", !.to = a]
  <2>1. q = p
    BY <1>1, <1>5 DEF SendPrompt
  <2>2. delivery' = [delivery EXCEPT ![p] = job] /\ old.pc = "prompting"
    BY <1>5, <2>1 DEF SendPrompt
  <2> HIDE DEF a
  <2>3. job.pc = "reporting" /\ job.claims = old.claims /\ job.roster = old.roster
    BY <1>0 DEF Deliverers
  <2>4. job \in Deliverers
    BY <1>0, <1>5, <2>1, <2>2, SendPromptStep, RoutingParts DEF RoutingInv, RoutingTypeOK, Deliverers
  <2> HIDE DEF job
  <2>5. StepsLeft(job) < StepsLeft(old)
    <3>1. /\ StepsLeft(job) = 3 * (EffectBudget - old.claims) + 2
          /\ StepsLeft(old) = 3 * (EffectBudget - old.claims) + 3
      BY <1>0, <2>2, <2>3, <2>4, StepsCounted
    <3>2. QED
      BY <1>0, <3>1
  <2>6. QED
    BY <1>1, <2>2, <2>3, <2>5 DEF RunsDown
<1>6. ASSUME NEW q \in DeliveryPasses, ReportPrompt(q) PROVE Goal
  <2> DEFINE job == NextRound(p)
  <2>1. q = p
    BY <1>1, <1>6 DEF ReportPrompt
  <2>2. delivery' = [delivery EXCEPT ![p] = job] /\ old.pc = "reporting"
    BY <1>6, <2>1 DEF ReportPrompt
  <2>3. /\ job \in Deliverers /\ job.pc = "claiming" /\ job.claims = old.claims
        /\ job.roster = old.roster
    BY <1>0 DEF NextRound, Deliverers
  <2> HIDE DEF job
  <2>4. StepsLeft(job) < StepsLeft(old)
    <3>1. /\ StepsLeft(job) = 3 * (EffectBudget - old.claims) + 1
          /\ StepsLeft(old) = 3 * (EffectBudget - old.claims) + 2
      BY <1>0, <2>2, <2>3, StepsCounted
    <3>2. QED
      BY <1>0, <3>1
  <2>5. QED
    BY <1>1, <2>2, <2>3, <2>4 DEF RunsDown
<1>7. ASSUME NEW r \in PromptRoles,
             \/ AskRole(r) \/ TakeAgent(r) \/ RequeuePrompt(r)
             \/ \E a \in AgentsOf[r] : GiveAgent(r, a)
      PROVE  Goal
  BY <1>7 DEF AskRole, TakeAgent, RequeuePrompt, GiveAgent
<1> HIDE DEF Goal
<1>8. Goal
  BY <1>2, <1>3, <1>4, <1>5, <1>6, <1>7 DEF RoutingNext, RoutingStep
<1>9. QED
  BY <1>8 DEF Goal

\* A pass works with the agents it read when it began and comes nearer to its end with
\* every step, however its claims are lost and requeued: the safety half of the
\* argument that agents without a role are left alone (drive_with_executor).
THEOREM PassesEndInBudget == RoutingSpec => PassesRunDown
<1> DEFINE Down == \A p \in DeliveryPasses :
          delivery[p].pc # "resting" /\ delivery'[p] # delivery[p] =>
              /\ StepsLeft(delivery'[p]) < StepsLeft(delivery[p])
              /\ delivery'[p].pc # "resting" => delivery'[p].roster = delivery[p].roster
<1>1. RoutingInv /\ [RoutingNext]_routingVars => [Down]_routingVars
  BY PassStepsDown DEF RunsDown
<1>2. QED
  BY <1>1, RoutingStart, RoutingStepOK, PTL DEF RoutingSpec, PassesRunDown

-----------------------------------------------------------------------------
\* The three modules side by side.

\* A step of one module changes none of the others' variables.
LEMMA ConsoleSteps ==
    [ConsoleNext]_consoleVars =>
        /\ [DaemonNext]_daemonVars /\ [ControlNext]_controlVars /\ [RoutingNext]_routingVars
BY DEF ConsoleNext, consoleVars, DaemonMoves, ControlMoves, RoutingMoves

LEMMA ConsoleAlways == ConsoleSpec => [](DaemonInv /\ ControlInv /\ RoutingInv)
<1>1. ConsoleInit => DaemonInv /\ ControlInv /\ RoutingInv
  BY DaemonStart, ControlStart, RoutingStart DEF ConsoleInit
<1>2. DaemonInv /\ ControlInv /\ RoutingInv /\ [ConsoleNext]_consoleVars
        => (DaemonInv /\ ControlInv /\ RoutingInv)'
  BY ConsoleSteps, DaemonInvStep, ControlStep, RoutingStepOK
<1>3. QED
  BY <1>1, <1>2, PTL DEF ConsoleSpec

\* Every variable of the three keeps its type, for any constants.
THEOREM ConsoleIsTyped == ConsoleSpec => []ConsoleTypeOK
<1>1. DaemonInv /\ ControlInv /\ RoutingInv => ConsoleTypeOK
  BY RoutingMeans DEF ConsoleTypeOK, DaemonInv, ControlInv, ScreenInv, OwnershipInv, TablesOK,
                      AppTypeOK, IntentTypeOK, ControlTypeOK
<1>2. QED
  BY <1>1, ConsoleAlways, PTL

\* Every safety property the run over MCConsole checks holds for any constants: one
\* daemon serves, deleted missions stay gone, open workspaces are somebody's, prompts
\* go to present agents, and what is deleted or sent to is what was shown.
THEOREM ConsoleIsSafe ==
    ConsoleSpec =>
        /\ [](/\ OneDaemonServes /\ DeletedLeaveNothing
              /\ WorkspacesAreOwned /\ PromptsAreRecent)
        /\ ActsOnTheShown
<1>1. DaemonInv /\ ControlInv /\ RoutingInv =>
        OneDaemonServes /\ DeletedLeaveNothing /\ WorkspacesAreOwned /\ PromptsAreRecent
  <2>1. DaemonInv => OneDaemonServes
    BY DEF DaemonInv, HoldersOwnTheFile, OneDaemonServes, Holding
  <2>2. ControlInv => DeletedLeaveNothing /\ WorkspacesAreOwned
    BY DEF ControlInv, OwnershipInv
  <2>3. QED
    BY <2>1, <2>2, RoutingMeans
<1>2. ConsoleSpec => ActsOnTheShown
  <2>1. ControlInv /\ [ControlNext]_controlVars =>
           [DoSend \/ DoDelete =>
               worker'[Console].mission \in {0, intent.mission} \/ intent.changed]_controlVars
    BY ShownStep
  <2>2. QED
    BY <2>1, ConsoleSteps, ConsoleAlways, PTL DEF ConsoleSpec, ActsOnTheShown
<1>3. QED
  BY <1>1, <1>2, ConsoleAlways, PTL
=============================================================================
