# TLA+ models of herdr-mission

herdr-mission coordinates a team of coding agents (PM, worker, reviewer, any
number of scouts) that work on a *mission*. Commands, replies and events enter
through a kernel that decides on them; an SQLite database keeps what was
decided; delivery passes carry prompts to the agents through `herdr agent prompt`.
This directory holds TLA+ modules of that core, TLC configurations that check
them, and proofs of their most important properties.

## 1. Inventory

| Component | Source | State | Operations | Correct when |
|---|---|---|---|---|
| Kernel reducer | `domain.rs` | assignments, messages, ledger, pending effects, role generations, tool jobs | `apply_handle`: command, reply, team event, effect result, role observation, tool job | one active assignment per role, a task's chain of reviews and fixes advances round by round and ends in a verdict, finished assignments are final |
| Durable store | `store.rs` | the same as tables, plus `outbox` claims, `processed_events`, `role_launch_leases` | `handle_mission` (one transaction per input), `claim_effect` | implements the reducer whatever passes, crashes and replacements do in between; claims are exclusive and released |
| Effect driver | `domain.rs` (`drive_with_executor`), `effects.rs` | one delivery pass: its claim, the generation it captured, the outcome it holds | claim, execute, report, loop | only the rightful claimant resolves a row |
| Front-end | `coordination.rs` | none of its own | `kernel_dispatch_command`, `kernel_reply_command`, `kernel_deliver`, `kernel_reconcile` | commands carry the roles' current generations; every mission with queued rows is served |
| Daemon | `daemon.rs` | lock file with a pid, stop marker | `run_daemon`, `DaemonLock::acquire`, `is_stale_lock`, `Drop` | one daemon serves at a time; every mission with queued rows is reached |
| Peer relay | `peer.rs` | outbound queue with claims, inbox, notifications | queue, claim, deliver over SSH, receive, acknowledge, notify | at-least-once sending, each message in the inbox once |
| Role runtime and creation | `creation.rs` | `team_missions`, `team_roles` (pane, agent, generation, health), fences in `role_launch_leases` | create and delete a mission, record a pane or a runtime, replace (stage, finalize, fence), reconcile health | an agent of a role is found where the role is recorded; a fence is for good; a deletion leaves nothing behind |
| Launch orchestration | `runtime.rs`, `workspace.rs` | the workspace row, and the workspaces, tabs, panes and agents that Herdr holds | `launch_mission`, `start_role`, `ensure_agent_running`, `ensure_mission_workspace`, `ensure_stage_tabs` | a run that stopped halfway is taken up where it stopped, and two runs at once do not mix up regions |
| Role-launch leases, observations | `store.rs`, `domain.rs` | leases with owner, generation, expiry | request, observe, release | only the lease holder reports the role's state |
| Tool jobs | `store.rs`, `domain.rs` | job states, transition keys | request, started, completed, cancel | an accepted cancellation stands, a job never goes back |
| Control center | `tui.rs` | a copy of the mission list, a position in it, one job at a time | keys, tick, job thread | a command acts on the mission the user was shown; keys are taken again after every job |
| Command line | `cli.rs` | none | `new`, `resume`, `delete`, `start-role`, `join`, `reconcile`, `daemon`, `stop`, ... | each is a process of the modules below |
| Others | `adapters.rs`, `bootstrap.rs`, `config.rs`, `herdr.rs`, `installer.rs`, `keybinding.rs`, `log.rs`, `manifest.rs`, `prompt.rs`, `protocol.rs`, `scaffold_cli.rs` | files or nothing | parsing, formatting, one-off setup | no concurrent protocol of their own |

How they interact: CLI processes and the daemon are separate processes that
share the database only. A `send` or `reply` runs one kernel transaction and then
a delivery pass of its own; the daemon runs passes in a loop. Several passes are
therefore under way at the same time, and the process call that delivers a prompt
lies *between* two transactions of a pass. Launches alternate in the same way between
transactions and calls of Herdr, whose panes and agents change by themselves; the
control center, shells and the daemon create, launch, serve and delete missions side by
side.

Hard behaviours: leases that expire under a slow prompt; replies that arrive
before the delivery they answer has been reported; role replacement between claim
and report; drivers that die anywhere; backoff and ordering of rows; settled
events (an agent's turn ended without a reply); follow-ups that do not ask for
capacity; launches of one role that cross; splits whose answer is lost; a lock file that is
exchanged between a look and its removal; a list that is older than what it lists.
`PROJECT.json` lists every hazard at its line.

## 2. Modules

| Module | Models | Role |
|---|---|---|
| `MissionReducer` | the assignment life cycle in `domain.rs` | the abstract specification: what the system promises about assignments |
| `MissionStore` | the tables and the delivery passes (`store.rs`, `drive_with_executor`, `AgentProviderAdapter`, `kernel_deliver`) | the detailed specification; `R == INSTANCE MissionReducer`, and `ReducerSpec == R!Spec` is a property and a theorem |
| `PeerMailbox` | what `peer.rs` promises the PMs: messages sent, in the inbox, handled, confirmed | abstract specification |
| `PeerRelay` | the table `mission_peer_messages` of every host, the relay passes, SSH and the receiver (`peer.rs`, the peer commands of `cli.rs`, `run_daemon`) | detailed specification; `Mailbox == INSTANCE PeerMailbox`, and `MailboxSpec == Mailbox!Spec` is a property and a theorem |
| `RoleRuntime` | `team_roles`, `role_launch_leases`, panes and agents: `creation.rs`, the role part of `runtime.rs`, the launch inputs of `store.rs`, `join` and `reconcile` | who launches a role and where its agent is |
| `Regions` | the workspace of a mission and its three tabs (`runtime.rs`, `workspace.rs`) | what `launch_mission` does before it comes to the roles |
| `ToolJobs` | the life of a tool job (`domain.rs`, `store.rs`) | |
| `DeliveryDaemon` | lock file, stop marker and the order of missions (`daemon.rs`, `kernel_deliver`) | what happens around the passes of `MissionStore` |
| `ControlCenter` | missions, their workspaces, the control center and the shells (`tui.rs`, `creation.rs`, `cli.rs`) | what happens around the launches |
| `PromptRouting` | the roles and agents of a delivery pass (`read_runtime_roles`, `AgentProviderAdapter`) | which agent hears a prompt |
| `MCMissionReducer`, `MCMissionStore`, `MCPeerRelay`, `MCPromptRouting`, `MCLaunch`, `MCConsole` | — | instances for TLC; the last two put modules side by side |
| `MissionReducer_proofs`, `MissionStore_proofs`, `PeerRelay_proofs`, `RoleRuntime_proofs`, `Regions_proofs`, `ControlCenter_proofs` | — | theorems for TLAPS about the module of that name |
| `MCLaunch_proofs`, `MCConsole_proofs` | — | theorems about `ToolJobs`, `DeliveryDaemon` and `PromptRouting`, and about what `MCLaunch` and `MCConsole` put side by side |

### MissionReducer

`asg[a]` is a row of table `assignments` with, as `last`, the kind of the last
ledger entry its owner made for it; `nextAsg` stands for the supply of fresh
identifiers. One action per committed transition: `Dispatch` (PM command),
`Activate` (a delivery succeeded), `Reply` (with the follow-up assignment it
creates) and `Block` (the settled event). Inputs the reducer rejects or answers
as duplicates are stuttering. Texts, revisions and timestamps are left out.

A parentless review is refused by the front-end
(`kernel_dispatch_command`, `review_parent_required`), so the PM dispatches tasks and
fixes only, and reviews come from completions.

### MissionStore

One action per SQLite transaction or process call.

| Action | Code |
|---|---|
| `Dispatch`, `Context` | `persist_assignment_command`, `persist_context_command` with `persist_effect_generations` |
| `Reply` | `persist_reply_command`: assignment, closing of its deliveries, follow-up, notices, generations |
| `Settle` (`SettleIgnored`, `SettleResumed`, `SettleBlocked`) | `persist_assignment_settled_event` |
| `ReplaceRole` | the new generation `stage_role_runtime_replacement` writes |
| `BeginPass`, `EndPass` | the head and the loop condition of `drive_with_executor` |
| `Claim`, `ClaimNothing` | `claim_effect`: reclaim expired claims, pick the oldest claimable row, claim it |
| `Execute` | `herdr agent prompt`, with its three outcomes |
| `ReportDelivered`, `ReportDeferred`, `ReportRefused` | `handle` of the effect result: authority check, `persist_effect_result`, roll-back |
| `Crash` | the process dies, or gives up on a busy database |
| `Tick` | time |

Time. A row's `age` is the distance from `claimed_at` to now, in ticks, negative
while `claimed_at` lies in the future (backoff). A pass reads the clock *once*
(`claimed_at_ms` of the request), so everything it compares is as old as the pass
itself: a claim made late in a pass starts with `drv[d].age`, and a pass reclaims
what is `drv[d].age + Lease` old. `Age` stops at `Long`, past every threshold.

Order. Rows are claimed by `created_at, id`; ids are random, so rows of one
transaction (same `batch`) come in any order.

`Restorable` is the condition under which the store can rebuild the reducer; every
kernel input but a settled event needs it.

What the module leaves out: `effect_budget` (100 rows per pass, more than any
instance has); the status "failed", which no outcome of the prompt adapter leads
to; health and pane data of a role; text. The event and command identifiers that
make an input idempotent are fresh for every command; for settled events, whose
key is built from role and sequence number, `settledSeqs` keeps them.

### PeerMailbox and PeerRelay

A host is one database; `Home` says where each mission lives, and a message whose
missions share a host is `Local`. `tbl[h][m]` is the row of message `m` at host `h`, so a
remote message has up to two rows: the sender's (`outbound`) and the receiver's
(`inbound`). The refinement mapping reads the mailbox off these rows.

| Action | Code |
|---|---|
| `StartPM` | the PM's terminal, pane and launch generation, which `require_mission_pm` and `notify_peer_inboxes` ask for |
| `Queue` | `queue_peer_message` |
| `Handle` | `acknowledge_peer_message` |
| `UpsertRoute` | `upsert_peer_route` |
| `BeginDelivery`, `BeginNotices` | `reconcile_peer_relay` of the daemon, `peer deliver`, `peer send`; `peer receive` and a local `peer send` |
| `Claim`, `ClaimNothing` | `claim_next_outbound`: take back expired claims, claim the oldest due row |
| `Deliver`, `Return` | the SSH call: `receive_peer_envelope` at the other host; its answer in time |
| `GiveUp`, `ArriveLate` | a failed or killed call, before or after the receiver committed; the envelope it left under way |
| `AcknowledgeOutbound`, `Release`, `ClaimLost` | the functions of these names (`release_peer_claim`, `peer_claim_lost`) |
| `ReadPending`, `Wake`, `WakeFailed`, `RecordNotified` | `notify_peer_inboxes`: the reading of the inboxes, one prompt per mission, its recording |
| `Crash` | a relay process dies, its claim stays |
| `Tick` | time |

Time is kept as distances: a row's `age` since it was claimed, its distance `due` from
`next_attempt_at`, the time a pass has spent in its phase. A call ends within
`SendTimeout` (`SSH_TOTAL_TIMEOUT`, 30 s), which is below `Lease` (`CLAIM_LEASE_MS`,
60 s); after it a pass may linger for `Slack` before it records the result, so that its
claim can expire. `born` stands for `created_at`, in whole seconds, so rows may tie.

Left out: the configuration of identities and peers (`configure_local_peer`,
`upsert_peer`), the shape, size and digest checks of envelopes, the counter and text that
a failed prompt leaves in a row. A message is a record with identifier, missions, body and
reference; the comparison of all columns with which a receiver tells a repetition from a
conflict is the comparison of these records.

### RoleRuntime

A launcher is one run of `launch_mission` (every role of the team in order) or of
`start_role` (one role, beside a pane its caller names); its `pc` is where it stands between
two transactions or Herdr calls. What it has read once at its beginning (`seen`) is kept
apart from the tables, which others change meanwhile.

| Action | Code |
|---|---|
| `Begin`, `Skip`, `Advance` | the head of a run, the roles that manual mode leaves to the PM, the loop over roles |
| `Reuse` | `reconcile_completed_role`: the agent of a completed role is still there and is given the role's name again |
| `Allocate`, `RecordPane` | `allocate_role_pane`, `record_role_pane` |
| `Resume` | a recorded pane whose launch did not complete is taken up again |
| `Replace`, `Stage`, `StageUncertain`, `StageLost`, `FenceUnstaged` | `stage_role_runtime_replacement`: the binding as expected, the split inside the transaction, the three ways its outcome can be lost, `fence_unstaged_role_runtime_replacement` |
| `StartAgent`, `FindBusy`, `Adopt`, `Await` | `ensure_agent_running`, `adopt_running_agent` |
| `RecordRuntime`, `Finalize` | `record_role_runtime` (unconditional), `finalize_role_runtime_replacement` (compare and swap) |
| `Join` | the command `join` |
| `ReadAgents`, `WriteHealth` | `reconcile_role_healths_with`, which lists the agents while it holds the write lock |
| `RequestLaunch`, `Observe`, `TermEnds` | `RoleLaunchRequest` (the generation rule of `domain.rs`, the lease rule of `store.rs`); `RoleObservation`, whose details may set the role's pane and agent; the expiry of a lease |
| `AgentChanges`, `PaneCloses`, `UserAgent`, `Fail` | Herdr and its user; a failed call or a dead process |

The history variable `strays` holds pairs of a role and a pane: the role was recorded with the pane and
then bound to another one by a write that does not look at what it replaces (`Rebinds`:
`record_role_pane`, `record_role_runtime`, an observation with a `pane_id`), or `join` has
named the pane's agent for the role. The code lets all of these happen, so a stray pane may run a second
agent of its role. `AgentsAreRecorded` says that this is the only way to one: a run
that stops anywhere, a lost answer, a replacement or a reconciliation makes no second agent, and
one launcher alone (`OneLauncher`), however often it fails and is run again, leaves no stray.

Left out: `updated_at`, a stamp of one second that is part of the compared binding, so that the
model's bindings are equal at least as often as the program's; `session_json`, also part of it, which an
observation may set (a staged replacement has none and no lease to observe under);
`mission_state.stage`; the message `join` sends to the PM; a scout's copy in `expert_instances`; `last_seen_rev`.

### Regions

A builder copies the row of `mission_workspace`, asks Herdr for what the copy lacks, and
writes the copy back whole after each step (`Save`, `SaveRow`), as `upsert_workspace` does.
`overlapped` remembers that two builders were under way at once: the code has no lock against it.
Left out: the branch for an older layout in which a region is a pane
(`find_unique_stage_pane`), and worktrees, which differ in the Herdr call only.

### ToolJobs

A report is a kernel input whose sender may repeat or delay it (`SendReport`, `TakeReport`);
a transition key that has been processed is a duplicate whatever the report says.

### DeliveryDaemon

Each file operation is a step. Two things the model shows of the code without calling them
wrong: a daemon that dies between creating the lock file and writing its pid leaves a file
that is never taken for stale, so no daemon starts again until somebody removes it; a stop
marker left by a `stop` without a daemon ends the next daemon at its first step. `seized`
remembers that a daemon removed a lock file that was not the stale one it had looked at.
Delivery inside a mission is one step here; the relay pass in between is taken to end, which
finding 3 denies.

### ControlCenter

`app` is the screen: the copy of the list, the position in it, the view, a confirmation that is
asked, a job that has not been polled. Each worker (the control center's job thread and the shells)
creates, launches or deletes one mission in several steps. `Tick` reads the list again after two
quiet seconds. It does so also while a confirmation is asked or a form is open; what is
then selected by its position may be another mission than the one the user was shown, and
`intent.changed` marks exactly that. `abandoned` holds the workspaces that a failed step, a dead process
or a deletion that crossed a launch lost sight of.

### PromptRouting

`MissionStore` has the claims and times of a pass and no agents; this module has the agents and leaves times
open: a lease may run out (`RequeuePrompt`) and a pass end at any moment. `agentOf` is the column
`terminal_id`; a process of `delivery` holds the roster it read when it began (`BeginRouting`), the
claims it has made of its budget, and the agent that heard its prompt (`to`). `Kind` is the bare
role under which the adapter looks up an instance.

## 3. Runs

| Run | Configuration | Checks | Shows |
|---|---|---|---|
| reducer | `MCMissionReducer.cfg` | `OneActivePerRole`, `OneOpenPerChain`, `RoundsAreComplete`, `StateMatchesLedger`, `TerminalIsFinal`, `ClosedChainHasVerdict` | the life cycle is right: capacity, chains, finality |
| deliveries | `MCDeliveries.cfg` | `DeliveryExclusive`, `StartedWasPrompted`, `DeliveryMatchesState`, `ClaimsEndByRight`, `ReducerSpec`, `TypeOK` | two passes, two tasks for one role, expiring leases, a crash, a replacement; replies and settled events around the deliveries of one task; a rejected review, its fix and all follow-ups |
| service | `MCService.cfg` | `RowsAreServed`, `ClaimsAreReleased` | a role that never starts does not starve the others; leases give back the claims of slow, dead or refused drivers |
| resumed | `MCResumed.cfg` | `ReportFindsQueued` (violated) | finding 1 below |
| blocked_notice | `MCBlockedNotice.cfg` | `PendingRowsHaveGeneration` (violated) | finding 2 below |
| relay | `MCRelay.cfg` | `OneSender`, `RepliesAreAcceptable`, `OnlyOwnerResolves`, `MailboxSpec`, `TypeOK` | a message, its answer and a message of the other host with the first one's identifier; two processes, claims that expire, lost receipts, late envelopes, a crash or a route that closes |
| relay_service | `MCRelayService.cfg` | `QueuedIsAcknowledged`, `RelayPassEnds` | one message to a host that cannot be reached delays neither another nor the daemon, also when the daemon dies |
| relay_notices | `MCRelayNotices.cfg` | `NotifiedWasAnnounced`, `InboxIsAnnounced` | messages that enter an inbox, or are handled, around the prompts of two processes |
| relay_endless | `MCRelayEndless.cfg` | `RelayPassEnds` (violated) | finding 3 below |
| launch | `MCLaunch.cfg` | `AgentsAreRecorded`, `HoldersAreCurrent`, `FencesStay`, `MissingIsNotNews`; `RegionsAreUnique`, `RegionsBelongTogether`; `CancellationStands`; `LaunchTypeOK` | launches of one role that race each other, a user's `join`, clients of the kernel that also rebind roles, closing panes and late agents; two builders of one workspace; reports about a tool job that cross |
| console | `MCConsole.cfg` | `OneDaemonServes`, `MissionsAreServed`; `DeletedLeaveNothing`, `WorkspacesAreOwned`, `ActsOnTheShown`, `JobsAreReported`; `PromptsAreRecent`, `FormerAgentsAreLeftAlone`; `ConsoleTypeOK` | daemons that contend for the lock, die and are stopped while missions wait and one is broken; the control center and a shell that create, launch and delete across each other; a pass that prompts while launches and joins change the agents: an agent that lost its role hears at most the rest of a pass |
| second_scout | `MCSecondScout.cfg` | `InstancesHearTheirOwn` (violated) | finding 4 below |

Bounds and why they suffice. Two passes are what a claim can be disputed between.
`Lease`, the backoffs and `TimeBudget` are one tick and `MaxPass` two, so that a
pass can outlast its budget and its lease (the code's budget and lease are equal,
60 s, and a prompt may take longer than either). Two attempts are enough for a row to be
retried and to run out of attempts. Two generations make one replacement. One crash
leaves one claim behind; expired leases make further ones of the passes that go on. The
reducer's run has two review rounds, so that a fix is rejected again and the limit is
reached, and six assignments, so that a whole chain and a second task meet.

`deliveries` is one state space of which three regions are explored (`CONSTRAINT InRegion`
in `MCMissionStore`): the whole instance is out of reach, and each region keeps what one
question is about at full size. `LeaseRegion` has every timing over two tasks, `ReplyRegion`
replies and settled events, `ReviewRegion` a whole review loop with one pass and no delays. TLC
checks every successor of a state of a region, also those that leave it. Passes are
symmetric and reduced so in this run only.

`launch` and `console` check modules that share no variable side by side: a variable `turn` keeps
the module that moves, so TLC visits the sum of their states and not the product, which would
show nothing more. In `launch` each initial mission names the processes that take part in it:
two launches of one role; a launch, `reconcile` and a joining user; a PM and a worker in either mode;
a launch beside a client of the kernel, with `reconcile` or with observations that name a pane; two such
clients, whose observations name the root pane or none (`told` bounds what they name). Clients launch the roles of the team. Three panes are the root pane, a
pane and its replacement; two generations make one replacement. Two builders with
two workspaces and four tabs let both create everything a workspace has, and one tab be
created twice. Three reports are a start, an end and a cancellation, of one job. In `console`,
three daemons are one that has died, one that found its lock stale and one that creates the
next; two missions are one that is broken and one behind it, and, for the control center, one
that is shown and one that takes its place.

For the prompts in `console`, one pass has a budget of three claims, so that it goes on after a prompt while the
roster it read is out of date; further passes would only take its claims, which `RequeuePrompt` does
at any moment. The scout has two agents, one after the other, and the second scout one.

The relay's safety run has the shortest times at which a claim still can expire under a
pass (a lease of one tick, which a pass may linger over its result), two processes, what a
claim can be disputed between, and one fault: a crash or a route change, whose directions
are bounded by `Upserted`. The conversation is a message and its answer, and a
message of the answering host that has the first one's identifier, so that either of two hosts can be
the first to use it and refuses the other's. A longer one is beyond the time limit. In `relay_service` a call takes up to one tick and the longest delay is two,
so one failing message leaves the pass time to end; in `relay_endless` there are three.

`CHECK_DEADLOCK FALSE` everywhere: a mission with nothing pending may stay as it is, and
a behaviour ends where its bounds are used up.

Fairness (`Fairness`, `ProviderFairness`). `run_daemon` starts a pass after every
interval whatever the last one returned, and `drive_with_executor` goes on until its
budget is used up: weak fairness of a pass's steps. Time passes whenever no pass is
overdue: strong fairness of `Tick`, since a slow pass blocks it for a while in the
model. Strong fairness of claiming says that a pass is not suspended for its whole 60 s
budget before its first claim each time, nor each time the claim of one row is next. `ProviderFairness` says that the
agent of a *responsive* role accepts a prompt that is tried again and again; nothing is
assumed about the other roles, which is the point of `RowsAreServed`. Rows that used up
their attempts, or wait for their role, are excepted, because the code gives up on the
former and holds the latter back on purpose. `RowsAreServed` itself assumes that calls are not slow for
ever: the model leaves the interval between passes open, and where every pass spends its budget on
one role and its backoff is over by the next, the others wait.

Of the relay: a pass goes on by itself, `run_daemon` starts another after every interval
(weak fairness of `PassStep` and of the daemon's `BeginDelivery`), time passes.
`TransportFairness` (external) says that of the calls to a *reachable* host one now and then
gets through, and one returns in time; `PromptFairness` (external) that of the prompts to a
started PM one is accepted. Nothing is assumed of the other hosts, of any process but the
daemon, or of the PMs' own actions. `QueuedIsAcknowledged` excepts messages whose route is
closed at either end.

Of a pass in `PromptRouting` (`RoutingFairness`): it goes on by itself, provided that Herdr's calls return.

Of the daemon (`DaemonFairness`): a process that is not killed keeps running, since its loop only
sleeps; nothing is assumed of when it dies or is stopped, and `MissionsAreServed` excepts the time in
which none serves and missions behind a broken one, where one error ends the round. Of the control
center (`ControlFairness`): the event loop polls its job, and the job's thread goes on. The latter assumes that
Herdr's calls return, because `SystemProcessRunner` has no timeout: a call that hangs leaves the
control center busy. Launches and tool jobs have no liveness property: nothing retries them.

## 4. Proofs

All theorems hold for every number of scouts, passes, rows, rounds, hosts, messages, roles,
launchers, panes, builders, jobs, daemons, shells, missions and agents and
every length of leases and backoffs, from the named assumptions on the constants
(`ScoutsAssumption`, `BoundsAssumption`, `ReducerAssumption`, `StoreBounds`,
`NobodyAssumption`; of `PeerRelay`, `ConstantsAssumption` and `BoundsAssumption`;
`RuntimeAssumption`, `RegionAssumption`, `JobAssumption`, `DaemonAssumption`,
`NoLockAssumption`, `ControlAssumption`, `RoutingAssumption`), which TLC evaluates in every run. The only relation between times that a proof needs is
`SendTimeout < Lease`.

`MissionReducer_proofs`
- `TypeCorrect`, `OneActive`, `LedgerAgrees`: inductive with `TypeOK` alone (whose run is `deliveries`,
  where it is part of the store's `TypeOK`); the
  interesting step is `Activate`, whose guard is the capacity check of the effect result,
  not that of the PM's command (follow-ups have none).
- `Finality`: every action's guard excludes terminal assignments.
- `OneOpen`: needs `ParentsExist` (a parent is an older assignment that exists) besides
  `OneOpenPerChain`, because a follow-up joins the chain of its root at the moment the
  assignment it follows leaves it.
- `RoundsComplete`, `ChainsEndInVerdicts`: from `RoundInv`. A place in a chain (role and round) is taken
  once (`PlacesDiffer`), and what is open comes last (`OpenIsLast`); so the follow-up that settling
  the last one creates has a new place, and nothing follows twice. `ChainsSpeak` says that some
  assignment of a chain is open or is its verdict; only a follow-up or a verdict ends the one that spoke.

`MissionStore_proofs`
- `TypeCorrect`: with `PassRows` (a pass that executes or reports has a row), since a
  report updates the row its pass holds.
- `Refinement`: `Spec => ReducerSpec`. Each step of the store is a step of the reducer or
  leaves `asg` and `nextAsg` alone. Dispatch, reply, block and a successful report map to
  the reducer's actions, everything else (claims, prompts, crashes, time, replacements,
  refused reports, resumption) to stuttering.
- `Exclusive`: with `DeliveryRows` (a delivery row belongs to an assignment that exists and
  is addressed to its role). A claim is granted
  only when no other queued assignment of the role is in flight and none is active; an
  activation turns the one in flight into the one active; a reclaim or a reply only takes
  rows out of flight.
- `DeliveriesMatch`, `ClaimsEnd`, `StartedPrompted`: from `AllTurn`, which says of every step what it may
  do to a delivery row and to an assignment (a row changes its status in six ways, each with its
  cause). `StartedPrompted` needs `PassesKnow` besides: what a pass reports as delivered was accepted by an agent.
- `ResumptionsOnly`: with `AnsweredRowsClosed` (the delivery of an answered assignment is closed) and
  `Exclusive`. Of the reasons for which a report could be refused, an answer that came first and a role
  that is busy are excluded; what remains is the resumption of finding 1.
- `LostClaims`: with `PassGenerations` (a pass carries a generation its role has had). A pass that no longer
  `Authorized` stays so: generations only grow (`GenerationsGrow`), and a row gets an owner only by a
  claim, which a carrying pass does not make (`OwnersClaim`).
- `RoundsSurvive`, `VerdictsSurvive`: the theorems of `MissionReducer_proofs`, instantiated with the store's tables
  (`RP`) and applied through `Refinement`. So everything that is proved of the reducer holds of the store, for
  passes, crashes and expired leases included.

`PeerRelay_proofs` proves every safety property of the relay. Its first part says of every
step that the table either `Evolves` (rows keep request and direction) or gets one new row,
which is queued (`Sends`) or comes from an envelope under way (`Enters`).
- `TypeCorrect`: with `PassHolds` (a pass that calls or resolves has an outbound row).
- `RepliesFindReference`: with `Placed` (which host holds which row of a message) and
  `SentFirst` (an inbound row or a late envelope has its outbound row). A reply is accepted
  for sending because its host holds the message it names; that row is inbound, so the
  other host has sent it, and rows are never lost.
- `Refinement`: `Spec => MailboxSpec`, with `ReceiptsAreTrue` besides (a pass with a receipt
  carries a message that has arrived). A new row is `Send` or `Arrive`, whose freshness is
  that the table has no such identifier; of the other steps only `Handle` and
  `AcknowledgeOutbound` change what the mailbox sees, all others are `Calm`.
- `OneSenderAtATime`: with `CallsHoldClaims` (a pass in its call owns its row, whose claim is
  no older than the call, which is no older than `SendTimeout`). A claim below its `Lease` is
  left alone by all but its owner (`ClaimLasts`), so a second pass cannot get the row.
- `PromisesHold`, `PromisesStand`: proved of the mailbox (`MailboxKeeps`) and carried over by `Refinement`. What
  is confirmed has arrived, what has arrived was sent, an answer follows what it answers
  (`AnswersFollowReceipt`), and none of this is undone (`NothingIsTakenBack`). `Requests` is any set of messages, so
  also one in which two hosts use the same identifier.
- `ClaimsEndByOwner`: from `ClaimLasts` and type correctness.
- `LostClaims`: a pass comes to own a row only by claiming it (`OwnsByClaim`), and as long as it carries a
  message it carries the same one (`CarriesOn`) and claims nothing.
- `MarksAreTrue`: with `PromptsAnnounce` (what a pass is about to record was announced).


`RoleRuntime_proofs` proves every property of the module. Its first part says what becomes of the
process that takes a step (`BeginTurns` ... `JoinTurns`).
- `RuntimeIsTyped`: by itself.
- `HoldersStayCurrent`, `FencesAreForGood`, `MissingWasSeen`: from `HoldersInv`. A fence is a
  lease that never expires (`FencesLast`); a process fences a role only after it saw its lease
  expired or absent, and compares the binding again (`FencesAreDue`); a lease is therefore given
  away only when nobody holds it (`FreeLease`). A reconciliation keeps the write lock
  between its list and its writing (`ScanIsCurrent`).
- `AgentsStayRecorded`: from `ClaimsInv` and `SingleInv`. A role *claims* a pane if, as long as the pane is
  open, the role is recorded with it or the pane is a stray of the role. Every
  process works at a pane its role claims and has seen only claimed panes; what it replaces is
  gone, and panes never come back (`KeepsClaims`: identifiers only grow). Without the clause
  about what was seen, a process could take up again a pane another one has replaced. `SingleInv` says
  that what one launcher has read of the roles still to come is what the table holds
  (`RowsAsSeen`), so it binds no role that has a pane; a team that repeated a role would break it.

`Regions_proofs`
- `RegionsAreTyped`, `RegionsStayTogether`: from `RowsAgree`, about every *held* row (the recorded one and each run's
  copy) and any two of them. A row names tabs of its workspace that carry the region's label unless
  the user renamed them (`Belongs`), and no tab is one region in one row and another in the other (`Apart`);
  so it does not matter which copy is written last.
- `RegionsStayUnique`: from `UniqueInv`. A run alone knows whatever the row records (`Knows`), and the tabs
  that carry a region's name are the ones the rows name (`Current`); else it would create a second tab.

`ControlCenter_proofs`: `ActsOnWhatWasShown` needs `ScreenInv`: until the list is read again what was
shown is what is selected, a confirmation and a job exclude each other, and a position names one
mission of a list (`OneAtAPosition`). `WorkspacesStayOwned` and `DeletedStayGone` need `OwnershipInv`: what a
process is about to record or close, it has created or read.

`MCLaunch_proofs`
- `CancellationIsFinal`, `JobsOnlyAdvance`: the times of a row agree with its state (`JobOK`), which
  `JobsAreSound` states as well.
- `LaunchImplements`: a step of `LaunchSpec` is a step of one of the three modules and a stutter of the other two
  (`LaunchSteps`), so `LaunchSpec` implements `RuntimeSpec`, `RegionSpec` and `JobSpec`.
- `LaunchIsTyped`, `LaunchIsSafe`: hence every safety property of the run `launch` holds of `LaunchSpec` itself.

`MCConsole_proofs`
- `DaemonsAreTyped`, `OneDaemonAtATime`: whoever holds the lock created the file that is there
  (`HoldersOwnTheFile`), and a lock found stale had a dead creator (`StaleIsDead`).
- `PromptsStayRecent`: from `RoutingInv`. What a pass has read of the agents goes back to what they were recorded
  with since it began (`RosterWasSeen`), and whoever heard its prompt is the one its own roster names for
  the kind of the role it carries (`HeardByTarget`). Without the first clause a pass could have read anything.
- `PassesEndInBudget`: a measure, `StepsLeft`, that every step of a pass lowers, while the roster stays as it was.
  It is the safety half of `FormerAgentsAreLeftAlone`; that the steps are taken is fairness and
  stays with TLC. A relay pass has no such measure, which is finding 3.
- `ConsoleIsTyped`, `ConsoleIsSafe`: every safety property of the run `console`, of `ConsoleSpec`, as above.

The properties `OnlyResumptionsAreRefused` and `LostClaimsStayLost` (`MissionStore`), `LostClaimsStayLost`
(`PeerRelay`), `AnswersFollowReceipt` and `NothingIsTakenBack` (`PeerMailbox`) and `PassesRunDown` (`PromptRouting`) are
theorems and in no run; TLC finds no violation of them on the instances `MCDeliveries`, `MCRelay` and `MCConsole`.

Only model-checked: the liveness properties (`RowsAreServed`, `ClaimsAreReleased`, `QueuedIsAcknowledged`,
`RelayPassEnds`, `InboxIsAnnounced`, `MissionsAreServed`, `JobsAreReported`, `FormerAgentsAreLeftAlone`), which are
out of the prover's reach. Every invariant and action property of a run is a theorem.

## 5. Findings

1. **A resumed assignment cannot be delivered** (run `resumed`). A settled event that may
   resume an *active* assignment puts its delivered row back to `retry`
   (`store.rs:1218`). The prompt is sent again, but reporting its success updates an
   assignment `WHERE state = 'queued'` and otherwise fails with "pending assignment
   effect" (`store.rs:1920`). The report is rolled back, the pass ends, and the row stays
   `sending` until its lease expires, when the prompt is sent once more. After
   `MAX_DELIVERY_ATTEMPTS` the row stays in `retry`, further settled events find it
   pending and are only recorded, and the branch that blocks the assignment with
   "恢复次数已达到上限" (`store.rs:1248`) is not reached.
2. **A block can stop the mission** (run `blocked_notice`). Blocking on a settled event
   queues a message to the PM (`store.rs:1274`) without giving the PM a launch generation. In a
   mission whose PM has had no message yet that generation is empty, and
   `restore_pending_effects` (`store.rs:2874`) and `claim_effect` (`store.rs:757`) take a
   pending row without one for a corrupt state: every further kernel input fails until the
   PM's runtime is replaced.
3. **A relay pass may never end** (run `relay_endless`). `deliver_peer_messages_with`
   (`peer.rs:972`) claims and sends until nothing is due, without a budget. A failed message
   is due again after at most 60 s (`peer.rs:1280`). As soon as the messages to one
   unreachable peer take that long to fail in turn (three calls of 30 s, twelve of 5 s), one
   of them is always due: `notify_peer_inboxes` and the daemon's next `kernel_deliver` are not
   reached, and younger messages to other peers are not sent, for the oldest due message
   comes first. The design promises the opposite: "单个 peer 网络失败不会阻止其他消息或普通
   outbox" (`openspec/changes/add-cross-mission-pm-relay/design.md:67`; the same in
   `specs/cross-mission-pm-relay/spec.md:105` of that change).
4. **A second scout's prompts go to the first** (run `second_scout`). `AgentProviderAdapter::execute`
   (`effects.rs:387`) looks the target up with `role_name(&role.role)`, which drops the instance. A task for
   `scout-01` is therefore prompted to the agent of `scout`, and its report activates the
   assignment of `scout-01`, whose own agent heard nothing. Instances are meant: `creation.rs:186`
   ("makes only `scout` multi-instance (`scout-01`, `scout-02`)"), a team with one
   (`tests/creation.rs:355`), and the test
   `concurrent_scout_dispatch_keeps_independent_instances_active_in_parallel` (`store.rs:6719`).

## 6. Not modelled

- Adapters for tests (`adapters.rs`, the shadow and process adapters of `effects.rs`), text and file
  generation (`prompt.rs`, `manifest.rs`, `scaffold_cli.rs`), installation and configuration:
  no state that two parties share.
- Parsing and rendering (`herdr.rs`, `protocol.rs`, most of `cli.rs` and `tui.rs`): what an answer or a
  command says is modelled, its text is not.
- Creation and migration of the schema (`bootstrap.rs`), which happens before anything runs.
- Configuration of peers (`upsert_peer`, `configure_local_peer`).

Hazards that no property rules out. The first is out of reach, the others are what the code does, which no
line of the repository denies; the models show them, and the properties named except exactly them:
- settled events of two missions in one table of keys (`store.rs:1116`): `MissionStore` has one mission;
- a row that used up its attempts holds its role for ever (`store.rs:690`; excepted by `RowsAreServed`);
- the missions behind a broken one wait (`coordination.rs:560`; `MissionsAreServed`);
- a daemon removes the lock that another has just created (`daemon.rs:112`; `seized` in `OneDaemonServes`);
- two launches of a role, or an observation, leave a pane with an agent that nothing records
  (`runtime.rs:342`; `strays` in `AgentsAreRecorded`);
- the list is read again under a confirmation or a form (`tui.rs:199`; `intent.changed` in `ActsOnTheShown`);
- a deletion that crosses a launch leaves the workspace open (`workspace.rs:106`; `abandoned` in
  `WorkspacesAreOwned`), while nothing of the rows comes back (`DeletedLeaveNothing`);
- two runs at once create a region's tab twice (`runtime.rs:823`; `overlapped` in `RegionsAreUnique`);
- within a pass, prompts go to an agent that has lost its role (`coordination.rs:540`), which
  `PromptsAreRecent` bounds by the pass.

## 7. Plan

Done: all modules of section 2 with their runs and proofs. Left:
1. Two missions over one `processed_events`.
