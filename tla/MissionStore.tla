---------------------------- MODULE MissionStore ----------------------------
(***************************************************************************)
(* The durable side of one mission: the SQLite tables assignments, outbox, *)
(* team_roles.launch_generation and processed_events (src/src/store.rs),   *)
(* and the delivery passes that drive the outbox (kernel_deliver,          *)
(* drive_with_executor, AgentProviderAdapter).                             *)
(*                                                                         *)
(* Every kernel input is one committed SQLite transaction and hence one    *)
(* action: the store rebuilds the reducer from the tables, asks it (module *)
(* MissionReducer, instance R) and writes what the receipt says.  Inputs   *)
(* that are rejected or answered as duplicates change nothing modelled.    *)
(*                                                                         *)
(* A delivery pass is several transactions with a process call in between: *)
(* claim an outbox row, run `herdr agent prompt` outside any transaction,  *)
(* report the outcome.  Several passes may run at once (the daemon, and    *)
(* deliver_now after each CLI send or reply) and each may die anywhere.    *)
(***************************************************************************)
EXTENDS Integers, Sequences

CONSTANTS
    Scouts, MaxRounds, MaxAsg,   \* as in MissionReducer
    Drivers,        \* processes that run delivery passes
    MaxOut,         \* bound: how many outbox rows a behaviour may create
    MaxAttempts,    \* MAX_DELIVERY_ATTEMPTS (5 in the code)
    Lease,          \* OUTBOX_CLAIM_LEASE_MS, in ticks
    RetryBackoff,   \* RETRY_BACKOFF_MS, in ticks
    PendingBackoff, \* PENDING_BACKOFF_MS, in ticks
    TimeBudget,     \* time_budget_ms of a pass, in ticks
    MaxPass,        \* bound: how many ticks a pass may last, a slow prompt included
    MaxGen,         \* bound: launch generations a role may get
    Commands,       \* bound: the <<role, kind>> pairs the PM dispatches
    Replaceable,    \* bound: roles that are replaced in a behaviour
    Noticed,        \* bound: roles the PM sends context notices to
    Responsive,     \* roles whose agent accepts prompts in the end (liveness only)
    MaxSeq,         \* bound: state_change_seq values of settled events per role
    MaxCrashes      \* bound: how many driver processes may die

VARIABLES
    asg, nextAsg,   \* table assignments, as in MissionReducer
    outbox,         \* [OutId -> Row \cup {NoRow}]: table outbox joined with its message
    nextOut,        \* identifier the next outbox row gets
    gen,            \* [Roles -> Nat]: team_roles.launch_generation; 0 is the empty string
    settledSeqs,    \* the "state-sequence:..." keys in processed_events
    drv,            \* the delivery pass of each driver process
    prompted,       \* assignments whose prompt an agent has accepted
    crashes         \* how many drivers have died

vars == <<asg, nextAsg, outbox, nextOut, gen, settledSeqs, drv, prompted, crashes>>

R == INSTANCE MissionReducer

Roles == R!Roles
AsgId == R!AsgId
NoAsg == R!NoAsg
OutId == 1 .. MaxOut
NoOut == 0

ASSUME ReducerAssumption ==
    /\ Scouts \cap {"pm", "worker", "reviewer"} = {}
    /\ MaxRounds \in Nat /\ MaxAsg \in Nat

ASSUME StoreBounds ==
    /\ MaxOut \in Nat /\ MaxAttempts \in Nat \ {0}
    /\ Lease \in Nat /\ RetryBackoff \in Nat /\ PendingBackoff \in Nat
    /\ TimeBudget \in Nat /\ MaxPass \in Nat
    /\ MaxGen \in Nat \ {0} /\ MaxSeq \in Nat /\ MaxCrashes \in Nat
    /\ Commands \subseteq R!Owners \X R!Kinds
    /\ Replaceable \subseteq Roles /\ Responsive \subseteq Roles
    /\ Noticed \subseteq Roles \ {"pm"}

CONSTANT Nobody     \* claimed_by = ''
ASSUME NobodyAssumption == Nobody \notin Drivers

-----------------------------------------------------------------------------
\* Rows and passes.

\* "age" is how long ago claimed_at was; it is negative while claimed_at lies in
\* the future (a backoff).  It stops at Long, which is past every threshold the
\* code compares it with, so that Long also stands for claimed_at NULL.
Long == MaxPass + Lease + 1
Age  == (0 - (RetryBackoff + PendingBackoff)) .. Long

Row ==
    [status: {"queued", "retry", "sending", "delivered"}, role: Roles,
     asg: AsgId \cup {NoAsg}, attempts: 0 .. MaxAttempts,
     owner: Drivers \cup {Nobody}, age: Age, batch: OutId]

NoRow == [status |-> "none", role |-> "pm", asg |-> NoAsg, attempts |-> 0,
          owner |-> Nobody, age |-> Long, batch |-> 0]

\* A new row: a delivery of assignment a to its target, or (a = NoAsg) a notice.
\* Rows of one transaction share created_at, which "batch" stands for.
NewRow(r, a) == [status |-> "queued", role |-> r, asg |-> a, attempts |-> 0,
                 owner |-> Nobody, age |-> Long, batch |-> nextOut]

Pass == [pc: {"idle", "claiming", "executing", "reporting"}, age: 0 .. MaxPass,
         row: OutId \cup {NoOut}, gen: 0 .. MaxGen,
         outcome: {"none", "ok", "pending", "retry"}]

Idle == [pc |-> "idle", age |-> 0, row |-> NoOut, gen |-> 0, outcome |-> "none"]

Pending(o)  == outbox[o].status \in {"queued", "retry", "sending"}

\* The delivery row of an assignment: its oldest message to the target that is
\* not a reply, joined with the outbox.
Deliveries(a) == {o \in OutId : outbox[o].status # "none" /\ outbox[o].asg = a}

\* A pending row of a role without a launch generation makes the reducer's
\* restore fail, and with it every kernel input but a settled event.
Restorable == \A o \in OutId : Pending(o) => gen[outbox[o].role] # 0

-----------------------------------------------------------------------------
Init ==
    /\ R!Init
    /\ outbox = [o \in OutId |-> NoRow] /\ nextOut = 1
    /\ gen = [r \in Roles |-> 0]
    /\ settledSeqs = {}
    /\ drv = [d \in Drivers |-> Idle]
    /\ prompted = {}
    /\ crashes = 0

-----------------------------------------------------------------------------
\* Kernel commands: dispatch, context and reply.

\* Append the rows of one transaction to the outbox "base".
Post(base, rows) ==
    /\ nextOut + Len(rows) <= MaxOut + 1
    /\ outbox' = [o \in OutId |->
                    IF o \in nextOut .. nextOut + Len(rows) - 1
                      THEN rows[o - nextOut + 1] ELSE base[o]]
    /\ nextOut' = nextOut + Len(rows)

\* The roles a command sends prompts to get the generation the front-end read
\* for them: the stored one, or "generation-1" where there is none yet.
GiveGeneration(targets) ==
    gen' = [r \in Roles |-> IF r \in targets /\ gen[r] = 0 THEN 1 ELSE gen[r]]

Dispatch(r, k) ==
    /\ Restorable
    /\ <<r, k>> \in Commands /\ R!AssignmentKindAllowed(r, k)
    /\ ~R!RoleCapacityHeld(r)
    /\ nextAsg \in AsgId
    /\ asg' = [asg EXCEPT ![nextAsg] = R!NewAssignment(r, k, NoAsg, 0)]
    /\ nextAsg' = nextAsg + 1
    /\ Post(outbox, <<NewRow(r, nextAsg)>>)
    /\ GiveGeneration({r})
    /\ UNCHANGED <<settledSeqs, drv, prompted, crashes>>

\* A context notice from the PM: a prompt that belongs to no assignment.
Context(r) ==
    /\ Restorable
    /\ r \in Noticed
    /\ Post(outbox, <<NewRow(r, NoAsg)>>)
    /\ GiveGeneration({r})
    /\ UNCHANGED <<asg, nextAsg, settledSeqs, drv, prompted, crashes>>

\* Mutant: a reply leaves the deliveries of its assignment as they are.
DeliveriesLeftOpen(a) == outbox

\* A reply closes the deliveries of its assignment, whatever they were doing.
DeliveriesClosed(a) ==
    [o \in OutId |->
        IF o \in Deliveries(a) /\ outbox[o].role = asg[a].role
          THEN [outbox[o] EXCEPT !.status = "delivered", !.owner = Nobody, !.age = Long]
          ELSE outbox[o]]

\* Mutant: the last round is taken for one too many.
RoundsLeftEarly(a) == asg[a].round + 1 < MaxRounds

\* Another fix is allowed: next_review_round > max_review_rounds fails.
RoundsLeft(a) == asg[a].round + 1 <= MaxRounds

\* A worker's completion: the PM hears of it and the reviewer gets a review.
ReplyCompleted(a) ==
    /\ asg[a].role = "worker"
    /\ nextAsg \in AsgId
    /\ asg' = [asg EXCEPT
                 ![a] = R!Settled(a, "completed"),
                 ![nextAsg] = R!NewAssignment("reviewer", "review", R!Root(a), asg[a].round)]
    /\ nextAsg' = nextAsg + 1
    /\ Post(DeliveriesClosed(a), <<NewRow("pm", NoAsg), NewRow("reviewer", nextAsg)>>)
    /\ GiveGeneration({"pm", "reviewer"})

\* A rejection with rounds left: both sides are told and the worker gets a fix.
ReplyRejected(a) ==
    /\ RoundsLeft(a)
    /\ nextAsg \in AsgId
    /\ asg' = [asg EXCEPT
                 ![a] = R!Settled(a, "rejected"),
                 ![nextAsg] = R!NewAssignment("worker", "fix", R!Root(a), asg[a].round + 1)]
    /\ nextAsg' = nextAsg + 1
    /\ Post(DeliveriesClosed(a),
            <<NewRow("pm", NoAsg), NewRow("worker", nextAsg),
              NewRow("pm", NoAsg), NewRow("worker", NoAsg)>>)
    /\ GiveGeneration({"pm", "worker"})

\* An approval, or the rejection of the last round: both sides are told.
ReplyVerdict(a, k) ==
    /\ k = "approved" \/ (k = "rejected" /\ ~RoundsLeft(a))
    /\ asg' = [asg EXCEPT ![a] = R!Settled(a, k)]
    /\ Post(DeliveriesClosed(a),
            <<NewRow("pm", NoAsg), NewRow("pm", NoAsg), NewRow("worker", NoAsg)>>)
    /\ GiveGeneration({"pm", "worker"})
    /\ UNCHANGED nextAsg

\* A finding or a blocked report goes to the PM only.
ReplyReport(a, k) ==
    /\ k \in {"finding", "blocked"}
    /\ asg' = [asg EXCEPT ![a] = R!Settled(a, k)]
    /\ Post(DeliveriesClosed(a), <<NewRow("pm", NoAsg)>>)
    /\ GiveGeneration({"pm"})
    /\ UNCHANGED nextAsg

Reply(a, k) ==
    /\ Restorable
    /\ R!ReplyAccepted(a, k)
    /\ \/ k = "completed" /\ ReplyCompleted(a)
       \/ k = "rejected" /\ ReplyRejected(a)
       \/ ReplyVerdict(a, k)
       \/ ReplyReport(a, k)
    /\ UNCHANGED <<settledSeqs, drv, prompted, crashes>>

-----------------------------------------------------------------------------
\* The settled event: an agent's turn ended.  It bypasses the reducer.

\* Whether the delivery of a may be sent again to resume the assignment.
Resumable(o, safe) ==
    safe /\ outbox[o].status = "delivered" /\ outbox[o].attempts < MaxAttempts

\* Nothing to recover: the assignment is not active, was replied to, or is still
\* on its way.  Only the event's sequence number is recorded.
SettleIgnored(a) ==
    /\ \/ asg[a].state # "active"
       \/ asg[a].last # "none"
       \/ \E o \in Deliveries(a) : Pending(o)
    /\ UNCHANGED <<asg, outbox, nextOut>>

SettleResumed(a, safe) ==
    /\ asg[a].state = "active" /\ asg[a].last = "none"
    /\ \E o \in Deliveries(a) :
         /\ Resumable(o, safe)
         /\ outbox' = [outbox EXCEPT ![o].status = "retry", ![o].owner = Nobody,
                                     ![o].age = Long]
    /\ UNCHANGED <<asg, nextOut>>

\* The assignment is blocked on behalf of its owner and the PM is sent a
\* message.  The PM's generation is left as it is.
SettleBlocked(a, safe) ==
    /\ asg[a].state = "active" /\ asg[a].last = "none"
    /\ \A o \in Deliveries(a) : ~Pending(o) /\ ~Resumable(o, safe)
    /\ asg' = [asg EXCEPT ![a] = R!Settled(a, "blocked")]
    /\ Post(outbox, <<NewRow("pm", NoAsg)>>)

Settle(a, s, safe) ==
    /\ asg[a].state # "none"
    /\ <<asg[a].role, s>> \notin settledSeqs
    /\ SettleIgnored(a) \/ SettleResumed(a, safe) \/ SettleBlocked(a, safe)
    /\ settledSeqs' = settledSeqs \cup {<<asg[a].role, s>>}
    /\ UNCHANGED <<nextAsg, gen, drv, prompted, crashes>>

-----------------------------------------------------------------------------
\* Role replacement gives the role a generation nobody has used.
ReplaceRole(r) ==
    /\ r \in Replaceable /\ gen[r] < MaxGen
    /\ gen' = [gen EXCEPT ![r] = @ + 1]
    /\ UNCHANGED <<asg, nextAsg, outbox, nextOut, settledSeqs, drv, prompted, crashes>>

-----------------------------------------------------------------------------
\* A delivery pass.

BeginPass(d) ==
    /\ drv[d].pc = "idle"
    /\ \E o \in OutId : Pending(o)
    /\ drv' = [drv EXCEPT ![d] = [Idle EXCEPT !.pc = "claiming"]]
    /\ UNCHANGED <<asg, nextAsg, outbox, nextOut, gen, settledSeqs, prompted, crashes>>

\* Mutant: a claim is never taken back.
NeverExpired(o, d) == FALSE

\* claimed_at_ms is read once, when the pass begins: a claim made late in the
\* pass is already drv[d].age old, and thresholds lie that far back.
Expired(o, d) == outbox[o].status = "sending" /\ outbox[o].age > drv[d].age + Lease

\* The outbox after the expired claims have been taken back.
Reclaimed(d) ==
    [o \in OutId |->
        IF Expired(o, d)
          THEN [outbox[o] EXCEPT !.status = "retry", !.owner = Nobody, !.age = Long]
          ELSE outbox[o]]

\* Mutant: deliveries under way do not count, active assignments do.
WaitsForActiveOnly(ob, o) ==
    LET a == ob[o].asg IN a # NoAsg /\ asg[a].state = "queued" /\ R!ActiveElsewhere(a)

\* In outbox ob: o delivers a queued assignment whose target is busy, with an
\* active assignment or with another delivery under way.
WaitsForCapacity(ob, o) ==
    LET a == ob[o].asg IN
    /\ a # NoAsg
    /\ asg[a].state = "queued"
    /\ \/ R!ActiveElsewhere(a)
       \/ \E p \in OutId \ {o} :
             /\ ob[p].status = "sending" /\ ob[p].role = ob[o].role
             /\ ob[p].asg # NoAsg /\ asg[ob[p].asg].state = "queued"

\* Mutant: the attempts of a row are not limited.
ClaimableForever(ob, d, o) ==
    /\ ob[o].status \in {"queued", "retry"}
    /\ ob[o].owner = Nobody
    /\ ob[o].age >= drv[d].age
    /\ ~WaitsForCapacity(ob, o)

Claimable(ob, d, o) ==
    /\ ob[o].status \in {"queued", "retry"}
    /\ ob[o].owner = Nobody
    /\ ob[o].attempts < MaxAttempts
    /\ ob[o].age >= drv[d].age
    /\ ~WaitsForCapacity(ob, o)

\* ORDER BY created_at, id: rows of one transaction compare by random ids.
NextToClaim(ob, d) ==
    {o \in OutId : Claimable(ob, d, o) /\
        \A p \in OutId : Claimable(ob, d, p) => ob[o].batch <= ob[p].batch}

ClaimNothing(d) ==
    /\ drv[d].pc = "claiming" /\ drv[d].age < TimeBudget
    /\ NextToClaim(Reclaimed(d), d) = {}
    /\ outbox' = Reclaimed(d)
    /\ drv' = [drv EXCEPT ![d] = Idle]
    /\ UNCHANGED <<asg, nextAsg, nextOut, gen, settledSeqs, prompted, crashes>>

\* The claim commits before the role's generation is looked at: without one the
\* pass fails and the row stays "sending".
Claim(d) ==
    /\ drv[d].pc = "claiming" /\ drv[d].age < TimeBudget
    /\ \E o \in NextToClaim(Reclaimed(d), d) :
         /\ outbox' = [Reclaimed(d) EXCEPT ![o].status = "sending", ![o].owner = d,
                                           ![o].age = drv[d].age,
                                           ![o].attempts = @ + 1]
         /\ drv' = [drv EXCEPT ![d] =
                      IF gen[outbox[o].role] = 0 THEN Idle
                      ELSE [@ EXCEPT !.pc = "executing", !.row = o,
                                     !.gen = gen[outbox[o].role]]]
    /\ UNCHANGED <<asg, nextAsg, nextOut, gen, settledSeqs, prompted, crashes>>

\* The loop condition of the pass: its time is used up.
EndPass(d) ==
    /\ drv[d].pc = "claiming" /\ drv[d].age >= TimeBudget
    /\ drv' = [drv EXCEPT ![d] = Idle]
    /\ UNCHANGED <<asg, nextAsg, outbox, nextOut, gen, settledSeqs, prompted, crashes>>

\* `herdr agent prompt`: accepted, not possible yet, or failed.
Execute(d, out) ==
    /\ drv[d].pc = "executing"
    /\ drv' = [drv EXCEPT ![d].pc = "reporting", ![d].outcome = out]
    /\ prompted' = IF out = "ok" THEN prompted \cup ({outbox[drv[d].row].asg} \ {NoAsg})
                                 ELSE prompted
    /\ UNCHANGED <<asg, nextAsg, outbox, nextOut, gen, settledSeqs, crashes>>

\* Mutant: a result for an older generation of the role is taken.
AuthorizedByOwner(d) ==
    outbox[drv[d].row].status = "sending" /\ outbox[drv[d].row].owner = d

\* The claim is still this driver's, made for the generation the role still has.
Authorized(d) ==
    LET row == outbox[drv[d].row] IN
    row.status = "sending" /\ row.owner = d /\ gen[row.role] = drv[d].gen

\* A successful delivery of an assignment must find it queued and its role free.
Activatable(a) == asg[a].state = "queued" /\ ~R!ActiveElsewhere(a)

Reporting(d) == drv[d].pc = "reporting" /\ Authorized(d) /\ Restorable

\* Mutant: a prompt that could not be placed yet counts as delivered.
SucceededOrPending(d) == drv[d].outcome \in {"ok", "pending"}

Succeeded(d) == drv[d].outcome = "ok"

Activated(a) == [asg EXCEPT ![a].state = "active"]

NextClaim(d) == drv' = [drv EXCEPT ![d] = [Idle EXCEPT !.pc = "claiming", !.age = drv[d].age]]

ReportDelivered(d) ==
    LET a == outbox[drv[d].row].asg IN
    /\ Reporting(d) /\ Succeeded(d)
    /\ a # NoAsg => Activatable(a)
    /\ asg' = IF a = NoAsg THEN asg ELSE Activated(a)
    /\ outbox' = [outbox EXCEPT ![drv[d].row].status = "delivered",
                                ![drv[d].row].owner = Nobody, ![drv[d].row].age = Long]
    /\ NextClaim(d)
    /\ UNCHANGED <<nextAsg, nextOut, gen, settledSeqs, prompted, crashes>>

\* Mutant: a deferred row may be claimed again at once.
ParkedWithoutBackoff(row, out) ==
    IF out = "pending"
      THEN [row EXCEPT !.status = "queued", !.owner = Nobody, !.age = Long, !.attempts = 0]
      ELSE [row EXCEPT !.status = "retry", !.owner = Nobody, !.age = Long]

\* A role that is not there yet costs no attempts; a failure does.
Parked(row, out) ==
    IF out = "pending"
      THEN [row EXCEPT !.status = "queued", !.owner = Nobody,
                       !.age = 0 - PendingBackoff, !.attempts = 0]
      ELSE [row EXCEPT !.status = "retry", !.owner = Nobody, !.age = 0 - RetryBackoff]

ReportDeferred(d) ==
    /\ Reporting(d) /\ drv[d].outcome \in {"pending", "retry"}
    /\ outbox' = [outbox EXCEPT ![drv[d].row] = Parked(@, drv[d].outcome)]
    /\ NextClaim(d)
    /\ UNCHANGED <<asg, nextAsg, nextOut, gen, settledSeqs, prompted, crashes>>

\* A rejected or failed report rolls back and ends the pass; the row keeps its
\* claim until the lease runs out.
ReportRefused(d) ==
    LET a == outbox[drv[d].row].asg IN
    /\ drv[d].pc = "reporting"
    /\ \/ ~Authorized(d)
       \/ ~Restorable
       \/ Succeeded(d) /\ a # NoAsg /\ ~Activatable(a)
    /\ drv' = [drv EXCEPT ![d] = Idle]
    /\ UNCHANGED <<asg, nextAsg, outbox, nextOut, gen, settledSeqs, prompted, crashes>>

\* The process dies, or gives up because the database stays busy.
Crash(d) ==
    /\ drv[d].pc # "idle" /\ crashes < MaxCrashes
    /\ drv' = [drv EXCEPT ![d] = Idle]
    /\ crashes' = crashes + 1
    /\ UNCHANGED <<asg, nextAsg, outbox, nextOut, gen, settledSeqs, prompted>>

-----------------------------------------------------------------------------
\* Time passes for the stored claims and for the passes under way.
Tick ==
    /\ \A d \in Drivers : drv[d].pc # "idle" => drv[d].age < MaxPass
    /\ outbox' = [o \in OutId |->
                    IF outbox[o].age < Long THEN [outbox[o] EXCEPT !.age = @ + 1]
                                            ELSE outbox[o]]
    /\ drv' = [d \in Drivers |->
                 IF drv[d].pc = "idle" THEN drv[d] ELSE [drv[d] EXCEPT !.age = @ + 1]]
    /\ UNCHANGED <<asg, nextAsg, nextOut, gen, settledSeqs, prompted, crashes>>

PassStep(d) ==
    \/ BeginPass(d) \/ ClaimNothing(d) \/ Claim(d) \/ EndPass(d)
    \/ \E out \in {"ok", "pending", "retry"} : Execute(d, out)
    \/ ReportDelivered(d) \/ ReportDeferred(d) \/ ReportRefused(d)

Next ==
    \/ \E r \in Roles, k \in R!Kinds : Dispatch(r, k)
    \/ \E r \in Roles : Context(r) \/ ReplaceRole(r)
    \/ \E a \in AsgId, k \in R!ReplyKinds : Reply(a, k)
    \/ \E a \in AsgId, s \in 1 .. MaxSeq, safe \in BOOLEAN : Settle(a, s, safe)
    \/ \E d \in Drivers : PassStep(d) \/ Crash(d)
    \/ Tick

Spec == Init /\ [][Next]_vars

-----------------------------------------------------------------------------
\* Every variable has its type, and rows exist exactly below the next identifier.
TypeOK ==
    /\ R!TypeOK
    /\ nextOut \in 1 .. MaxOut + 1
    /\ outbox \in [OutId -> Row \cup {NoRow}]
    /\ \A o \in OutId : outbox[o].status = "none" <=> o >= nextOut
    /\ gen \in [Roles -> 0 .. MaxGen]
    /\ settledSeqs \subseteq R!Owners \X (1 .. MaxSeq)
    /\ drv \in [Drivers -> Pass]
    /\ prompted \subseteq AsgId
    /\ crashes \in 0 .. MaxCrashes

\* The assignment a claimed delivery is about to activate.
InFlight(o) == outbox[o].status = "sending" /\ outbox[o].asg # NoAsg
                 /\ asg[outbox[o].asg].state = "queued"

\* One role, one assignment on its way or at work: whatever leases run out and
\* whoever reclaims them, a claimed delivery of a queued assignment is the only
\* one of its role and no other assignment of that role is active.  So a prompt
\* that reached the agent is never refused for capacity (role_capacity_exhausted).
DeliveryExclusive ==
    \A o \in OutId : InFlight(o) =>
        /\ \A p \in OutId : InFlight(p) /\ outbox[p].role = outbox[o].role => p = o
        /\ ~R!ActiveElsewhere(outbox[o].asg)

OneActivePerRole == R!OneActivePerRole

\* An assignment is worked on, answered or blocked only after an agent accepted
\* its prompt: no crash, reclaim or early reply activates it unseen.
StartedWasPrompted ==
    \A a \in AsgId : asg[a].state \notin {"none", "queued"} => a \in prompted

\* A queued assignment keeps a way to be delivered, and an assignment that has
\* been answered is not sent again: the state of the assignment and the status of
\* its delivery row never drift apart.
DeliveryMatchesState ==
    \A a \in R!Known : \E o \in OutId :
        /\ outbox[o].asg = a /\ outbox[o].role = asg[a].role
        /\ asg[a].state = "queued" => Pending(o)
        /\ asg[a].state \notin {"queued", "active"} => outbox[o].status = "delivered"

\* A driver whose claim was taken over, closed by a reply or made for a replaced
\* generation changes nothing: a report resolves its row only while the row
\* carries this driver's claim, and nobody but its claimant, a reclaimer or the
\* reply itself ends a claim.
ClaimsEndByRight ==
    [][\A o \in OutId : outbox[o].status = "sending" /\ outbox'[o].status # "sending" =>
          \/ \E d \in Drivers : Expired(o, d) /\ drv[d].pc = "claiming"
          \/ outbox[o].asg # NoAsg /\ asg'[outbox[o].asg].state \notin {"queued", "active"}
          \/ \E d \in Drivers :
               /\ outbox[o].owner = d /\ drv[d].row = o /\ drv[d].pc = "reporting"
               /\ drv[d].gen = gen[outbox[o].role]]_vars

\* A pass that carries a prompt or its outcome.
Carrying(d) == drv[d].pc \in {"executing", "reporting"}

\* A claim that is lost is lost for good: a pass whose row was taken back, closed or
\* given a new generation under it stays refused, however the row is claimed,
\* retried and replaced while its prompt is under way (effect_result_authority_rejection).
LostClaimsStayLost ==
    [][\A d \in Drivers :
          Carrying(d) /\ ~Authorized(d) /\ Carrying(d)' => ~Authorized(d)']_vars

\* A prompt that was accepted and is reported in time is refused for one reason
\* only: its assignment is active already, because its delivered prompt was sent
\* again to resume it.  Never is it capacity, or an answer that came first.
OnlyResumptionsAreRefused ==
    \A d \in Drivers :
        LET a == outbox[drv[d].row].asg IN
        Reporting(d) /\ Succeeded(d) /\ a # NoAsg =>
            Activatable(a) \/ asg[a].state = "active"

\* The store implements the life cycle the reducer promises.
ReducerSpec == R!Spec

-----------------------------------------------------------------------------
\* What the code asserts of its tables and does not always keep.

\* An accepted prompt reported by its rightful driver finds its assignment still
\* queued (store.rs takes anything else for an invalid persisted state).
ReportFindsQueued ==
    \A d \in Drivers :
        LET a == outbox[drv[d].row].asg IN
        Reporting(d) /\ Succeeded(d) /\ a # NoAsg => asg[a].state = "queued"

\* Every pending outbox row belongs to a role with a launch generation (store.rs
\* takes an empty one for an invalid persisted state).
PendingRowsHaveGeneration == Restorable

-----------------------------------------------------------------------------
\* Fairness.  The daemon starts a pass again and again (run_daemon sleeps and loops
\* whatever the last pass returned), so time passes between passes; a pass that
\* has not died goes on; and a pass is not suspended for its whole time budget
\* before its first claim every time, nor every time it is about to claim one row.
Fairness ==
    /\ SF_vars(Tick)
    /\ \A d \in Drivers : WF_vars(PassStep(d)) /\ SF_vars(ClaimNothing(d) \/ Claim(d))
    /\ \A d \in Drivers, o \in OutId : SF_vars(Claim(d) /\ drv'[d].row = o)

\* The agents of the responsive roles accept a prompt that is tried again and
\* again.  Nothing is assumed of the others: their agent may never start.
ProviderFairness ==
    \A o \in OutId :
        SF_vars(\E d \in Drivers : /\ drv[d].row = o /\ outbox[o].role \in Responsive
                                   /\ Execute(d, "ok"))

FairSpec == Spec /\ Fairness
ProviderSpec == Spec /\ Fairness /\ ProviderFairness

\* No claim is held for ever: when its driver dies, or its report is refused,
\* the lease gives the row back.
ClaimsAreReleased ==
    \A o \in OutId : outbox[o].status = "sending" ~> outbox[o].status # "sending"

\* The row has used up its attempts.
Exhausted(o) == outbox[o].attempts = MaxAttempts

\* A role whose agent never starts does not keep the prompts of the others back:
\* every row of a responsive role is delivered in the end, unless its attempts
\* are used up or its role is busy with another assignment.  Calls may be slow, but
\* not for ever.
RowsAreServed ==
    <>[](\A d \in Drivers : drv[d].pc \in {"executing", "reporting"} => drv[d].age = 0) =>
        \A o \in OutId :
            Pending(o) /\ outbox[o].role \in Responsive
              ~> \/ outbox[o].status = "delivered"
                 \/ Exhausted(o)
                 \/ WaitsForCapacity(outbox, o)
=============================================================================
