--------------------------- MODULE PromptRouting ---------------------------
(***************************************************************************)
(* Which agent hears a prompt: the roles and agents a delivery pass works  *)
(* with (kernel_deliver and read_runtime_roles in src/src/coordination.rs, *)
(* AgentProviderAdapter in src/src/effects.rs).                            *)
(*                                                                         *)
(* MissionStore has the claims, reports and times of a pass and no agents; *)
(* here it is the other way round.  A pass reads the agents of all roles   *)
(* once, when it begins, and looks a role up by its kind, while launches,  *)
(* replacements and `join' go on recording others.  Times are left open: a *)
(* lease may run out and a pass's time be used up at any moment, and every *)
(* backoff may be over.  Each role has at most one prompt pending.         *)
(***************************************************************************)
EXTENDS Integers

CONSTANTS
    PromptRoles,    \* the roles of the mission, scout instances among them
    Kind,           \* [PromptRoles -> PromptRoles]: the bare role of an instance
    AgentsOf,       \* [PromptRoles -> sets of agents]: whom a role may be given to
    LaunchedAgent,  \* [PromptRoles -> agents]: the one a launch starts
    DeliveryPasses, \* processes that deliver
    EffectBudget    \* claims of one pass (100 in the code)

NoAgent == "none"

ASSUME RoutingAssumption ==
    /\ Kind \in [PromptRoles -> PromptRoles]
    /\ \A r \in PromptRoles : NoAgent \notin AgentsOf[r] /\ LaunchedAgent[r] \in AgentsOf[r]
    /\ DeliveryPasses \cap {"none", "queued", "delivered"} = {}
    /\ EffectBudget \in Nat \ {0}

VARIABLES
    agentOf,    \* [PromptRoles -> agents]: column terminal_id of team_roles
    prompt,     \* [PromptRoles -> statuses]: the prompt of a role, or the pass that sends it
    delivery,   \* [DeliveryPasses -> process]
    sighted     \* history: what agentOf has been since a pass began

routingVars == <<agentOf, prompt, delivery, sighted>>

AllAgents == UNION {AgentsOf[r] : r \in PromptRoles}
RoleAgents == PromptRoles \X AllAgents
Rosters == [PromptRoles -> AllAgents \cup {NoAgent}]
Resting == [pc |-> "resting", roster |-> [r \in PromptRoles |-> NoAgent],
            claims |-> 0, role |-> "none", to |-> NoAgent]

RoutingInit ==
    /\ agentOf = [r \in PromptRoles |-> NoAgent]
    /\ prompt = [r \in PromptRoles |-> "none"]
    /\ delivery = [p \in DeliveryPasses |-> Resting]
    /\ sighted = [p \in DeliveryPasses |-> {}]

\* The PM sends the role a task.
AskRole(r) ==
    /\ prompt[r] \in {"none", "delivered"}
    /\ prompt' = [prompt EXCEPT ![r] = "queued"]
    /\ UNCHANGED <<agentOf, delivery, sighted>>

\* record_role_runtime: a launch, a replacement or a join ends; or an observation
\* names the agent.
GiveAgent(r, a) ==
    /\ agentOf' = [agentOf EXCEPT ![r] = a]
    /\ sighted' = [p \in DeliveryPasses |->
                      IF delivery[p].pc = "resting" THEN {} ELSE sighted[p] \cup {<<r, a>>}]
    /\ UNCHANGED <<prompt, delivery>>

\* record_role_pane: a launch has a pane and no agent yet; or an observation says so.
TakeAgent(r) ==
    /\ agentOf' = [agentOf EXCEPT ![r] = NoAgent]
    /\ UNCHANGED <<prompt, delivery, sighted>>

\* read_runtime_roles: the roster of the whole pass.
BeginRouting(p) ==
    /\ delivery[p].pc = "resting"
    /\ \E r \in PromptRoles : prompt[r] \in {"queued"} \cup DeliveryPasses
    /\ delivery' = [delivery EXCEPT ![p] = [Resting EXCEPT !.pc = "claiming", !.roster = agentOf]]
    /\ sighted' = [sighted EXCEPT ![p] = {ra \in RoleAgents : agentOf[ra[1]] = ra[2]}]
    /\ UNCHANGED <<agentOf, prompt>>

WithinBudget(p) == delivery[p].claims < EffectBudget

ClaimPrompt(p, r) ==
    /\ delivery[p].pc = "claiming" /\ WithinBudget(p)
    /\ prompt[r] = "queued"
    /\ prompt' = [prompt EXCEPT ![r] = p]
    /\ delivery' = [delivery EXCEPT ![p].pc = "prompting", ![p].role = r,
                                      ![p].claims = @ + 1]
    /\ UNCHANGED <<agentOf, sighted>>

\* Mutant: a role without an agent is taken to have the one a launch would start.
TargetOrLaunched(p, r) ==
    IF delivery[p].roster[Kind[r]] = NoAgent THEN LaunchedAgent[Kind[r]]
    ELSE delivery[p].roster[Kind[r]]

\* execute: the agent is looked up under role_name(kind).
Target(p, r) == delivery[p].roster[Kind[r]]

\* `agent prompt': the agent hears it, or it is not there, or the call fails.
SendPrompt(p, heard) ==
    LET a == Target(p, delivery[p].role) IN
    /\ delivery[p].pc = "prompting"
    /\ heard => a # NoAgent
    /\ delivery' = [delivery EXCEPT ![p].pc = "reporting", ![p].to = IF heard THEN a ELSE NoAgent]
    /\ UNCHANGED <<agentOf, prompt, sighted>>

\* Mutant: only failures in a row are counted.
NextRoundAnew(p) ==
    [delivery[p] EXCEPT !.pc = "claiming", !.role = "none", !.to = NoAgent, !.claims = 0]

NextRound(p) == [delivery[p] EXCEPT !.pc = "claiming", !.role = "none", !.to = NoAgent]

\* The result is taken while the claim is still this pass's.
ReportPrompt(p) ==
    LET heard == delivery[p].to # NoAgent IN
    /\ delivery[p].pc = "reporting" /\ prompt[delivery[p].role] = p
    /\ prompt' = [prompt EXCEPT ![delivery[p].role] = IF heard THEN "delivered" ELSE "queued"]
    /\ delivery' = [delivery EXCEPT ![p] = NextRound(p)]
    /\ UNCHANGED <<agentOf, sighted>>

\* A result that comes too late ends the pass.
RefusePrompt(p) ==
    /\ delivery[p].pc = "reporting" /\ prompt[delivery[p].role] # p
    /\ delivery' = [delivery EXCEPT ![p] = Resting]
    /\ sighted' = [sighted EXCEPT ![p] = {}]
    /\ UNCHANGED <<agentOf, prompt>>

\* Nothing is left to claim, or the budget of claims or of time is used up.
EndRouting(p) ==
    /\ delivery[p].pc = "claiming"
    /\ delivery' = [delivery EXCEPT ![p] = Resting]
    /\ sighted' = [sighted EXCEPT ![p] = {}]
    /\ UNCHANGED <<agentOf, prompt>>

\* The process dies, or its role has got a new generation; the claim stays.
DropRouting(p) ==
    /\ delivery[p].pc \in {"prompting", "reporting"}
    /\ delivery' = [delivery EXCEPT ![p] = Resting]
    /\ sighted' = [sighted EXCEPT ![p] = {}]
    /\ UNCHANGED <<agentOf, prompt>>

\* A claim that is older than its lease is taken back.
RequeuePrompt(r) ==
    /\ prompt[r] \in DeliveryPasses
    /\ prompt' = [prompt EXCEPT ![r] = "queued"]
    /\ UNCHANGED <<agentOf, delivery, sighted>>

RoutingStep(p) ==
    \/ \E r \in PromptRoles : ClaimPrompt(p, r)
    \/ \E heard \in BOOLEAN : SendPrompt(p, heard)
    \/ ReportPrompt(p) \/ RefusePrompt(p) \/ EndRouting(p)

RoutingNext ==
    \/ \E r \in PromptRoles : AskRole(r) \/ TakeAgent(r) \/ RequeuePrompt(r)
    \/ \E r \in PromptRoles : \E a \in AgentsOf[r] : GiveAgent(r, a)
    \/ \E p \in DeliveryPasses : RoutingStep(p) \/ BeginRouting(p) \/ DropRouting(p)

\* drive_with_executor goes on by itself (external: Herdr's calls return).
RoutingFairness == \A p \in DeliveryPasses : WF_routingVars(RoutingStep(p))

RoutingSpec == RoutingInit /\ [][RoutingNext]_routingVars /\ RoutingFairness

-----------------------------------------------------------------------------
\* Rosters, prompts and processes have their types.
RoutingTypeOK ==
    /\ agentOf \in Rosters
    /\ prompt \in [PromptRoles -> {"none", "queued", "delivered"} \cup DeliveryPasses]
    /\ delivery \in [DeliveryPasses ->
          [pc : {"resting", "claiming", "prompting", "reporting"}, roster : Rosters,
           claims : 0 .. EffectBudget, role : PromptRoles \cup {"none"},
           to : AllAgents \cup {NoAgent}]]
    /\ sighted \in [DeliveryPasses -> SUBSET RoleAgents]

\* A prompt is heard only by an agent that its kind of role was recorded with at
\* some time since the pass began: an agent that lost the role before that hears
\* nothing, however the roster changes under the pass.
PromptsAreRecent ==
    \A p \in DeliveryPasses :
        delivery[p].to # NoAgent =>
            <<Kind[delivery[p].role], delivery[p].to>> \in sighted[p]

\* How many more steps a pass can take with the agents it has read: a claim, a call
\* and a report for every effect its budget has left.
StepsLeft(job) ==
    CASE job.pc = "resting"   -> 0
      [] job.pc = "claiming"  -> 3 * (EffectBudget - job.claims) + 1
      [] job.pc = "reporting" -> 3 * (EffectBudget - job.claims) + 2
      [] job.pc = "prompting" -> 3 * (EffectBudget - job.claims) + 3

\* A pass never reads the agents anew, and every step it takes brings it nearer to
\* its end, whatever becomes of its claims: agents that have lost their roles hear
\* no more than what one budget allows (the budget of drive_with_executor).
PassesRunDown ==
    [][\A p \in DeliveryPasses :
          delivery[p].pc # "resting" /\ delivery'[p] # delivery[p] =>
              /\ StepsLeft(delivery'[p]) < StepsLeft(delivery[p])
              /\ delivery'[p].pc # "resting" => delivery'[p].roster = delivery[p].roster
      ]_routingVars

\* An agent that is no role's agent any more is eventually left alone for good: no
\* pass goes on for ever with the roster it began with.
FormerAgentsAreLeftAlone ==
    \A a \in AllAgents :
        <>[](\A r \in PromptRoles : agentOf[r] # a)
            => <>[](\A p \in DeliveryPasses : delivery[p].to # a)

\* A prompt for a scout instance is heard by an agent of that instance, which may
\* have a task of its own at the same time (src/src/creation.rs:186).
InstancesHearTheirOwn ==
    \A p \in DeliveryPasses :
        delivery[p].to # NoAgent => delivery[p].to \in AgentsOf[delivery[p].role]
=============================================================================
