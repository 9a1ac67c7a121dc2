-------------------------- MODULE MCPromptRouting --------------------------
(***************************************************************************)
(* Instances of PromptRouting for TLC: a scout and a second instance of it.*)
(***************************************************************************)
EXTENDS PromptRouting

BothScouts == {"scout", "scout-01"}
BareKind == [r \in BothScouts |-> "scout"]

\* The scout may pass from the agent a launch started to one a user joined.
ScoutAgents == [r \in BothScouts |-> IF r = "scout" THEN {"first", "joined"} ELSE {"second"}]
StartedAgents == [r \in BothScouts |-> IF r = "scout" THEN "first" ELSE "second"]
=============================================================================
