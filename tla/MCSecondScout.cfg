\* A task for the second scout.
CONSTANTS
    PromptRoles <- BothScouts
    Kind <- BareKind
    AgentsOf <- ScoutAgents
    LaunchedAgent <- StartedAgents
    DeliveryPasses = {"p1"}
    EffectBudget = 2
SPECIFICATION RoutingSpec
INVARIANT InstancesHearTheirOwn
CHECK_DEADLOCK FALSE
