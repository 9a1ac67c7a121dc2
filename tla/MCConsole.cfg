\* Three daemon processes over two missions; the control center beside a shell; a pass
\* with a budget of three deliveries while the agents change.
CONSTANTS
    Daemons = {"d1", "d2", "d3"}
    MissionCount = 2
    Breakable = {1}
    NoLock = NoLock
    Shells = {"sh"}
    MaxMissions = 2
    MaxWorkspaces = 2
    Matching = {1}
    PromptRoles <- BothScouts
    Kind <- BareKind
    AgentsOf <- ScoutAgents
    LaunchedAgent <- StartedAgents
    DeliveryPasses = {"p1"}
    EffectBudget = 3
SPECIFICATION ConsoleSpec
INVARIANTS
    ConsoleTypeOK
    OneDaemonServes
    DeletedLeaveNothing
    WorkspacesAreOwned
    PromptsAreRecent
PROPERTIES
    MissionsAreServed
    ActsOnTheShown
    JobsAreReported
    FormerAgentsAreLeftAlone
CHECK_DEADLOCK FALSE
