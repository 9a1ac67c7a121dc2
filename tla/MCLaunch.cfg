\* Launches, regions and tool jobs side by side.
CONSTANTS
    TeamRoles = {"worker", "pm"}
    Launchers = {"l1", "l2"}
    LeaseOwners = {"o1", "o2"}
    Missions <- TheMissions
    LiveHealth = {"idle"}
    Anchors = {1}
    MaxPane = 3
    MaxLaunchGen = 2
    Builders = {"b1", "b2"}
    MaxSpaces = 2
    MaxTabs = 4
    JobIds = {"j1"}
    JobOwners = {"worker", "other"}
    JobTarget = "worker"
    TransitionIds = {1, 2, 3}
    MaxReports = 3
SPECIFICATION LaunchSpec
INVARIANTS
    LaunchTypeOK
    AgentsAreRecorded
    HoldersAreCurrent
    RegionsAreUnique
    RegionsBelongTogether
    CancellationStands
PROPERTIES
    FencesStay
    MissingIsNotNews
CHECK_DEADLOCK FALSE
