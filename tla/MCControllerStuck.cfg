SPECIFICATION FairSpec
CONSTANTS
    Action <- MCAction
    Tool <- MCTool
    ToolOf <- MCToolOf
    Recipe <- MCRecipe
    Instructions <- MCInstructions
    Profile <- MCProfile
    Capabilities <- MCCapabilities
    RETOOLING_TIME = 1
    None = None
    ConveyorSize = 3
    r1 = r1
    r2 = r2
    Robot <- MCRobot
    StartPosition <- MCStartPosition
    StartProfile <- MCStartProfile
    Agent = {"kitchen"}
    Strategies = {"simple_rearranging"}
    MaxRequests = 1
    FaultKinds = {"controller"}
    MaxFaults = 1
PROPERTIES
    StuckRobotsResolved
CHECK_DEADLOCK FALSE
