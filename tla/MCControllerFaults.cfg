SPECIFICATION Spec
CONSTANTS
    Action <- MCAction
    Tool <- MCTool
    ToolOf <- MCToolOf
    Recipe <- MCRecipe
    Instructions <- MCInstructions
    Profile <- MCProfile
    Capabilities <- MCCapabilities
    RETOOLING_TIME = 1
    None = None
    ConveyorSize = 3
    r1 = r1
    r2 = r2
    Robot <- MCRobot
    StartPosition <- MCStartPosition
    StartProfile <- MCStartProfile
    Agent = {"kitchen"}
    Strategies = {"simple_capability_check", "simple_rearranging", "simple_reconfiguration"}
    MaxRequests = 2
    FaultKinds = {"robot", "controller", "link", "receiver", "answer"}
    MaxFaults = 2
INVARIANTS
    TypeOK
    NeverRefused
    RegisteredCounted
    AvailableIsIdle
    CommittedPlaceIsOwnUnlessCut
PROPERTIES
    AnswersHold
CHECK_DEADLOCK FALSE
