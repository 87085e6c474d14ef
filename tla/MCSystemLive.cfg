SPECIFICATION SystemSpec
CONSTANTS
    Action <- MCAction
    Tool <- MCTool
    ToolOf <- MCToolOf
    Recipe <- MCRecipe
    Instructions <- MCInstructions
    Profile <- MCProfile
    Capabilities <- MCCapabilities
    RETOOLING_TIME = 1
    None = None
    ConveyorSize = 3
    r1 = r1
    r2 = r2
    Robot <- MCRobot
    StartPosition <- MCStartPosition
    StartProfile <- MCStartProfile
    Agent = {"kitchen", "conveyor"}
    Strategies = {"simple_capability_check", "simple_rearranging", "simple_reconfiguration"}
    MaxRequests = 2
    MaxOrders = 1
    FaultKinds = {}
    MaxFaults = 0
PROPERTIES
    OrdersSettled
    AdaptationsEnd
    RequestsAnswered
CHECK_DEADLOCK FALSE
