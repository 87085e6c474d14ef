SPECIFICATION SystemSpec
CONSTANTS
    Action <- MCAction
    Tool <- MCTool
    ToolOf <- MCToolOf
    Recipe <- MCRecipe
    Instructions <- MCInstructions
    Profile <- MCProfile
    Capabilities <- MCCapabilities
    RETOOLING_TIME = 1
    None = None
    ConveyorSize = 3
    r1 = r1
    r2 = r2
    Robot <- MCRobot
    StartPosition <- MCStartPosition
    StartProfile <- MCStartProfile
    Agent = {"kitchen"}
    Strategies = {"simple_rearranging", "simple_reconfiguration"}
    MaxRequests = 2
    MaxOrders = 2
    FaultKinds = {"robot", "controller", "receiver"}
    MaxFaults = 1
PROPERTIES
    KitchenInContext
CHECK_DEADLOCK FALSE
