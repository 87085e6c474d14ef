SPECIFICATION FairSpec
CONSTANTS
    Action <- MCAction
    Tool <- MCTool
    ToolOf <- MCToolOf
    Recipe <- MCRecipe
    Instructions <- MCInstructions
    Profile <- MCProfile
    Capabilities <- MCCapabilities
    RETOOLING_TIME = 1
    ConveyorSize = 4
    InitialPosition = 1
    InitialProfile = "cook1"
    MaxTasks = 1
    MaxAdaptations = 1
    MaxFaults = 0
    LosesHandoverCalls = FALSE
PROPERTIES
    AcceptedDishesAreHandedOver
CHECK_DEADLOCK FALSE
