SPECIFICATION FairSpec
CONSTANTS
    Action <- MCAction
    Tool <- MCTool
    ToolOf <- MCToolOf
    Recipe <- MCRecipe
    Instructions <- MCInstructions
    Profile <- MCProfile
    Capabilities <- MCCapabilities
    RETOOLING_TIME = 1
    ConveyorSize = 4
    InitialPosition = 1
    InitialProfile = "cook1"
    MaxTasks = 2
    MaxAdaptations = 1
    MaxFaults = 2
    LosesHandoverCalls = FALSE
INVARIANTS
    NotificationOutstanding
PROPERTIES
    DishesHandedOverOrLost
    AdaptationEnds
CHECK_DEADLOCK FALSE
