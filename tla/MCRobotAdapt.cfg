SPECIFICATION Spec
CONSTANTS
    Action <- MCAction
    Tool <- MCTool
    ToolOf <- MCToolOf
    Recipe <- MCRecipe
    Instructions <- MCInstructions
    Profile <- MCProfile
    Capabilities <- MCCapabilities
    RETOOLING_TIME = 1
    ConveyorSize = 4
    InitialPosition = 1
    InitialProfile = "cook1"
    MaxTasks = 3
    MaxAdaptations = 1
    MaxFaults = 1
    LosesHandoverCalls = TRUE
INVARIANTS
    TypeOK
    SingleDriver
    DishesInOrder
    HandoverIsExact
    ProcessableStepsKept
    OverallTimeExact
PROPERTIES
    AdaptsOnlyBetweenDishes
CHECK_DEADLOCK FALSE
