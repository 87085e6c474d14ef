SPECIFICATION Spec
CONSTANTS
    ConveyorSize = 3
    r1 = r1
    r2 = r2
    soup = soup
    salad = salad
    Robot <- MCRobot
    Dish <- MCDish
    Recipe <- MCRecipe
    RecipeOf <- MCRecipeOf
    Cooks <- MCCooks
    StartPosition <- MCStartPosition
    None = None
    MaxMoves = 2
    MaxFaults = 1
    MaxDisturbances = 3
    LosesAnswers = FALSE
PROPERTIES
    NoDishOverwritten
CHECK_DEADLOCK FALSE
