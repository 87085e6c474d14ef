SPECIFICATION FairSpec
CONSTANTS
    ConveyorSize = 3
    r1 = r1
    r2 = r2
    soup = soup
    salad = salad
    Robot <- MCRobot
    Dish <- MCDish
    Recipe <- MCRecipe
    RecipeOf <- MCRecipeOf
    Cooks <- MCCooksBoth
    StartPosition <- MCStartPosition
    None = None
    MaxMoves = 1
    MaxFaults = 1
    MaxDisturbances = 1
    LosesAnswers = TRUE
INVARIANTS
    TypeOK
PROPERTIES
    DishesDelivered
    BeltKeepsMoving
CHECK_DEADLOCK FALSE
