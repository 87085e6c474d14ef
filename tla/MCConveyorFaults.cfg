SPECIFICATION Spec
CONSTANTS
    ConveyorSize = 3
    r1 = r1
    r2 = r2
    soup = soup
    salad = salad
    Robot <- MCRobot
    Dish <- MCDish
    Recipe <- MCRecipe
    RecipeOf <- MCRecipeOf
    Cooks <- MCCooks
    StartPosition <- MCStartPosition
    None = None
    MaxMoves = 2
    MaxFaults = 1
    MaxDisturbances = 2
    LosesAnswers = TRUE
INVARIANTS
    BeltDriven
    RequestsAwaitAnswers
    DishesKept
    
    AnnouncedDishIsFindable
    StepsRemain
PROPERTIES
    DishesFlow
CHECK_DEADLOCK FALSE
