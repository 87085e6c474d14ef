SPECIFICATION FairSpec
CONSTANTS
    None = None
    r1 = r1
    Robot = {r1}
    Position <- MCPosition
    StartPosition <- MCStartPosition
    MaxOrders = 2
    MaxMoves = 1
    FaultKinds = {"controller", "receiver", "robot", "choose_answer",
                  "instruct_answer", "delivery_answer", "task_answer"}
    MaxFaults = 1
INVARIANTS
    GateDriven
    OrdersAccounted
    DishesAccounted
PROPERTIES
    OrdersReceived
    OrdersSettled
CHECK_DEADLOCK FALSE
