CONSTANTS
    Width = 4
    Height = 3
    Bitmaps <- SmallBitmaps
    Orders <- AllOrders
    Segments <- SomeSegments
    MaxOrders = 3
    MaxSegments = 5
    U16 = 18
    Keys = {"a", "b"}
SPECIFICATION Spec
CHECK_DEADLOCK FALSE
INVARIANTS PaintsAsTold DrawnWhereItBelongs InputFollows
