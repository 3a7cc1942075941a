\* Nothing is left to do when the order is closed and its boards and reels are used up.
SPECIFICATION FloorSpec
CONSTANTS
    WorkOrders = {"w1"}
    Machines = {"m1"}
    Slots = {"s1"}
    Reels = {"ra", "rb", "rc"}
    Boards = {b1, b2}
    Panels = {"k"}
    PartOf <- MCPartOf
    Table <- MCTable
    BomAlternates <- MCBomAlternates
    TableAlternates <- MCTableAlternates
    Route <- MCRoute
    Settings <- MCSettings
    PlanQty = 1
    MaxPanel = 2
    MaxDefects = 1
    Nil = Nil
SYMMETRY Symmetry
CHECK_DEADLOCK FALSE
INVARIANT FloorTypeOK
INVARIANT ReelIsWhereItIsLoaded
INVARIANT PlacedAsVerified
INVARIANT PlanOverrunIsOnePanel
INVARIANT DefectHoldsBoard
