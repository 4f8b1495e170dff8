SPECIFICATION Spec
CONSTANTS
    Snake <- MCSnake
    Plans <- MCPlans
    Requests <- MCRequests
    AdminRoutes <- MCAdminRoutes
CHECK_DEADLOCK FALSE
INVARIANTS
    FrozenConsistent
    ReturnsIfValid
    HooksOrdered
    ReverseReaches
PROPERTIES
    LinksOwn
