SPECIFICATION FairSpec
CONSTANTS
    a = a
    b = b
    u = u
    None = None
    Owners <- MCOwners
    Clients = {k1}
    Tokens = {t1, t2}
    Events = {e1}
    UserOf <- SameUser
    RoutePolicy <- MCRoutePolicy
    Handles <- MCHandles
    EventPolicy <- MCEventPolicy
INVARIANT TypeOK
INVARIANT IdentityIsCurrent
INVARIANT EventGoesToOwner
INVARIANT ReleasedSocketsClosed
PROPERTY LiveEndsByLogout
 
CHECK_DEADLOCK FALSE
