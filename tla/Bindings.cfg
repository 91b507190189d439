SPECIFICATION Spec
CONSTANTS
    s1 = s1
    s2 = s2
    None = None
    Services <- MCServices
    Ids <- MCIds
    RawIds <- MCRawIds
    Trim <- MCTrim
    Patterns <- MCPatterns
    SubtreePatterns <- MCSubtrees
    ReservedHTTP <- MCReserved
    RawMethods <- MCRawMethods
    Methods <- MCMethods
    AnyMethod = "*"
    NormMethod <- MCNormMethod
    Namespaces <- MCNamespaces
    TransportDecls <- MCTransportDecls
    RouteDecls <- MCRouteDecls
SYMMETRY ServiceSymmetry
INVARIANTS
    TypeOK
    RoutesUseLiveTransports
    HttpIndexExact
    NamespaceTableExact
    PathsUnambiguous
    OnlySessionsOwn
    ProjectionMatchesRegistries
    
PROPERTY
    ImplementsTable
