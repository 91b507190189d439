SPECIFICATION Spec
CONSTANTS
    Tokens <- MCTokens
    Paths <- MCPaths
    RuleKeys <- MCRuleKeys
    RuleGroups <- MCRuleGroups
    Patterns <- MCPatterns
    RawMethods <- MCRawMethods
    Methods <- MCMethods
    NormMethod <- MCNormMethod
    Tables <- MCTables
    Groups <- MCGroups
    Policies <- MCPolicies
    AnyMethod = ""
    None = None
INVARIANTS
    RuleIsMostSpecific
    RouteIsLongestMatch
    RefusalListsMethods
