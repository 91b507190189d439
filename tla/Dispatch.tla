------------------------------ MODULE Dispatch ------------------------------
(***************************************************************************)
(* The way of an HTTP request through the kernel: the access rules of the  *)
(* configuration (auth.RouteAccess), the route registry (matchHTTP) and the*)
(* policies of the service and of the route (serveBinding).                *)
(*                                                                         *)
(* Both searches walk over a Go map, whose order is random: a visit of an  *)
(* entry is an action, and any entry not visited yet may be next.  The     *)
(* rules are a copy of those in force when the request is checked, and the *)
(* registry is read-locked during a search, so each search works on one    *)
(* table; requests do not affect each other and one is enough.             *)
(*                                                                         *)
(* A path is the sequence of its segments and slashes: "/a/b" is           *)
(* <<"/", "a", "/", "b">>.  Patterns that match one path are prefixes of   *)
(* it, so their lengths in tokens are ordered as their lengths in bytes.   *)
(***************************************************************************)
EXTENDS Naturals, Sequences, SequencesExt

CONSTANTS
    Tokens,      \* "/" and segments
    Paths,       \* request paths
    RuleKeys,    \* keys Route.Allow may have, parsed
    RuleGroups,  \* the groups of each of these rules
    Patterns,    \* patterns of service routes
    RawMethods,  \* request methods as sent
    Methods,     \* methods of rules and routes, AnyMethod and "GET" included
    NormMethod,  \* normalizeMethod on RawMethods
    Tables,      \* contents the HTTP index may have
    Groups,      \* group names
    Policies,    \* access policies of services and routes
    AnyMethod,   \* the empty method
    None

Kinds == {"http", "file", "dir", "proxy"}

\* ValidatePathPattern
ValidPattern(p) ==
    /\ p # <<>> /\ p[1] = "/"
    /\ ~(Len(p) > 1 /\ p[Len(p) - 1] = "/" /\ p[Len(p)] = "*")

ASSUME PathAssumption ==
    /\ Paths \subseteq Seq(Tokens)
    /\ Patterns \subseteq Seq(Tokens)
    /\ \A p \in Patterns : ValidPattern(p)

ASSUME RuleAssumption ==
    /\ RuleKeys \subseteq [method: Methods, path: Seq(Tokens)]
    /\ \A k \in RuleKeys : ValidPattern(k.path)
    /\ RuleGroups \in [RuleKeys -> SUBSET Groups]
    /\ Policies \subseteq [requireAuth: BOOLEAN, groups: SUBSET Groups]

ASSUME MethodAssumption ==
    /\ AnyMethod \in Methods /\ AnyMethod \notin RawMethods /\ AnyMethod # "GET"
    /\ NormMethod \in [RawMethods -> Methods \ {AnyMethod}]

ASSUME TableAssumption == Tables \subseteq [Patterns -> [Methods -> Kinds \cup {None}]]

ASSUME NoneAssumption == None \notin RuleKeys /\ None \notin Patterns \X Methods

VARIABLES
    pc,       \* the step the request is at
    method,   \* its method
    path,     \* its path
    user,     \* the groups of its authenticated user, None without one
    allow,    \* the rules read for it
    table,    \* the HTTP index during and after the search
    left,     \* entries the search has still to visit
    rule,     \* the best rule so far
    best,     \* the longest pattern so far, <<>> for none
    wildcard, \* the route for every method at that pattern
    allowed,  \* the other methods at that pattern
    chosen,   \* the route found
    outcome   \* the answer

rulesVars == <<allow, rule>>
matchVars == <<table, best, wildcard, allowed, chosen>>
vars == <<pc, method, path, user, rulesVars, matchVars, left, outcome>>

NoTable == [p \in Patterns |-> [m \in Methods |-> None]]
Entries(t) == {e \in Patterns \X Methods : t[e[1]][e[2]] # None}

-----------------------------------------------------------------------------
(* Patterns and policies.                                                  *)

\* MatchPathPattern.  `subtree' is whether "/" stands for every path.
MatchPathPattern(request, pattern, subtree) ==
    IF pattern = <<"/">> THEN request = pattern \/ (subtree /\ IsPrefix(pattern, request))
    ELSE IF pattern[Len(pattern)] = "/" THEN IsPrefix(pattern, request)
    ELSE request = pattern

\* MethodMatchRank, one more than in the code: 0 is no match.
MethodMatchRank(request, m) ==
    IF m = request THEN 3
    ELSE IF request = "HEAD" /\ m = "GET" THEN 2
    ELSE IF m = AnyMethod THEN 1 ELSE 0

\* matchHTTP's root mode: proxies and directories are mounted.
MountsRoot(kind) == kind \in {"proxy", "dir"}

\* AccessPolicy.Check
Check(policy, u) ==
    IF ~policy.requireAuth /\ policy.groups = {} THEN "allowed"
    ELSE IF u = None THEN "unauthorized"
    ELSE IF policy.groups = {} \/ policy.groups \cap u # {} THEN "allowed" ELSE "forbidden"

-----------------------------------------------------------------------------

\* WithUser has authenticated the request; RouteAccess copies the rules.
Arrive(m, p, u, rules) ==
    /\ pc = "idle"
    /\ pc' = "rules"
    /\ method' = m /\ path' = p /\ user' = u
    /\ allow' = rules /\ left' = rules
    /\ UNCHANGED <<rule, matchVars, outcome>>

\* The method outranks the path.
MutantBeats(k, old) ==
    \/ old = None
    \/ MethodMatchRank(method, k.method) > MethodMatchRank(method, old.method)
    \/ /\ MethodMatchRank(method, k.method) = MethodMatchRank(method, old.method)
       /\ Len(k.path) > Len(old.path)

\* Rule k replaces the best so far.
Beats(k, old) ==
    \/ old = None
    \/ Len(k.path) > Len(old.path)
    \/ /\ Len(k.path) = Len(old.path)
       /\ MethodMatchRank(method, k.method) > MethodMatchRank(method, old.method)

\* MatchMethodPathPattern
Applies(k) ==
    MethodMatchRank(method, k.method) > 0 /\ MatchPathPattern(path, k.path, FALSE)

\* One iteration of matchRouteAccess.
VisitRule(k) ==
    /\ pc = "rules" /\ k \in left
    /\ left' = left \ {k}
    /\ rule' = IF Applies(k) /\ Beats(k, rule) THEN k ELSE rule
    /\ UNCHANGED <<pc, method, path, user, allow, matchVars, outcome>>

Answer(result) == pc' = "done" /\ outcome' = result

\* RouteAccess after the search: without a rule the request passes.
CheckRule ==
    /\ pc = "rules" /\ left = {}
    /\ LET decision == IF rule = None THEN "allowed"
                       ELSE Check([requireAuth |-> FALSE, groups |-> RuleGroups[rule]], user)
       IN IF decision = "allowed" THEN pc' = "match" /\ UNCHANGED outcome
          ELSE Answer(decision)
    /\ UNCHANGED <<method, path, user, rulesVars, matchVars, left>>

\* matchHTTP takes the read lock and finds some table.
BeginMatch(t) ==
    /\ pc = "match"
    /\ pc' = "patterns"
    /\ table' = t /\ left' = Entries(t)
    /\ allow' = {} /\ rule' = None
    /\ UNCHANGED <<method, path, user, best, wildcard, allowed, chosen, outcome>>

\* The first pattern found is kept.
MutantLonger(p) == best = <<>>
Longer(p) == Len(p) > Len(best)

\* The first loop of matchHTTP.
VisitPattern(e) ==
    /\ pc = "patterns" /\ e \in left
    /\ left' = left \ {e}
    /\ best' = IF /\ MatchPathPattern(path, e[1], MountsRoot(table[e[1]][e[2]]))
                  /\ Longer(e[1])
               THEN e[1] ELSE best
    /\ UNCHANGED <<pc, method, path, user, rulesVars, table, wildcard, allowed, chosen,
                   outcome>>

EndPatterns ==
    /\ pc = "patterns" /\ left = {}
    /\ IF best = <<>> THEN Answer("not found") /\ UNCHANGED left
       ELSE pc' = "methods" /\ left' = Entries(table) /\ UNCHANGED outcome
    /\ UNCHANGED <<method, path, user, rulesVars, matchVars>>

\* The second loop: it ends at a route for the request's method.
VisitMethod(e) ==
    /\ pc = "methods" /\ e \in left
    /\ LET hit == e[1] = best
           exact == hit /\ e[2] = NormMethod[method]
       IN /\ left' = IF exact THEN {} ELSE left \ {e}
          /\ pc' = IF exact THEN "serve" ELSE pc
          /\ chosen' = IF exact THEN e ELSE chosen
          /\ wildcard' = IF hit /\ e[2] = AnyMethod THEN e ELSE wildcard
          /\ allowed' = IF hit /\ ~exact /\ e[2] # AnyMethod
                        THEN allowed \cup {e[2]} ELSE allowed
    /\ UNCHANGED <<method, path, user, rulesVars, table, best, outcome>>

\* The route for every method is forgotten.
MutantEndMethods ==
    /\ pc = "methods" /\ left = {}
    /\ Answer("method not allowed")
    /\ UNCHANGED <<method, path, user, rulesVars, matchVars, left>>

EndMethods ==
    /\ pc = "methods" /\ left = {}
    /\ IF wildcard # None
       THEN pc' = "serve" /\ chosen' = wildcard /\ UNCHANGED outcome
       ELSE Answer("method not allowed") /\ UNCHANGED chosen
    /\ UNCHANGED <<method, path, user, rulesVars, table, best, wildcard, allowed, left>>

\* serveBinding: the policy of the service as it is now, then the route's.
Serve(service, route) ==
    /\ pc = "serve"
    /\ Answer(IF Check(service, user) # "allowed" THEN Check(service, user)
              ELSE IF Check(route, user) # "allowed" THEN Check(route, user)
              ELSE "served")
    /\ UNCHANGED <<method, path, user, rulesVars, matchVars, left>>

\* Nothing of the request is left.
Finish ==
    /\ pc = "done"
    /\ pc' = "idle"
    /\ method' = None /\ path' = None /\ user' = None /\ outcome' = "none"
    /\ allow' = {} /\ rule' = None
    /\ table' = NoTable /\ best' = <<>> /\ wildcard' = None /\ allowed' = {} /\ chosen' = None
    /\ left' = {}

-----------------------------------------------------------------------------

Init ==
    /\ pc = "idle"
    /\ method = None /\ path = None /\ user = None /\ outcome = "none"
    /\ allow = {} /\ rule = None
    /\ table = NoTable /\ best = <<>> /\ wildcard = None /\ allowed = {} /\ chosen = None
    /\ left = {}

Next ==
    \/ \E m \in RawMethods, p \in Paths, u \in SUBSET Groups \cup {None},
          rules \in SUBSET RuleKeys : Arrive(m, p, u, rules)
    \/ \E k \in RuleKeys : VisitRule(k)
    \/ CheckRule
    \/ \E t \in Tables : BeginMatch(t)
    \/ \E e \in Patterns \X Methods : VisitPattern(e) \/ VisitMethod(e)
    \/ EndPatterns \/ EndMethods
    \/ \E service, route \in Policies : Serve(service, route)
    \/ Finish

Spec == Init /\ [][Next]_vars

-----------------------------------------------------------------------------
(* Properties.                                                             *)

\* A rule is more specific: it is about a longer part of the path, or about the
\* same and its method is closer to the request's (docs/configuration.md).
MoreSpecific(k, j) ==
    \/ j.path # k.path /\ IsPrefix(j.path, k.path)
    \/ /\ j.path = k.path
       /\ \/ k.method = method /\ j.method # method
          \/ k.method # AnyMethod /\ j.method = AnyMethod

\* Whatever the order in which the map is walked, matchRouteAccess ends with the
\* one rule that is more specific than every other that applies.
RuleIsMostSpecific ==
    (pc = "rules" /\ left = {}) =>
        IF rule = None THEN \A k \in allow : ~Applies(k)
        ELSE /\ rule \in allow /\ Applies(rule)
             /\ \A k \in allow \ {rule} : Applies(k) => MoreSpecific(rule, k)

\* The patterns of the table that match the path.
Matching ==
    {p \in Patterns : \E m \in Methods :
        table[p][m] # None /\ MatchPathPattern(path, p, MountsRoot(table[p][m]))}

\* docs/service-architecture.md: "the longest matching pattern wins".  Whatever
\* the order of the walk, the route is one of the longest pattern, for the
\* request's method or for every method; a route that exists is found.
RouteIsLongestMatch ==
    /\ pc = "serve" =>
         /\ chosen[1] \in Matching
         /\ \A p \in Matching : IsPrefix(p, chosen[1])
         /\ table[chosen[1]][chosen[2]] # None
         /\ \/ chosen[2] = NormMethod[method]
            \/ chosen[2] = AnyMethod /\ table[chosen[1]][NormMethod[method]] = None
    /\ outcome = "not found" => Matching = {}

\* A request is refused as "method not allowed" only if no route of the longest
\* pattern takes it, and the Allow header then lists all methods that one takes.
RefusalListsMethods ==
    outcome = "method not allowed" =>
        \E p \in Matching :
            /\ \A q \in Matching : IsPrefix(q, p)
            /\ table[p][NormMethod[method]] = None /\ table[p][AnyMethod] = None
            /\ allowed = {m \in Methods : table[p][m] # None}

=============================================================================
