--------------------------- MODULE DispatchProofs ---------------------------
(***************************************************************************)
(* The two searches of a request find the most specific rule and the route *)
(* of the longest pattern, in whatever order the maps are walked and for   *)
(* every set of rules and routes.                                          *)
(***************************************************************************)
EXTENDS Dispatch, TLAPS

-----------------------------------------------------------------------------
(* Prefixes of one path.                                                   *)

LEMMA PrefixOfPrefix ==
    ASSUME NEW s \in Seq(Tokens), NEW p \in Seq(Tokens), NEW q \in Seq(Tokens),
           IsPrefix(p, s), IsPrefix(q, s), Len(p) <= Len(q)
    PROVE  IsPrefix(p, q) /\ (Len(p) = Len(q) => p = q)
  <1>1. /\ Len(p) \in Nat /\ Len(q) \in Nat /\ Len(s) \in Nat
        /\ Len(p) <= Len(s) /\ Len(q) <= Len(s)
    BY DEF IsPrefix
  <1>2. \A i \in 1 .. Len(p) : p[i] = s[i]
    BY <1>1 DEF IsPrefix
  <1>3. \A i \in 1 .. Len(q) : q[i] = s[i]
    BY <1>1 DEF IsPrefix
  <1>4. \A i \in 1 .. Len(p) : p[i] = q[i]
    BY <1>1, <1>2, <1>3
  <1>5. SubSeq(p, 1, Len(p)) = SubSeq(q, 1, Len(p))
    BY <1>1, <1>4
  <1>6. Len(p) = Len(q) => p = q
    BY <1>1, <1>4
  <1> QED BY <1>1, <1>5, <1>6 DEF IsPrefix

\* Whatever the root mode, a pattern matches only paths it is a prefix of.
LEMMA MatchIsPrefix ==
    ASSUME NEW s \in Seq(Tokens), NEW p \in Seq(Tokens), NEW root \in BOOLEAN,
           MatchPathPattern(s, p, root)
    PROVE  IsPrefix(p, s)
  BY DEF MatchPathPattern, IsPrefix

-----------------------------------------------------------------------------
(* The access rules.  While the map is walked, no rule visited beats the   *)
(* best one so far.                                                        *)

RuleInv ==
    /\ pc = "idle" => rule = None
    /\ pc = "rules" =>
         /\ method \in RawMethods /\ path \in Paths
         /\ allow \subseteq RuleKeys /\ left \subseteq allow
         /\ rule = None => \A k \in allow \ left : ~Applies(k)
         /\ rule # None =>
              /\ rule \in allow /\ Applies(rule)
              /\ \A k \in allow \ left : Applies(k) => ~Beats(k, rule)

LEMMA RankIsNat ==
    \A m, n : MethodMatchRank(m, n) \in 0 .. 3
  BY DEF MethodMatchRank

\* The number a rule is compared by is the order the documentation gives.
LEMMA BeatsIsSpecific ==
    ASSUME method \in RawMethods, path \in Paths,
           NEW k \in RuleKeys, NEW j \in RuleKeys, k # j,
           Applies(k), Applies(j), ~Beats(j, k)
    PROVE  MoreSpecific(k, j)
  <1>1. /\ k.path \in Seq(Tokens) /\ j.path \in Seq(Tokens) /\ path \in Seq(Tokens)
        /\ k.method \in Methods /\ j.method \in Methods
        /\ k = [method |-> k.method, path |-> k.path]
        /\ j = [method |-> j.method, path |-> j.path]
    BY RuleAssumption, PathAssumption
  <1>2. IsPrefix(k.path, path) /\ IsPrefix(j.path, path)
    BY <1>1, MatchIsPrefix DEF Applies
  <1>3. Len(k.path) \in Nat /\ Len(j.path) \in Nat
    BY <1>1
  <1>4. CASE Len(j.path) < Len(k.path)
    <2>1. IsPrefix(j.path, k.path)
      BY <1>1, <1>2, <1>3, <1>4, PrefixOfPrefix
    <2>2. j.path # k.path
      BY <1>3, <1>4
    <2> QED BY <2>1, <2>2 DEF MoreSpecific
  <1>5. CASE Len(j.path) = Len(k.path)
    <2>1. j.path = k.path
      BY <1>1, <1>2, <1>3, <1>5, PrefixOfPrefix
    <2>2. j.method # k.method
      BY <1>1, <2>1
    <2>3. /\ MethodMatchRank(method, j.method) <= MethodMatchRank(method, k.method)
          /\ MethodMatchRank(method, j.method) > 0
      BY <1>3, <1>5, RankIsNat DEF Beats, Applies
    <2>4. \/ k.method = method /\ j.method # method
          \/ k.method # AnyMethod /\ j.method = AnyMethod
      BY <2>2, <2>3, MethodAssumption DEF MethodMatchRank
    <2> QED BY <2>1, <2>4 DEF MoreSpecific
  <1>6. CASE Len(j.path) > Len(k.path)
    BY <1>6 DEF Beats
  <1> QED BY <1>3, <1>4, <1>5, <1>6

\* A rule that beats the best one leaves no visited rule that beats it.
LEMMA BeatsIsTransitive ==
    ASSUME NEW k \in RuleKeys, NEW j \in RuleKeys, NEW i \in RuleKeys,
           Beats(k, j), ~Beats(i, j)
    PROVE  ~Beats(i, k)
  <1>1. Len(k.path) \in Nat /\ Len(j.path) \in Nat /\ Len(i.path) \in Nat
    BY RuleAssumption
  <1> DEFINE rk == MethodMatchRank(method, k.method)
             rj == MethodMatchRank(method, j.method)
             ri == MethodMatchRank(method, i.method)
  <1>2. rk \in Nat /\ rj \in Nat /\ ri \in Nat
    BY RankIsNat
  <1>3. j # None /\ k # None
    BY NoneAssumption
  <1> HIDE DEF rk, rj, ri
  <1>4. /\ Len(k.path) > Len(j.path) \/ (Len(k.path) = Len(j.path) /\ rk > rj)
        /\ ~(Len(i.path) > Len(j.path)) /\ ~(Len(i.path) = Len(j.path) /\ ri > rj)
    BY <1>3 DEF Beats, rk, rj, ri
  <1>5. ~(Len(i.path) > Len(k.path)) /\ ~(Len(i.path) = Len(k.path) /\ ri > rk)
    BY <1>1, <1>2, <1>4
  <1> QED BY <1>3, <1>5 DEF Beats, rk, ri

LEMMA BeatsIsIrreflexive ==
    ASSUME NEW k \in RuleKeys
    PROVE  ~Beats(k, k)
  BY RuleAssumption, RankIsNat, NoneAssumption DEF Beats

LEMMA RuleStep ==
    ASSUME RuleInv, [Next]_vars
    PROVE  RuleInv'
  <1>1. CASE UNCHANGED vars
    BY <1>1 DEF RuleInv, vars, rulesVars, Applies, Beats
  <1>2. ASSUME NEW m \in RawMethods, NEW p \in Paths, NEW u, NEW rules \in SUBSET RuleKeys,
               Arrive(m, p, u, rules)
        PROVE  RuleInv'
    BY <1>2 DEF Arrive, RuleInv, Applies, Beats
  <1>3. ASSUME NEW k \in RuleKeys, VisitRule(k)
        PROVE  RuleInv'
    <2>1. /\ pc = "rules" /\ k \in left /\ left' = left \ {k}
          /\ UNCHANGED <<pc, method, path, allow>>
          /\ rule' = IF Applies(k) /\ Beats(k, rule) THEN k ELSE rule
      BY <1>3 DEF VisitRule
    <2>2. \A i, j : Beats(i, j)' <=> Beats(i, j)
      BY <2>1 DEF Beats
    <2>3. \A i : Applies(i)' <=> Applies(i)
      BY <2>1 DEF Applies
    <2>4. /\ method \in RawMethods /\ path \in Paths
          /\ allow \subseteq RuleKeys /\ left \subseteq allow
      BY <2>1 DEF RuleInv
    <2>5. CASE Applies(k) /\ Beats(k, rule)
      <3>1. rule' = k /\ k # None /\ k \in allow
        BY <2>1, <2>4, <2>5, NoneAssumption
      <3>2. ASSUME NEW i \in allow \ left', Applies(i)
            PROVE  ~Beats(i, k)
        <4>1. CASE i = k
          BY <4>1, BeatsIsIrreflexive
        <4>2. CASE i # k
          <5>1. i \in allow \ left /\ i \in RuleKeys
            BY <4>2, <3>2, <2>1, <2>4
          <5>2. rule # None /\ rule \in RuleKeys /\ ~Beats(i, rule)
            BY <5>1, <3>2, <2>1, <2>4 DEF RuleInv
          <5> QED BY <5>1, <5>2, <2>5, BeatsIsTransitive
        <4> QED BY <4>1, <4>2
      <3> QED BY <2>1, <2>2, <2>3, <2>4, <2>5, <3>1, <3>2 DEF RuleInv
    <2>6. CASE ~(Applies(k) /\ Beats(k, rule))
      <3>1. rule' = rule
        BY <2>1, <2>6
      <3>2. rule = None => ~Applies(k)
        BY <2>6 DEF Beats
      <3> QED BY <2>1, <2>2, <2>3, <2>4, <2>6, <3>1, <3>2 DEF RuleInv
    <2> QED BY <2>5, <2>6
  <1>4. CASE CheckRule
    BY <1>4 DEF CheckRule, Answer, RuleInv
  <1>5. ASSUME NEW t \in Tables, BeginMatch(t) PROVE RuleInv'
    BY <1>5 DEF BeginMatch, RuleInv
  <1>6. ASSUME NEW e \in Patterns \X Methods, VisitPattern(e) \/ VisitMethod(e) PROVE RuleInv'
    BY <1>6 DEF VisitPattern, VisitMethod, RuleInv
  <1>7. CASE EndPatterns \/ EndMethods
    BY <1>7 DEF EndPatterns, EndMethods, Answer, RuleInv
  <1>8. ASSUME NEW a, NEW b, Serve(a, b) PROVE RuleInv'
    BY <1>8 DEF Serve, Answer, RuleInv
  <1>9. CASE Finish
    BY <1>9 DEF Finish, RuleInv
  <1> QED BY <1>1, <1>2, <1>3, <1>4, <1>5, <1>6, <1>7, <1>8, <1>9 DEF Next

LEMMA RuleInvImplies == RuleInv => RuleIsMostSpecific
  <1> SUFFICES ASSUME RuleInv, pc = "rules", left = {}, rule # None,
                      NEW k \in allow \ {rule}, Applies(k)
               PROVE  MoreSpecific(rule, k)
    BY DEF RuleInv, RuleIsMostSpecific
  <1>1. /\ rule \in RuleKeys /\ k \in RuleKeys /\ Applies(rule) /\ ~Beats(k, rule)
        /\ method \in RawMethods /\ path \in Paths
    BY DEF RuleInv
  <1> QED BY <1>1, BeatsIsSpecific

\* matchRouteAccess finds the one most specific rule that applies, for every set
\* of rules and every order in which Go walks the map.
THEOREM RuleSearch == Spec => []RuleIsMostSpecific
  <1>1. Init => RuleInv
    BY DEF Init, RuleInv
  <1> QED BY <1>1, RuleStep, RuleInvImplies, PTL DEF Spec

-----------------------------------------------------------------------------
(* The route registry.  The first walk keeps the longest pattern visited,  *)
(* the second collects what is registered for it.                          *)

\* A matching entry of the table.
Hit(e) == MatchPathPattern(path, e[1], MountsRoot(table[e[1]][e[2]]))

\* The pattern in `best' is the longest that matches.
BestIsLongest ==
    /\ best \in Matching
    /\ \A p \in Matching : Len(p) <= Len(best)

\* What the second walk has collected, of the entries visited so far.
Collected ==
    /\ wildcard # None => wildcard = <<best, AnyMethod>> /\ table[best][AnyMethod] # None
    /\ \A m \in allowed : m \in Methods /\ m # AnyMethod /\ table[best][m] # None
    /\ \A m \in Methods : <<best, m>> \in Entries(table) \ left =>
         /\ m # NormMethod[method]
         /\ m = AnyMethod => wildcard # None
         /\ m # AnyMethod => m \in allowed

Blank == best = <<>> /\ wildcard = None /\ allowed = {} /\ chosen = None

MatchInv ==
    /\ pc # "idle" => method \in RawMethods /\ path \in Paths
    /\ pc \in {"idle", "rules", "match"} => Blank /\ outcome = "none"
    /\ pc \in {"patterns", "methods", "serve"} => table \in Tables /\ outcome = "none"
    /\ pc = "patterns" =>
         /\ left \subseteq Entries(table)
         /\ wildcard = None /\ allowed = {}
         /\ best = <<>> => \A e \in Entries(table) \ left : ~Hit(e)
         /\ best # <<>> => /\ best \in Matching
                           /\ \A e \in Entries(table) \ left : Hit(e) => Len(e[1]) <= Len(best)
    /\ pc = "methods" =>
         left \subseteq Entries(table) /\ BestIsLongest /\ Collected
    /\ pc = "serve" =>
         /\ BestIsLongest
         /\ \E m \in Methods :
              /\ chosen = <<best, m>> /\ table[best][m] # None
              /\ \/ m = NormMethod[method]
                 \/ m = AnyMethod /\ table[best][NormMethod[method]] = None
    /\ outcome = "not found" => Matching = {}
    /\ outcome = "method not allowed" =>
         /\ table \in Tables
         /\ BestIsLongest /\ Collected /\ left = {} /\ wildcard = None

\* A pattern matches if one of its entries does.
LEMMA MatchingIsHit ==
    ASSUME NEW p \in Patterns
    PROVE  p \in Matching <=> \E e \in Entries(table) : e[1] = p /\ Hit(e)
  <1>1. ASSUME p \in Matching
        PROVE  \E e \in Entries(table) : e[1] = p /\ Hit(e)
    <2>1. PICK m \in Methods : /\ table[p][m] # None
                               /\ MatchPathPattern(path, p, MountsRoot(table[p][m]))
      BY <1>1 DEF Matching
    <2>2. <<p, m>> \in Entries(table) /\ Hit(<<p, m>>)
      BY <2>1 DEF Entries, Hit
    <2> QED BY <2>2
  <1>2. ASSUME NEW e \in Entries(table), e[1] = p, Hit(e)
        PROVE  p \in Matching
    BY <1>2 DEF Entries, Hit, Matching
  <1> QED BY <1>1, <1>2

LEMMA BlankStart == Init => MatchInv
  BY DEF Init, MatchInv, Blank

\* Steps of a request before the registry, and the end of a request.
LEMMA OtherSteps ==
    ASSUME MatchInv,
           \/ UNCHANGED vars
           \/ \E m \in RawMethods, p \in Paths, u \in SUBSET Groups \cup {None},
                 rules \in SUBSET RuleKeys : Arrive(m, p, u, rules)
           \/ \E k \in RuleKeys : VisitRule(k)
           \/ CheckRule
           \/ Finish
    PROVE  MatchInv'
  <1> USE DEF MatchInv, Blank
  <1>1. CASE UNCHANGED vars
    BY <1>1 DEF vars, rulesVars, matchVars, BestIsLongest, Collected, Matching, Hit, Entries
  <1>2. CASE \E m \in RawMethods, p \in Paths, u \in SUBSET Groups \cup {None},
                rules \in SUBSET RuleKeys : Arrive(m, p, u, rules)
    BY <1>2 DEF Arrive, matchVars
  <1>3. CASE \E k \in RuleKeys : VisitRule(k)
    BY <1>3 DEF VisitRule, matchVars
  <1>4. CASE CheckRule
    BY <1>4 DEF CheckRule, Check, Answer, matchVars
  <1>5. CASE Finish
    BY <1>5 DEF Finish
  <1> QED BY <1>1, <1>2, <1>3, <1>4, <1>5

LEMMA BeginMatchStep ==
    ASSUME MatchInv, NEW t \in Tables, BeginMatch(t)
    PROVE  MatchInv'
  BY DEF MatchInv, Blank, BeginMatch

LEMMA VisitPatternStep ==
    ASSUME MatchInv, NEW e \in Patterns \X Methods, VisitPattern(e)
    PROVE  MatchInv'
  <1>1. /\ pc = "patterns" /\ e \in left /\ left' = left \ {e}
        /\ UNCHANGED <<pc, method, path, table, wildcard, allowed, outcome>>
        /\ best' = IF Hit(e) /\ Longer(e[1]) THEN e[1] ELSE best
    BY DEF VisitPattern, Hit
  <1>2. /\ method \in RawMethods /\ path \in Paths /\ table \in Tables /\ outcome = "none"
        /\ left \subseteq Entries(table) /\ wildcard = None /\ allowed = {}
    BY <1>1 DEF MatchInv
  <1>3. /\ Matching' = Matching /\ Entries(table)' = Entries(table)
        /\ \A d : Hit(d)' <=> Hit(d)
    BY <1>1 DEF Matching, Entries, Hit
  <1>4. \A p \in Patterns : Len(p) \in Nat /\ Len(p) > 0 /\ p # <<>>
    BY PathAssumption DEF ValidPattern
  <1>5. \A d \in Entries(table) : d[1] \in Patterns
    BY DEF Entries
  <1>6. Matching \subseteq Patterns
    BY DEF Matching
  <1>7. CASE Hit(e) /\ Longer(e[1])
    <2>1. best' = e[1] /\ e[1] # <<>> /\ e[1] \in Matching /\ e \in Entries(table)
      BY <1>1, <1>2, <1>4, <1>5, <1>7, MatchingIsHit
    <2>2. ASSUME NEW d \in Entries(table) \ left', Hit(d)
          PROVE  Len(d[1]) <= Len(e[1])
      <3>1. CASE d = e
        BY <3>1, <1>4
      <3>2. CASE d # e
        <4>1. best # <<>> /\ best \in Patterns /\ Len(d[1]) <= Len(best)
          BY <3>2, <2>2, <1>1, <1>6 DEF MatchInv
        <4> QED BY <4>1, <1>4, <1>5, <1>7 DEF Longer
      <3> QED BY <3>1, <3>2
    <2> QED BY <1>1, <1>2, <1>3, <2>1, <2>2 DEF MatchInv
  <1>8. CASE ~(Hit(e) /\ Longer(e[1]))
    <2>1. best' = best
      BY <1>1, <1>8
    <2>2. best = <<>> => ~Hit(e)
      <3>1. Len(<<>>) = 0
        OBVIOUS
      <3> QED BY <1>4, <1>8, <3>1 DEF Longer
    <2>3. best # <<>> /\ Hit(e) => Len(e[1]) <= Len(best)
      <3> SUFFICES ASSUME best # <<>>, Hit(e) PROVE Len(e[1]) <= Len(best)
        OBVIOUS
      <3>1. best \in Patterns
        BY <1>1, <1>6 DEF MatchInv
      <3> QED BY <3>1, <1>4, <1>8 DEF Longer
    <2> QED BY <1>1, <1>2, <1>3, <2>1, <2>2, <2>3 DEF MatchInv
  <1> QED BY <1>7, <1>8

LEMMA EndPatternsStep ==
    ASSUME MatchInv, EndPatterns
    PROVE  MatchInv'
  <1>1. /\ pc = "patterns" /\ left = {}
        /\ UNCHANGED <<method, path, table, best, wildcard, allowed, chosen>>
    BY DEF EndPatterns, matchVars
  <1>2. /\ method \in RawMethods /\ path \in Paths /\ table \in Tables /\ outcome = "none"
        /\ wildcard = None /\ allowed = {}
    BY <1>1 DEF MatchInv
  <1>3. /\ Matching' = Matching /\ Entries(table)' = Entries(table)
        /\ Matching \subseteq Patterns
    BY <1>1 DEF Matching, Entries
  <1>4. CASE best = <<>>
    <2>1. pc' = "done" /\ outcome' = "not found"
      BY <1>4 DEF EndPatterns, Answer
    <2>2. \A e \in Entries(table) : ~Hit(e)
      BY <1>1, <1>4 DEF MatchInv
    <2>3. Matching = {}
      BY <1>3, <2>2, MatchingIsHit
    <2> QED BY <1>1, <1>2, <1>3, <2>1, <2>3 DEF MatchInv
  <1>5. CASE best # <<>>
    <2>1. pc' = "methods" /\ left' = Entries(table) /\ outcome' = "none"
      BY <1>2, <1>5 DEF EndPatterns
    <2>2. \A e \in Entries(table) : Hit(e) => Len(e[1]) <= Len(best)
      BY <1>1, <1>5 DEF MatchInv
    <2>3. best \in Matching /\ \A p \in Matching : Len(p) <= Len(best)
      BY <1>1, <1>3, <1>5, <2>2, MatchingIsHit DEF MatchInv
    <2>4. BestIsLongest' /\ Collected'
      BY <1>1, <1>2, <1>3, <2>1, <2>3 DEF BestIsLongest, Collected
    <2> QED BY <1>1, <1>2, <1>3, <2>1, <2>4 DEF MatchInv
  <1> QED BY <1>4, <1>5

LEMMA VisitMethodStep ==
    ASSUME MatchInv, NEW e \in Patterns \X Methods, VisitMethod(e)
    PROVE  MatchInv'
  <1> DEFINE exact == e[1] = best /\ e[2] = NormMethod[method]
  <1>1. /\ pc = "methods" /\ e \in left
        /\ UNCHANGED <<method, path, table, best, outcome>>
        /\ left' = IF exact THEN {} ELSE left \ {e}
        /\ pc' = IF exact THEN "serve" ELSE "methods"
        /\ chosen' = IF exact THEN e ELSE chosen
        /\ wildcard' = IF e[1] = best /\ e[2] = AnyMethod THEN e ELSE wildcard
        /\ allowed' = IF e[1] = best /\ ~exact /\ e[2] # AnyMethod
                      THEN allowed \cup {e[2]} ELSE allowed
    BY DEF VisitMethod
  <1>2. /\ method \in RawMethods /\ path \in Paths /\ table \in Tables /\ outcome = "none"
        /\ left \subseteq Entries(table) /\ BestIsLongest /\ Collected
    BY <1>1 DEF MatchInv
  <1>3. /\ Matching' = Matching /\ Entries(table)' = Entries(table)
        /\ BestIsLongest'
    BY <1>1, <1>2 DEF Matching, Entries, BestIsLongest
  <1>4. e = <<e[1], e[2]>> /\ e[2] \in Methods /\ table[e[1]][e[2]] # None
    BY <1>1, <1>2 DEF Entries
  <1>5. CASE exact
    <2>1. pc' = "serve" /\ chosen' = <<best, e[2]>> /\ e[2] = NormMethod'[method']
      BY <1>1, <1>4, <1>5
    <2>2. table'[best'][e[2]] # None
      BY <1>1, <1>4, <1>5
    <2> QED BY <1>1, <1>2, <1>3, <1>4, <2>1, <2>2 DEF MatchInv
  <1>6. CASE ~exact
    <2>1. pc' = "methods" /\ left' = left \ {e} /\ left' \subseteq Entries(table)
      BY <1>1, <1>2, <1>6
    <2>2. Collected'
      <3>1. wildcard' # None =>
              wildcard' = <<best, AnyMethod>> /\ table[best][AnyMethod] # None
        BY <1>1, <1>2, <1>4 DEF Collected
      <3>2. \A m \in allowed' : m \in Methods /\ m # AnyMethod /\ table[best][m] # None
        BY <1>1, <1>2, <1>4 DEF Collected
      <3>3. ASSUME NEW m \in Methods, <<best, m>> \in Entries(table) \ left'
            PROVE  /\ m # NormMethod[method]
                   /\ m = AnyMethod => wildcard' # None
                   /\ m # AnyMethod => m \in allowed'
        <4>1. CASE <<best, m>> = e
          <5>1. e[1] = best /\ e[2] = m
            BY <4>1
          <5>2. e # None
            BY NoneAssumption
          <5> QED BY <1>1, <1>6, <5>1, <5>2
        <4>2. CASE <<best, m>> # e
          <5>1. <<best, m>> \in Entries(table) \ left
            BY <2>1, <3>3, <4>2
          <5>2. /\ m # NormMethod[method]
                /\ m = AnyMethod => wildcard # None
                /\ m # AnyMethod => m \in allowed
            BY <1>2, <5>1 DEF Collected
          <5>3. e # None
            BY NoneAssumption
          <5> QED BY <1>1, <5>2, <5>3
        <4> QED BY <4>1, <4>2
      <3> QED BY <1>1, <1>3, <3>1, <3>2, <3>3 DEF Collected
    <2> QED BY <1>1, <1>2, <1>3, <2>1, <2>2 DEF MatchInv
  <1> QED BY <1>5, <1>6

LEMMA EndMethodsStep ==
    ASSUME MatchInv, EndMethods
    PROVE  MatchInv'
  <1>1. /\ pc = "methods" /\ left = {}
        /\ UNCHANGED <<method, path, table, best, wildcard, allowed, left>>
    BY DEF EndMethods
  <1>2. /\ method \in RawMethods /\ path \in Paths /\ table \in Tables /\ outcome = "none"
        /\ BestIsLongest /\ Collected
    BY <1>1 DEF MatchInv
  <1>3. /\ Matching' = Matching /\ Entries(table)' = Entries(table)
        /\ BestIsLongest' /\ Collected'
    BY <1>1, <1>2 DEF Matching, Entries, BestIsLongest, Collected
  <1>4. best \in Patterns
    BY <1>2 DEF BestIsLongest, Matching
  <1>5. CASE wildcard # None
    <2>1. pc' = "serve" /\ chosen' = wildcard /\ outcome' = "none"
      BY <1>2, <1>5 DEF EndMethods
    <2>2. chosen' = <<best, AnyMethod>> /\ table[best][AnyMethod] # None
      BY <1>2, <1>5, <2>1 DEF Collected
    <2>3. table[best][NormMethod[method]] = None
      <3>1. NormMethod[method] \in Methods
        BY <1>2, MethodAssumption
      <3>2. <<best, NormMethod[method]>> \notin Entries(table)
        BY <1>1, <1>2, <3>1 DEF Collected
      <3> QED BY <1>4, <3>1, <3>2 DEF Entries
    <2> QED BY <1>1, <1>2, <1>3, <2>1, <2>2, <2>3, MethodAssumption DEF MatchInv
  <1>6. CASE wildcard = None
    <2>1. pc' = "done" /\ outcome' = "method not allowed"
      BY <1>6 DEF EndMethods, Answer
    <2> QED BY <1>1, <1>2, <1>3, <1>6, <2>1 DEF MatchInv
  <1> QED BY <1>5, <1>6

LEMMA ServeStep ==
    ASSUME MatchInv, NEW service \in Policies, NEW route \in Policies, Serve(service, route)
    PROVE  MatchInv'
  <1>1. /\ pc = "serve" /\ pc' = "done"
        /\ UNCHANGED <<method, path>>
    BY DEF Serve, Answer
  <1>2. outcome' \in {"served", "unauthorized", "forbidden"}
    BY DEF Serve, Answer, Check
  <1> QED BY <1>1, <1>2 DEF MatchInv

LEMMA MatchStep ==
    ASSUME MatchInv, [Next]_vars
    PROVE  MatchInv'
  BY OtherSteps, BeginMatchStep, VisitPatternStep, EndPatternsStep, VisitMethodStep,
     EndMethodsStep, ServeStep DEF Next

\* Patterns that match one path are prefixes of the longest of them.
LEMMA LongestIsAbove ==
    ASSUME path \in Paths, BestIsLongest
    PROVE  \A p \in Matching : IsPrefix(p, best)
  <1> SUFFICES ASSUME NEW p \in Matching PROVE IsPrefix(p, best)
    OBVIOUS
  <1>1. /\ p \in Seq(Tokens) /\ best \in Seq(Tokens) /\ path \in Seq(Tokens)
        /\ Len(p) <= Len(best)
    BY PathAssumption DEF BestIsLongest, Matching
  <1>2. \A kind : MountsRoot(kind) \in BOOLEAN
    BY DEF MountsRoot
  <1>3. ASSUME NEW q \in Matching PROVE IsPrefix(q, path)
    <2>1. q \in Seq(Tokens) /\ \E root \in BOOLEAN : MatchPathPattern(path, q, root)
      BY <1>2, PathAssumption DEF Matching
    <2> QED BY <1>1, <2>1, MatchIsPrefix
  <1>4. IsPrefix(p, path) /\ IsPrefix(best, path)
    BY <1>3 DEF BestIsLongest
  <1> QED BY <1>1, <1>4, PrefixOfPrefix

\* matchHTTP finds a route of the longest matching pattern, for the request's
\* method or for every method, whatever the index holds and however it is walked;
\* it answers "not found" only if nothing matches.
THEOREM RouteSearch == Spec => []RouteIsLongestMatch
  <1>1. MatchInv => RouteIsLongestMatch
    <2> SUFFICES ASSUME MatchInv, pc = "serve"
                 PROVE  /\ chosen[1] \in Matching
                        /\ \A p \in Matching : IsPrefix(p, chosen[1])
                        /\ table[chosen[1]][chosen[2]] # None
                        /\ \/ chosen[2] = NormMethod[method]
                           \/ chosen[2] = AnyMethod /\ table[chosen[1]][NormMethod[method]] = None
      BY DEF MatchInv, RouteIsLongestMatch
    <2>1. path \in Paths /\ BestIsLongest
      BY DEF MatchInv
    <2>2. PICK m \in Methods :
            /\ chosen = <<best, m>> /\ table[best][m] # None
            /\ \/ m = NormMethod[method]
               \/ m = AnyMethod /\ table[best][NormMethod[method]] = None
      BY DEF MatchInv
    <2>3. best \in Matching /\ \A p \in Matching : IsPrefix(p, best)
      BY <2>1, LongestIsAbove DEF BestIsLongest
    <2> QED BY <2>2, <2>3
  <1> QED BY <1>1, BlankStart, MatchStep, PTL DEF Spec

\* A request is refused for its method only if no route of the longest pattern
\* takes it, and the methods listed are exactly those of that pattern.
THEOREM RefusalIsExact == Spec => []RefusalListsMethods
  <1>1. MatchInv => RefusalListsMethods
    <2> SUFFICES ASSUME MatchInv, outcome = "method not allowed"
                 PROVE  /\ best \in Matching
                        /\ \A q \in Matching : IsPrefix(q, best)
                        /\ table[best][NormMethod[method]] = None
                        /\ table[best][AnyMethod] = None
                        /\ allowed = {m \in Methods : table[best][m] # None}
      BY DEF RefusalListsMethods
    <2>1. BestIsLongest /\ Collected /\ left = {} /\ wildcard = None
      BY DEF MatchInv
    <2>2. method \in RawMethods /\ path \in Paths
      BY DEF MatchInv
    <2>3. best \in Matching /\ best \in Patterns /\ \A q \in Matching : IsPrefix(q, best)
      BY <2>1, <2>2, LongestIsAbove DEF BestIsLongest, Matching
    <2>4. \A m \in Methods : table[best][m] # None => <<best, m>> \in Entries(table)
      BY <2>3 DEF Entries
    <2>5. \A m \in Methods : table[best][m] # None =>
            m # NormMethod[method] /\ m # AnyMethod /\ m \in allowed
      BY <2>1, <2>4 DEF Collected
    <2>6. NormMethod[method] \in Methods /\ AnyMethod \in Methods
      BY <2>2, MethodAssumption
    <2>7. \A m \in allowed : m \in Methods /\ table[best][m] # None
      BY <2>1 DEF Collected
    <2> QED BY <2>3, <2>5, <2>6, <2>7
  <1> QED BY <1>1, BlankStart, MatchStep, PTL DEF Spec

=============================================================================
