----------------------------- MODULE MCDispatch -----------------------------
(* A small instance of Dispatch: nested exact and subtree patterns with the *)
(* root among them, every set of six rules, and every index that respects  *)
(* the registry's conflict rules for the listed uses of a pattern.          *)
EXTENDS Dispatch

MCTokens == {"/", "a", "b"}
Root == <<"/">>
A == <<"/", "a">>
Under == <<"/", "a", "/">>
Deep == <<"/", "a", "/", "b">>

MCPaths == {<<>>, Root, A, Under, Deep, <<"/", "b">>}
MCPatterns == {Root, A, Under}
MCRawMethods == {"GET", "HEAD", "get", "PUT"}
MCMethods == {"", "GET", "HEAD", "PUT"}
MCNormMethod == [m \in MCRawMethods |-> IF m = "get" THEN "GET" ELSE m]
MCGroups == {"g"}

Key(m, p) == [method |-> m, path |-> p]
MCRuleKeys == {Key("", Root), Key("", Under), Key("GET", Under), Key("HEAD", Under),
               Key("PUT", Deep), Key("", Deep)}
MCRuleGroups == [k \in MCRuleKeys |-> IF k.path = Deep THEN {} ELSE {"g"}]
MCPolicies == {[requireAuth |-> FALSE, groups |-> {}], [requireAuth |-> TRUE, groups |-> {}]}

\* How a pattern may be used: not at all, by one route for every method, by
\* routes for one or two methods, by static content.
Use(any, get, put) ==
    [m \in MCMethods |-> CASE m = "" -> any [] m = "GET" -> get [] m = "PUT" -> put
                           [] OTHER -> None]
Uses(p) ==
    {Use(None, None, None), Use("http", None, None), Use("proxy", None, None),
     Use(None, "http", None), Use(None, "http", "proxy"),
     IF p = A THEN Use("file", None, None) ELSE Use("dir", None, None)}
MCTables == {t \in [MCPatterns -> UNION {Uses(p) : p \in MCPatterns}] :
               \A p \in MCPatterns : t[p] \in Uses(p)}

=============================================================================
