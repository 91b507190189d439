----------------------------- MODULE MCBindings -----------------------------
(* Small instances of Bindings.  Two services compete for two patterns (one *)
(* subtree, one exact; the kernel reserves a third) and a namespace;        *)
(* the declarations are chosen so that every conflict rule is exercised.    *)
EXTENDS Bindings, TLC

CONSTANTS s1, s2

MCServices == {s1, s2}
MCIds == {"a", "b"}
\* A blank around the id a service passes to a removal or names a transport by;
\* the ids it declares are trimmed already.
MCRawIds == {"a", "b", "", " a"}
MCTrim == [i \in MCRawIds |-> IF i = " a" THEN "a" ELSE i]

MCPatterns == {"/x/", "/y", "/api/"}
MCSubtrees == {"/x/", "/api/"}
MCReserved == {"/api/"}
MCMethods == {"*", "GET", "POST"}
MCRawMethods == {"*", "GET", "get", "POST"}
MCNormMethod == [m \in MCRawMethods |-> IF m = "get" THEN "GET" ELSE m]
MCNamespaces == {"/n"}

Transport(id, kind) == [id |-> id, kind |-> kind, valid |-> TRUE]
HttpRoute(id, t, p, m) == [id |-> id, transport |-> t, valid |-> TRUE,
                           http |-> <<p, m>>, socket |-> None]
SocketRoute(id, t, n) == [id |-> id, transport |-> t, valid |-> TRUE,
                          http |-> None, socket |-> n]

\* Transport kinds share ids so that an id can be re-registered as another kind.
MCTransportDecls ==
    {Transport("a", "http"), Transport("a", "dir"), Transport("b", "socket.io"),
     [id |-> "b", kind |-> "proxy", valid |-> FALSE],
     Transport("a", "file"), Transport("b", "proxy"), Transport("", "file")}

MCRouteDecls ==
    {HttpRoute("a", "a", "/x/", "*"), HttpRoute("a", "a", "/x/", "get"),
     HttpRoute("b", "a", "/x/", "POST"), HttpRoute("b", " a", "/x/", "GET"),
     HttpRoute("b", "a", "/api/", "GET"),
     SocketRoute("a", "b", "/n"), SocketRoute("b", "b", "/n"),
     HttpRoute("a", "a", "/y", "GET"), HttpRoute("b", "b", "/x/", "POST"),
     HttpRoute("b", "b", "/y", "POST")}

ServiceSymmetry == Permutations(MCServices)
=============================================================================
