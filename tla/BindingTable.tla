---------------------------- MODULE BindingTable ----------------------------
(***************************************************************************)
(* What the binding control plane promises, without its indexes, its locks *)
(* and its read models: each open session has transports and routes under  *)
(* ids of its own; a route appears only if its transport is there and no   *)
(* route of anyone answers the same requests or events; a transport goes   *)
(* only when no route uses it; a session closes only when it owns nothing. *)
(***************************************************************************)

CONSTANTS
    Services, Ids,
    StaticKinds,  \* kinds of transport that serve files
    ReservedHTTP, \* patterns of the kernel
    AnyMethod,    \* the method that stands for all
    None

VARIABLES
    open,       \* the services that have a session
    transports, \* the kind of each transport
    routes      \* the routes

vars == <<open, transports, routes>>

\* Two HTTP routes of services s and t answer a common request, or share a path
\* in a way that is not allowed.
SamePath(s, r, t, q) ==
    /\ r.http # None /\ q.http # None /\ r.http[1] = q.http[1]
    /\ \/ s # t
       \/ r.bound \in StaticKinds \/ q.bound \in StaticKinds
       \/ r.http[2] = q.http[2] \/ AnyMethod \in {r.http[2], q.http[2]}

SameNamespace(r, q) == r.socket # None /\ r.socket = q.socket

Admissible(s, r) ==
    /\ transports[s][r.transport] = r.bound
    /\ r.http # None => r.http[1] \notin ReservedHTTP
    /\ \A t \in Services, i \in Ids : routes[t][i] # None =>
          ~SamePath(s, r, t, routes[t][i]) /\ ~SameNamespace(r, routes[t][i])

Open(s) ==
    /\ s \notin open
    /\ open' = open \cup {s}
    /\ UNCHANGED <<transports, routes>>

Close(s) ==
    /\ s \in open
    /\ \A i \in Ids : transports[s][i] = None /\ routes[s][i] = None
    /\ open' = open \ {s}
    /\ UNCHANGED <<transports, routes>>

\* The transport or route that appears is the one the service declared.
AddTransport(s, i) ==
    /\ s \in open
    /\ transports[s][i] = None /\ transports'[s][i] # None
    /\ transports' = [transports EXCEPT ![s][i] = transports'[s][i]]
    /\ UNCHANGED <<open, routes>>

AddRoute(s, i) ==
    /\ s \in open
    /\ routes[s][i] = None /\ routes'[s][i] # None
    /\ routes' = [routes EXCEPT ![s][i] = routes'[s][i]]
    /\ Admissible(s, routes'[s][i])
    /\ UNCHANGED <<open, transports>>

Unused(s, i) == \A j \in Ids : routes[s][j] # None => routes[s][j].transport # i

\* One transport or route goes, or all of a service's do at once.
RemoveTransports(s, gone) ==
    /\ \A i \in gone : Unused(s, i)
    /\ transports' = [transports EXCEPT ![s] =
                        [i \in Ids |-> IF i \in gone THEN None ELSE @[i]]]
    /\ UNCHANGED <<open, routes>>

RemoveRoutes(s, gone) ==
    /\ routes' = [routes EXCEPT ![s] =
                    [i \in Ids |-> IF i \in gone THEN None ELSE @[i]]]
    /\ UNCHANGED <<open, transports>>

Init ==
    /\ open = {}
    /\ transports = [s \in Services |-> [i \in Ids |-> None]]
    /\ routes = [s \in Services |-> [i \in Ids |-> None]]

Next ==
    \E s \in Services :
        \/ Open(s) \/ Close(s)
        \/ \E i \in Ids : AddTransport(s, i) \/ AddRoute(s, i)
        \/ \E gone \in {{i} : i \in Ids} \cup {Ids} :
              RemoveTransports(s, gone) \/ RemoveRoutes(s, gone)

Spec == Init /\ [][Next]_vars

=============================================================================
