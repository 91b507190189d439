------------------------------ MODULE Bindings ------------------------------
(***************************************************************************)
(* The service binding control plane: binding.Controller, the route and    *)
(* transport registries it coordinates, the Socket.IO owner table, and the *)
(* projection of each owner that the controller publishes.                 *)
(*                                                                         *)
(* Controller.mu serialises the mutating operations but HTTP and Socket.IO *)
(* dispatch reads the registries under their own locks, so an operation    *)
(* that releases those locks in between (a batch of routes, Detach) is one *)
(* action per registry critical section.  `mu' is the operation that holds *)
(* Controller.mu.  A batch is never materialised: while the lock is held   *)
(* by a batch, any declaration may come next, and the batch may end.       *)
(***************************************************************************)

CONSTANTS
    Services,        \* service names; a name is the owner and the instance id
    Ids,             \* transport and route ids, free of surrounding blanks
    RawIds,          \* ids as declared by a service
    Trim,            \* strings.TrimSpace on RawIds
    Patterns,        \* HTTP path patterns
    SubtreePatterns, \* those that end with "/"
    ReservedHTTP,    \* patterns the kernel reserved at construction
    RawMethods,      \* HTTP methods as declared
    Methods,         \* upper-case methods, AnyMethod included
    AnyMethod,       \* the empty method: every method
    NormMethod,      \* normalizeMethod on RawMethods
    Namespaces,      \* Socket.IO namespaces
    TransportDecls,  \* transports services may declare
    RouteDecls,      \* routes services may declare
    None             \* an absent map entry, a nil pointer

Kinds == {"http", "socket.io", "file", "dir", "proxy"}
StaticKinds == {"file", "dir"}

TransportDecl == [id: RawIds, kind: Kinds, valid: BOOLEAN]

RouteDecl == [id: RawIds, transport: RawIds, valid: BOOLEAN,
              http: (Patterns \X RawMethods) \cup {None},
              socket: Namespaces \cup {None}]

\* A prepared route: the trimmed, normalised declaration and the kind of the
\* transport object it resolved at registration time.
RouteBinding == [transport: Ids, bound: Kinds,
                 http: (Patterns \X Methods) \cup {None},
                 socket: Namespaces \cup {None}]

\* What the HTTP index and the namespace table point at.
HttpEntry == [owner: Services, id: Ids, bound: Kinds]
NamespaceOwner == [owner: Services, id: Ids]

ASSUME IdsAssumption ==
    /\ Ids \subseteq RawIds
    /\ "" \notin Ids
    /\ Trim \in [RawIds -> Ids \cup {""}]
    /\ \A i \in Ids : Trim[i] = i

ASSUME HttpAssumption ==
    /\ SubtreePatterns \subseteq Patterns
    /\ ReservedHTTP \subseteq Patterns
    /\ AnyMethod \in Methods
    /\ NormMethod \in [RawMethods -> Methods]

ASSUME DeclAssumption ==
    /\ TransportDecls \subseteq TransportDecl
    /\ RouteDecls \subseteq RouteDecl

ASSUME NoneAssumption ==
    /\ None \notin Kinds
    /\ None \notin {"static", "rpc"}
    /\ None \notin Services
    /\ None \notin Namespaces
    /\ None \notin Patterns \X Methods
    /\ None \notin Patterns \X RawMethods
    /\ None \notin RouteBinding
    /\ None \notin HttpEntry
    /\ None \notin NamespaceOwner

VARIABLES
    mu,            \* Controller.mu: the operation in progress, if any
    sessions,      \* Controller.sessions: None, "static" (no connection), "rpc"
    transports,    \* transport.Registry.transports: kind of the prepared binding
    byID,          \* route.Registry.byID
    http,          \* route.Registry.http
    owners,        \* socketio.Bridge.owners
    recTransports, \* ids listed in Instance.record.Transports
    recRoutes,     \* ids listed in Instance.record.Routes
    degraded,      \* services whose Instance.degraded is set
    readModel      \* registry.Registry.records: the last published projection

vars == <<mu, sessions, transports, byID, http, owners, recTransports,
          recRoutes, degraded, readModel>>

tables == <<transports, byID, http, owners>>

Free == [op |-> "free", owner |-> None]
Held(op, s) == [op |-> op, owner |-> s]
Ops == {"free", "register", "registerFailed", "unregister",
        "sockets", "transports", "session"}

Projection == [transports: SUBSET RawIds, routes: SUBSET RawIds]

-----------------------------------------------------------------------------
(* The instance's projection: the ids under which its record lists a       *)
(* transport or route.  Adding appends the declaration, removing deletes   *)
(* the entry with the given id.  Each operation of the controller changes  *)
(* one of the two lists.                                                   *)

AddTransport(s, id) == recTransports' = [recTransports EXCEPT ![s] = @ \cup {id}]
RemoveTransport(s, id) == recTransports' = [recTransports EXCEPT ![s] = @ \ {id}]
AddRoute(s, id) == recRoutes' = [recRoutes EXCEPT ![s] = @ \cup {id}]
MutantKeepRoute(s, id) == UNCHANGED recRoutes
RemoveRoute(s, id) == recRoutes' = [recRoutes EXCEPT ![s] = @ \ {id}]

MutantPublishNothing(s) == UNCHANGED readModel

\* The controller's publish callback: refresh the read model of a service that
\* is already in it.
PublishOwner(s) ==
    readModel' = IF readModel[s] = None THEN readModel
                 ELSE [readModel EXCEPT ![s] = [transports |-> recTransports'[s],
                                                routes |-> recRoutes'[s]]]

-----------------------------------------------------------------------------
(* Sessions.                                                               *)

\* Loader.Load / loadStatic: a new instance opens the owner's session.
Attach(s, backend) ==
    /\ mu = Free
    /\ sessions[s] = None
    /\ sessions' = [sessions EXCEPT ![s] = backend]
    /\ recTransports' = [recTransports EXCEPT ![s] = {}]
    /\ recRoutes' = [recRoutes EXCEPT ![s] = {}]
    /\ degraded' = degraded \ {s}
    /\ UNCHANGED <<mu, tables, readModel>>

\* Detach, first step: route.Registry.RemoveOwner under the route lock.  Each
\* removed route deletes the index entry of its own pattern and method, or
\* clears the namespace it names if this owner still holds it.
DetachRoutes(s) ==
    /\ mu = Free
    /\ mu' = Held("sockets", s)
    /\ byID' = [byID EXCEPT ![s] = [i \in Ids |-> None]]
    /\ http' = [p \in Patterns |-> [m \in Methods |->
                  IF \E i \in Ids : byID[s][i] # None /\ byID[s][i].http = <<p, m>>
                  THEN None ELSE http[p][m]]]
    /\ owners' = [n \in Namespaces |->
                    IF /\ \E i \in Ids : byID[s][i] # None /\ byID[s][i].socket = n
                       /\ owners[n] # None
                       /\ owners[n].owner = s
                    THEN None ELSE owners[n]]
    /\ UNCHANGED <<sessions, transports, recTransports, recRoutes, degraded,
                   readModel>>

\* Bridge.RemoveOwner, after the route lock is released.
DetachSockets(s) ==
    /\ mu = Held("sockets", s)
    /\ mu' = Held("transports", s)
    /\ owners' = [n \in Namespaces |->
                    IF owners[n] # None /\ owners[n].owner = s THEN None ELSE owners[n]]
    /\ UNCHANGED <<sessions, transports, byID, http, recTransports, recRoutes,
                   degraded, readModel>>

MutantLeaveTransports(s) ==
    /\ mu = Held("transports", s)
    /\ mu' = Held("session", s)
    /\ UNCHANGED <<sessions, tables, recTransports, recRoutes, degraded,
                   readModel>>

\* transport.Registry.RemoveOwner
DetachTransports(s) ==
    /\ mu = Held("transports", s)
    /\ mu' = Held("session", s)
    /\ transports' = [transports EXCEPT ![s] = [i \in Ids |-> None]]
    /\ UNCHANGED <<sessions, byID, http, owners, recTransports, recRoutes,
                   degraded, readModel>>

DetachSession(s) ==
    /\ mu = Held("session", s)
    /\ mu' = Free
    /\ sessions' = [sessions EXCEPT ![s] = None]
    /\ UNCHANGED <<tables, recTransports, recRoutes, degraded, readModel>>

-----------------------------------------------------------------------------
(* Transports.                                                             *)

\* transport.prepare: RPC kinds need a connection, the others a usable source
\* or target.
Prepares(s, d) ==
    IF d.kind \in {"http", "socket.io"} THEN sessions[s] = "rpc" ELSE d.valid

AcceptsTransport(s, d) ==
    /\ Trim[d.id] \in Ids
    /\ Prepares(s, d)
    /\ transports[s][Trim[d.id]] = None

\* The registry keeps the trimmed id, the projection the declared one.
RegisterTransport(s, d) ==
    /\ mu = Free
    /\ sessions[s] # None
    /\ AcceptsTransport(s, d)
    /\ transports' = [transports EXCEPT ![s][Trim[d.id]] = d.kind]
    /\ AddTransport(s, d.id)
    /\ UNCHANGED recRoutes
    /\ PublishOwner(s)
    /\ UNCHANGED <<mu, sessions, byID, http, owners, degraded>>

\* A refused transport changes nothing for a host callback; loadStatic marks
\* the instance degraded and goes on with the manifest.
RejectTransport(s, d) ==
    /\ mu = Free
    /\ sessions[s] = "static"
    /\ ~AcceptsTransport(s, d)
    /\ degraded' = degraded \cup {s}
    /\ UNCHANGED <<mu, sessions, tables, recTransports, recRoutes, readModel>>

MutantUsesTransport(s, t) == FALSE

UsesTransport(s, t) ==
    \E i \in Ids : byID[s][i] # None /\ byID[s][i].transport = t

UnregisterTransport(s, id) ==
    /\ mu = Free
    /\ sessions[s] = "rpc"
    /\ Trim[id] \in Ids
    /\ ~UsesTransport(s, Trim[id])
    /\ transports[s][Trim[id]] # None
    /\ transports' = [transports EXCEPT ![s][Trim[id]] = None]
    /\ RemoveTransport(s, Trim[id])
    /\ UNCHANGED recRoutes
    /\ PublishOwner(s)
    /\ UNCHANGED <<mu, sessions, byID, http, owners, degraded>>

-----------------------------------------------------------------------------
(* Routes.                                                                 *)

methodsConflict(m, n) == m = AnyMethod \/ n = AnyMethod \/ m = n

\* One owner per path forgotten.
MutantSharedPath(s, kind, p, m) ==
    /\ kind \in {"http", "proxy"} \cup StaticKinds
    /\ p \notin ReservedHTTP
    /\ \A n \in Methods : http[p][n] # None =>
         /\ http[p][n].bound \notin StaticKinds /\ kind \notin StaticKinds
         /\ ~methodsConflict(n, m)

\* registerHTTPLocked: the conditions under which a route of service s over a
\* transport of this kind may take pattern p and method m.
AcceptsHttp(s, kind, p, m) ==
    /\ kind \in {"http", "proxy"} \cup StaticKinds
    /\ p \notin ReservedHTTP
    /\ kind \in StaticKinds =>
         /\ m \in {AnyMethod, "GET"}
         /\ kind = "dir" <=> p \in SubtreePatterns
    /\ \A n \in Methods : http[p][n] # None =>
         /\ http[p][n].owner = s
         /\ http[p][n].bound \notin StaticKinds /\ kind \notin StaticKinds
         /\ ~methodsConflict(n, m)

MutantTakenNamespace(s, kind, n) == kind = "socket.io" /\ sessions[s] = "rpc"

\* Bridge.Register: the namespace is not owned and the endpoint has a
\* connection.
AcceptsSocket(s, kind, n) ==
    /\ kind = "socket.io"
    /\ sessions[s] = "rpc"
    /\ owners[n] = None

MutantRawHttpKey(d) == d.http

HttpKey(d) == <<d.http[1], NormMethod[d.http[2]]>>

\* ErrRouteExists forgotten.
MutantDuplicateRoute(s, d) ==
    /\ Trim[d.id] \in Ids
    /\ Trim[d.transport] \in Ids
    /\ d.http = None <=> d.socket # None
    /\ transports[s][Trim[d.transport]] # None
    /\ d.valid
    /\ IF d.http # None
       THEN AcceptsHttp(s, transports[s][Trim[d.transport]], HttpKey(d)[1], HttpKey(d)[2])
       ELSE AcceptsSocket(s, transports[s][Trim[d.transport]], d.socket)

\* route.Registry.Register: `valid' stands for the checks on the declaration
\* alone (path pattern syntax, rewrite flags, namespace name).
AcceptsRoute(s, d) ==
    /\ Trim[d.id] \in Ids
    /\ Trim[d.transport] \in Ids
    /\ d.http = None <=> d.socket # None
    /\ transports[s][Trim[d.transport]] # None
    /\ byID[s][Trim[d.id]] = None
    /\ d.valid
    /\ IF d.http # None
       THEN AcceptsHttp(s, transports[s][Trim[d.transport]], HttpKey(d)[1], HttpKey(d)[2])
       ELSE AcceptsSocket(s, transports[s][Trim[d.transport]], d.socket)

\* Controller.mu is held by a batch of s; "registerFailed" once an item failed.
Registering(s) == mu \in {Held("register", s), Held("registerFailed", s)}

BeginRegisterRoutes(s) ==
    /\ mu = Free
    /\ sessions[s] # None
    /\ mu' = Held("register", s)
    /\ UNCHANGED <<sessions, tables, recTransports, recRoutes, degraded,
                   readModel>>

RegisterHttpRoute(s, d) ==
    /\ Registering(s)
    /\ d.http # None
    /\ AcceptsRoute(s, d)
    /\ LET kind == transports[s][Trim[d.transport]]
           key == HttpKey(d)
       IN /\ byID' = [byID EXCEPT ![s][Trim[d.id]] =
                        [transport |-> Trim[d.transport], bound |-> kind,
                         http |-> key, socket |-> None]]
          /\ http' = [http EXCEPT ![key[1]][key[2]] =
                        [owner |-> s, id |-> Trim[d.id], bound |-> kind]]
    /\ AddRoute(s, d.id)
    /\ UNCHANGED <<mu, sessions, transports, owners, recTransports, degraded,
                   readModel>>

RegisterSocketRoute(s, d) ==
    /\ Registering(s)
    /\ d.http = None
    /\ AcceptsRoute(s, d)
    /\ byID' = [byID EXCEPT ![s][Trim[d.id]] =
                  [transport |-> Trim[d.transport],
                   bound |-> transports[s][Trim[d.transport]],
                   http |-> None, socket |-> d.socket]]
    /\ owners' = [owners EXCEPT ![d.socket] = [owner |-> s, id |-> Trim[d.id]]]
    /\ AddRoute(s, d.id)
    /\ UNCHANGED <<mu, sessions, transports, http, recTransports, degraded,
                   readModel>>

\* A refused item is reported and the batch goes on.
RejectRoute(s, d) ==
    /\ Registering(s)
    /\ ~AcceptsRoute(s, d)
    /\ mu' = Held("registerFailed", s)
    /\ UNCHANGED <<sessions, tables, recTransports, recRoutes, degraded,
                   readModel>>

EndRegisterRoutes(s) ==
    /\ Registering(s)
    /\ mu' = Free
    /\ IF mu.op = "registerFailed"
       THEN degraded' = degraded \cup {s} ELSE UNCHANGED degraded
    /\ UNCHANGED <<recTransports, recRoutes>>
    /\ PublishOwner(s)
    /\ UNCHANGED <<sessions, tables>>

BeginUnregisterRoutes(s) ==
    /\ mu = Free
    /\ sessions[s] = "rpc"
    /\ mu' = Held("unregister", s)
    /\ UNCHANGED <<sessions, tables, recTransports, recRoutes, degraded,
                   readModel>>

\* The index entry is found by its pattern only.
MutantUnregisterRoute(s, id) ==
    /\ mu = Held("unregister", s)
    /\ Trim[id] \in Ids
    /\ byID[s][Trim[id]] # None
    /\ byID[s][Trim[id]].http # None
    /\ http' = [http EXCEPT ![byID[s][Trim[id]].http[1]] = [m \in Methods |-> None]]
    /\ byID' = [byID EXCEPT ![s][Trim[id]] = None]
    /\ RemoveRoute(s, Trim[id])
    /\ UNCHANGED <<mu, sessions, transports, owners, recTransports, degraded,
                   readModel>>

\* Unregister + removeLocked: the index entry to delete is computed from the
\* removed binding.  An unknown id is reported and changes nothing.
UnregisterRoute(s, id) ==
    /\ mu = Held("unregister", s)
    /\ Trim[id] \in Ids
    /\ byID[s][Trim[id]] # None
    /\ LET old == byID[s][Trim[id]]
       IN /\ http' = IF old.http = None THEN http
                     ELSE [http EXCEPT ![old.http[1]][old.http[2]] = None]
          /\ owners' = [n \in Namespaces |->
                          IF /\ old.socket = n
                             /\ owners[n] # None
                             /\ owners[n].owner = s
                          THEN None ELSE owners[n]]
    /\ byID' = [byID EXCEPT ![s][Trim[id]] = None]
    /\ RemoveRoute(s, Trim[id])
    /\ UNCHANGED <<mu, sessions, transports, recTransports, degraded,
                   readModel>>

EndUnregisterRoutes(s) ==
    /\ mu = Held("unregister", s)
    /\ mu' = Free
    /\ UNCHANGED <<recTransports, recRoutes>>
    /\ PublishOwner(s)
    /\ UNCHANGED <<sessions, tables, degraded>>

-----------------------------------------------------------------------------
(* The supervisor's calls on the read model, as atomic steps; module       *)
(* Lifecycle splits them and interleaves them with everything else.        *)

AddToReadModel(s) ==
    /\ sessions[s] # None
    /\ readModel[s] = None
    /\ readModel' = [readModel EXCEPT ![s] = [transports |-> recTransports[s],
                                              routes |-> recRoutes[s]]]
    /\ UNCHANGED <<mu, sessions, tables, recTransports, recRoutes, degraded>>

RemoveFromReadModel(s) ==
    /\ sessions[s] = None
    /\ readModel[s] # None
    /\ readModel' = [readModel EXCEPT ![s] = None]
    /\ UNCHANGED <<mu, sessions, tables, recTransports, recRoutes, degraded>>

-----------------------------------------------------------------------------

Init ==
    /\ mu = Free
    /\ sessions = [s \in Services |-> None]
    /\ transports = [s \in Services |-> [i \in Ids |-> None]]
    /\ byID = [s \in Services |-> [i \in Ids |-> None]]
    /\ http = [p \in Patterns |-> [m \in Methods |-> None]]
    /\ owners = [n \in Namespaces |-> None]
    /\ recTransports = [s \in Services |-> {}]
    /\ recRoutes = [s \in Services |-> {}]
    /\ degraded = {}
    /\ readModel = [s \in Services |-> None]

\* The supervisor loads a name again only after the cleanup of its previous
\* instance, which takes it out of the read model (see module Lifecycle).
SessionStep(s) ==
    \/ readModel[s] = None /\ \E backend \in {"static", "rpc"} : Attach(s, backend)
    \/ DetachRoutes(s)
    \/ DetachSockets(s)
    \/ DetachTransports(s)
    \/ DetachSession(s)

TransportStep(s) ==
    \/ \E d \in TransportDecls : RegisterTransport(s, d) \/ RejectTransport(s, d)
    \/ \E id \in RawIds : UnregisterTransport(s, id)

RouteStep(s) ==
    \/ BeginRegisterRoutes(s)
    \/ \E d \in RouteDecls : \/ RegisterHttpRoute(s, d)
                             \/ RegisterSocketRoute(s, d)
                             \/ RejectRoute(s, d)
    \/ EndRegisterRoutes(s)
    \/ BeginUnregisterRoutes(s)
    \/ \E id \in RawIds : UnregisterRoute(s, id)
    \/ EndUnregisterRoutes(s)

Next ==
    \E s \in Services : \/ SessionStep(s)
                        \/ TransportStep(s)
                        \/ RouteStep(s)
                        \/ AddToReadModel(s)
                        \/ RemoveFromReadModel(s)

Spec == Init /\ [][Next]_vars

-----------------------------------------------------------------------------
(* Properties.                                                             *)

\* The shape of every table of the control plane.
TypeOK ==
    /\ mu \in [op: Ops, owner: Services \cup {None}]
    /\ sessions \in [Services -> {None, "static", "rpc"}]
    /\ transports \in [Services -> [Ids -> Kinds \cup {None}]]
    /\ byID \in [Services -> [Ids -> RouteBinding \cup {None}]]
    /\ http \in [Patterns -> [Methods -> HttpEntry \cup {None}]]
    /\ owners \in [Namespaces -> NamespaceOwner \cup {None}]
    /\ recTransports \in [Services -> SUBSET RawIds]
    /\ recRoutes \in [Services -> SUBSET RawIds]
    /\ degraded \subseteq Services
    /\ readModel \in [Services -> Projection \cup {None}]

\* A route never outlives the transport object it resolved: whatever a request
\* is dispatched to is registered, under the id the route names, and was not
\* replaced by another transport since.  It holds between the steps of Detach
\* because routes go before transports, and across UnregisterTransport because
\* of ErrTransportInUse.
RoutesUseLiveTransports ==
    \A s \in Services, i \in Ids : byID[s][i] # None =>
        transports[s][byID[s][i].transport] = byID[s][i].bound

\* byID and the HTTP index, two maps updated separately, are the same relation:
\* no request is dispatched to an unregistered route and no registered route is
\* unreachable, although an index entry is deleted by pattern and method alone.
HttpIndexExact ==
    \A s \in Services, i \in Ids, p \in Patterns, m \in Methods :
        (byID[s][i] # None /\ byID[s][i].http = <<p, m>>) <=>
        (http[p][m] # None /\ http[p][m].owner = s /\ http[p][m].id = i)

\* The Socket.IO owner table and the registered Socket.IO routes are the same
\* relation, so events reach exactly the service whose route is registered.
NamespaceTableExact ==
    \A s \in Services, i \in Ids, n \in Namespaces :
        (byID[s][i] # None /\ byID[s][i].socket = n) <=>
        (owners[n] # None /\ owners[n].owner = s /\ owners[n].id = i)

\* At any moment a path has one owner, static content shares its path with
\* nothing, and no two routes answer the same method, however registrations of
\* different services interleave (docs/service-architecture.md, HTTP routing).
PathsUnambiguous ==
    \A p \in Patterns : \A m, n \in Methods :
        (m # n /\ http[p][m] # None /\ http[p][n] # None) =>
            /\ http[p][m].owner = http[p][n].owner
            /\ http[p][m].bound \notin StaticKinds
            /\ AnyMethod \notin {m, n}

\* A service without a session owns nothing: when Detach returns, no route,
\* index entry, namespace or transport of the owner is left for the next
\* session of the same name to collide with.
OnlySessionsOwn ==
    \A s \in Services : sessions[s] = None =>
        /\ \A i \in Ids : byID[s][i] = None /\ transports[s][i] = None
        /\ \A p \in Patterns, m \in Methods : http[p][m] # None => http[p][m].owner # s
        /\ \A n \in Namespaces : owners[n] # None => owners[n].owner # s

\* The projection lists exactly what is registered: AddTransport / AddRoute and
\* their removals keep the instance's record in step with the two registries.
ProjectionMatchesRegistries ==
    \A s \in Services : sessions[s] # None /\ mu.owner # s =>
        /\ {Trim[i] : i \in recTransports[s]} = {i \in Ids : transports[s][i] # None}
        /\ {Trim[i] : i \in recRoutes[s]} = {i \in Ids : byID[s][i] # None}

\* Whenever the controller is not working for a running service, the published
\* read model is its current projection: no binding change is left unpublished.
ReadModelFresh ==
    \A s \in Services :
        (sessions[s] # None /\ readModel[s] # None /\ mu.owner # s) =>
            readModel[s] = [transports |-> recTransports[s], routes |-> recRoutes[s]]

Table == INSTANCE BindingTable WITH open <- {s \in Services : sessions[s] # None},
                                    routes <- byID

\* The controller implements the table of bindings: although conflicts are
\* looked up in an index and in the namespace table, kept beside the routes and
\* updated in other critical sections, a route is accepted only if it conflicts
\* with no registered route of anyone, and sessions end with nothing left.
ImplementsTable == Table!Spec

=============================================================================
