--------------------------- MODULE BindingsProofs ---------------------------
(***************************************************************************)
(* Proofs about Bindings, for every set of services, ids, patterns,        *)
(* methods, namespaces and declarations.                                   *)
(***************************************************************************)
EXTENDS Bindings, TLAPS

\* The actions, without the quantifiers of Next: a step of Next is one of
\* them for some service and input.
LEMMA NextCases ==
    ASSUME Next
    PROVE  \E s \in Services :
             \/ \E backend \in {"static", "rpc"} : Attach(s, backend)
             \/ DetachRoutes(s) \/ DetachSockets(s)
             \/ DetachTransports(s) \/ DetachSession(s)
             \/ \E d \in TransportDecls : RegisterTransport(s, d)
             \/ \E d \in TransportDecls : RejectTransport(s, d)
             \/ \E id \in RawIds : UnregisterTransport(s, id)
             \/ BeginRegisterRoutes(s)
             \/ \E d \in RouteDecls : RegisterHttpRoute(s, d)
             \/ \E d \in RouteDecls : RegisterSocketRoute(s, d)
             \/ \E d \in RouteDecls : RejectRoute(s, d)
             \/ EndRegisterRoutes(s)
             \/ BeginUnregisterRoutes(s)
             \/ \E id \in RawIds : UnregisterRoute(s, id)
             \/ EndUnregisterRoutes(s)
             \/ AddToReadModel(s) \/ RemoveFromReadModel(s)
  BY Zenon DEF Next, SessionStep, TransportStep, RouteStep

\* What an accepted declaration looks like once trimmed and normalised.
LEMMA DeclTypes ==
    /\ \A d \in TransportDecls : d.id \in RawIds /\ d.kind \in Kinds
    /\ \A d \in RouteDecls :
         /\ d.id \in RawIds
         /\ d.transport \in RawIds
         /\ d.http # None => HttpKey(d) \in Patterns \X Methods
         /\ d.http # None => HttpKey(d)[1] \in Patterns /\ HttpKey(d)[2] \in Methods
         /\ d.http = None /\ d.socket # None => d.socket \in Namespaces
  <1>1. \A d \in TransportDecls : d.id \in RawIds /\ d.kind \in Kinds
    BY DeclAssumption DEF TransportDecl
  <1>2. ASSUME NEW d \in RouteDecls
        PROVE  /\ d.id \in RawIds
               /\ d.transport \in RawIds
               /\ d.http \in (Patterns \X RawMethods) \cup {None}
               /\ d.socket \in Namespaces \cup {None}
    BY DeclAssumption DEF RouteDecl
  <1>3. ASSUME NEW d \in RouteDecls, d.http # None
        PROVE  HttpKey(d)[1] \in Patterns /\ HttpKey(d)[2] \in Methods
    BY <1>2, <1>3, HttpAssumption DEF HttpKey
  <1>4. ASSUME NEW d \in RouteDecls, d.http # None
        PROVE  HttpKey(d) \in Patterns \X Methods
    BY <1>3, <1>4 DEF HttpKey
  <1> QED BY <1>1, <1>2, <1>3, <1>4

-----------------------------------------------------------------------------
(* Type correctness.                                                       *)

\* Publishing an owner keeps the read model well-typed (publishOwner).
LEMMA PublishType ==
    ASSUME NEW s \in Services, TypeOK, PublishOwner(s),
           recTransports' \in [Services -> SUBSET RawIds],
           recRoutes' \in [Services -> SUBSET RawIds]
    PROVE  readModel' \in [Services -> Projection \cup {None}]
  BY DEF TypeOK, PublishOwner, Projection

\* RegisterTransport keeps every table well-typed.
LEMMA RegisterTransportType ==
    ASSUME TypeOK, NEW s \in Services, NEW d \in TransportDecls, RegisterTransport(s, d)
    PROVE  TypeOK'
  <1>1. Trim[d.id] \in Ids
    BY DEF RegisterTransport, AcceptsTransport
  <1>2. transports' \in [Services -> [Ids -> Kinds \cup {None}]]
    BY <1>1, DeclTypes DEF TypeOK, RegisterTransport
  <1>3. recTransports' \in [Services -> SUBSET RawIds] /\ recRoutes' = recRoutes
    BY DeclTypes DEF TypeOK, RegisterTransport, AddTransport
  <1>4. readModel' \in [Services -> Projection \cup {None}]
    BY <1>3, PublishType DEF TypeOK, RegisterTransport
  <1> QED BY <1>2, <1>3, <1>4 DEF TypeOK, RegisterTransport

\* UnregisterTransport keeps every table well-typed.
LEMMA UnregisterTransportType ==
    ASSUME TypeOK, NEW s \in Services, NEW id \in RawIds, UnregisterTransport(s, id)
    PROVE  TypeOK'
  <1>1. transports' \in [Services -> [Ids -> Kinds \cup {None}]]
    BY DEF TypeOK, UnregisterTransport
  <1>2. recTransports' \in [Services -> SUBSET RawIds] /\ recRoutes' = recRoutes
    BY DEF TypeOK, UnregisterTransport, RemoveTransport
  <1>3. readModel' \in [Services -> Projection \cup {None}]
    BY <1>2, PublishType DEF TypeOK, UnregisterTransport
  <1> QED BY <1>1, <1>2, <1>3 DEF TypeOK, UnregisterTransport

\* The parts of an accepted route declaration are in the registries' domains.
LEMMA AcceptedRoute ==
    ASSUME TypeOK, NEW s \in Services, NEW d \in RouteDecls, AcceptsRoute(s, d)
    PROVE  /\ Trim[d.id] \in Ids
           /\ Trim[d.transport] \in Ids
           /\ transports[s][Trim[d.transport]] \in Kinds
           /\ byID[s][Trim[d.id]] = None
           /\ d.http = None => d.socket \in Namespaces
  <1>1. Trim[d.id] \in Ids /\ Trim[d.transport] \in Ids
    BY DEF AcceptsRoute
  <1>2. transports[s][Trim[d.transport]] # None /\ byID[s][Trim[d.id]] = None
    BY DEF AcceptsRoute
  <1>3. d.http = None => d.socket \in Namespaces
    BY DeclTypes DEF AcceptsRoute
  <1> QED BY <1>1, <1>2, <1>3 DEF TypeOK

\* Registering an HTTP route keeps every table well-typed.
LEMMA RegisterHttpRouteType ==
    ASSUME TypeOK, NEW s \in Services, NEW d \in RouteDecls, RegisterHttpRoute(s, d)
    PROVE  TypeOK'
  <1> DEFINE kind == transports[s][Trim[d.transport]]
             new == [transport |-> Trim[d.transport], bound |-> kind,
                     http |-> HttpKey(d), socket |-> None]
             entry == [owner |-> s, id |-> Trim[d.id], bound |-> kind]
  <1>1. Trim[d.id] \in Ids /\ Trim[d.transport] \in Ids /\ kind \in Kinds
    BY AcceptedRoute DEF RegisterHttpRoute
  <1>2. HttpKey(d) \in Patterns \X Methods /\ HttpKey(d)[1] \in Patterns
        /\ HttpKey(d)[2] \in Methods /\ d.id \in RawIds
    BY DeclTypes DEF RegisterHttpRoute
  <1>3. new \in RouteBinding /\ entry \in HttpEntry
    BY <1>1, <1>2 DEF RouteBinding, HttpEntry
  <1>4. byID' = [byID EXCEPT ![s][Trim[d.id]] = new]
        /\ http' = [http EXCEPT ![HttpKey(d)[1]][HttpKey(d)[2]] = entry]
    BY DEF RegisterHttpRoute
  <1> HIDE DEF new, entry, kind
  <1>5. byID' \in [Services -> [Ids -> RouteBinding \cup {None}]]
    BY <1>1, <1>3, <1>4 DEF TypeOK
  <1>6. http' \in [Patterns -> [Methods -> HttpEntry \cup {None}]]
    BY <1>2, <1>3, <1>4 DEF TypeOK
  <1>7. recRoutes' \in [Services -> SUBSET RawIds]
    BY <1>2 DEF TypeOK, RegisterHttpRoute, AddRoute
  <1> QED BY <1>5, <1>6, <1>7 DEF TypeOK, RegisterHttpRoute

\* Registering a Socket.IO route keeps every table well-typed.
LEMMA RegisterSocketRouteType ==
    ASSUME TypeOK, NEW s \in Services, NEW d \in RouteDecls, RegisterSocketRoute(s, d)
    PROVE  TypeOK'
  <1> DEFINE kind == transports[s][Trim[d.transport]]
             new == [transport |-> Trim[d.transport], bound |-> kind,
                     http |-> None, socket |-> d.socket]
             entry == [owner |-> s, id |-> Trim[d.id]]
  <1>1. Trim[d.id] \in Ids /\ Trim[d.transport] \in Ids /\ kind \in Kinds
        /\ d.socket \in Namespaces /\ d.id \in RawIds
    BY AcceptedRoute, DeclTypes DEF RegisterSocketRoute
  <1>2. new \in RouteBinding /\ entry \in NamespaceOwner
    BY <1>1 DEF RouteBinding, NamespaceOwner
  <1>3. byID' = [byID EXCEPT ![s][Trim[d.id]] = new]
        /\ owners' = [owners EXCEPT ![d.socket] = entry]
    BY DEF RegisterSocketRoute
  <1> HIDE DEF new, entry, kind
  <1>4. byID' \in [Services -> [Ids -> RouteBinding \cup {None}]]
    BY <1>1, <1>2, <1>3 DEF TypeOK
  <1>5. owners' \in [Namespaces -> NamespaceOwner \cup {None}]
    BY <1>1, <1>2, <1>3 DEF TypeOK
  <1>6. recRoutes' \in [Services -> SUBSET RawIds]
    BY <1>1 DEF TypeOK, RegisterSocketRoute, AddRoute
  <1> QED BY <1>4, <1>5, <1>6 DEF TypeOK, RegisterSocketRoute

\* Unregistering a route keeps every table well-typed.
LEMMA UnregisterRouteType ==
    ASSUME TypeOK, NEW s \in Services, NEW id \in RawIds, UnregisterRoute(s, id)
    PROVE  TypeOK'
  <1> DEFINE old == byID[s][Trim[id]]
  <1>1. old \in RouteBinding
    BY DEF TypeOK, UnregisterRoute
  <1>2. http' \in [Patterns -> [Methods -> HttpEntry \cup {None}]]
    <2>1. http' = IF old.http = None THEN http
                  ELSE [http EXCEPT ![old.http[1]][old.http[2]] = None]
      BY DEF UnregisterRoute
    <2>2. old.http # None => old.http[1] \in Patterns /\ old.http[2] \in Methods
      BY <1>1 DEF RouteBinding
    <2> HIDE DEF old
    <2> QED BY <2>1, <2>2 DEF TypeOK
  <1>3. byID' \in [Services -> [Ids -> RouteBinding \cup {None}]]
    BY DEF TypeOK, UnregisterRoute
  <1>4. owners' \in [Namespaces -> NamespaceOwner \cup {None}]
    BY DEF TypeOK, UnregisterRoute
  <1>5. recRoutes' \in [Services -> SUBSET RawIds]
    BY DEF TypeOK, UnregisterRoute, RemoveRoute
  <1> QED BY <1>2, <1>3, <1>4, <1>5 DEF TypeOK, UnregisterRoute

\* Every step of the control plane keeps every table well-typed.
LEMMA TypeStep == TypeOK /\ [Next]_vars => TypeOK'
  <1> SUFFICES ASSUME TypeOK, [Next]_vars PROVE TypeOK'
    OBVIOUS
  <1>1. CASE UNCHANGED vars
    BY <1>1 DEF TypeOK, vars
  <1>2. CASE Next
    <2> PICK s \in Services : NextCases!2!(s)
      BY <1>2, NextCases
    <2>1. ASSUME NEW backend \in {"static", "rpc"}, Attach(s, backend) PROVE TypeOK'
      BY <2>1 DEF TypeOK, Attach, tables
    <2>2. CASE DetachRoutes(s)
      BY <2>2 DEF TypeOK, DetachRoutes, Held, Ops
    <2>3. CASE DetachSockets(s)
      BY <2>3 DEF TypeOK, DetachSockets, Held, Ops
    <2>4. CASE DetachTransports(s)
      BY <2>4 DEF TypeOK, DetachTransports, Held, Ops
    <2>5. CASE DetachSession(s)
      BY <2>5 DEF TypeOK, DetachSession, Free, Ops, tables
    <2>6. ASSUME NEW d \in TransportDecls, RegisterTransport(s, d) PROVE TypeOK'
      BY <2>6, RegisterTransportType
    <2>7. ASSUME NEW d \in TransportDecls, RejectTransport(s, d) PROVE TypeOK'
      BY <2>7 DEF TypeOK, RejectTransport, tables
    <2>8. ASSUME NEW id \in RawIds, UnregisterTransport(s, id) PROVE TypeOK'
      BY <2>8, UnregisterTransportType
    <2>9. CASE BeginRegisterRoutes(s)
      BY <2>9 DEF TypeOK, BeginRegisterRoutes, Held, Ops, tables
    <2>10. ASSUME NEW d \in RouteDecls, RegisterHttpRoute(s, d) PROVE TypeOK'
      BY <2>10, RegisterHttpRouteType
    <2>11. ASSUME NEW d \in RouteDecls, RegisterSocketRoute(s, d) PROVE TypeOK'
      BY <2>11, RegisterSocketRouteType
    <2>12. ASSUME NEW d \in RouteDecls, RejectRoute(s, d) PROVE TypeOK'
      BY <2>12 DEF TypeOK, RejectRoute, Held, Ops, tables
    <2>13. CASE EndRegisterRoutes(s)
      <3>1. readModel' \in [Services -> Projection \cup {None}]
        BY <2>13, PublishType DEF EndRegisterRoutes, TypeOK
      <3> QED
        BY <2>13, <3>1 DEF TypeOK, EndRegisterRoutes, Free, Ops, tables
    <2>15. CASE BeginUnregisterRoutes(s)
      BY <2>15 DEF TypeOK, BeginUnregisterRoutes, Held, Ops, tables
    <2>16. ASSUME NEW id \in RawIds, UnregisterRoute(s, id) PROVE TypeOK'
      BY <2>16, UnregisterRouteType
    <2>17. CASE EndUnregisterRoutes(s)
      <3>1. readModel' \in [Services -> Projection \cup {None}]
        BY <2>17, PublishType DEF EndUnregisterRoutes, TypeOK
      <3> QED
        BY <2>17, <3>1 DEF TypeOK, EndUnregisterRoutes, Free, Ops, tables
    <2>18. CASE AddToReadModel(s)
      BY <2>18 DEF TypeOK, AddToReadModel, Projection, tables
    <2>19. CASE RemoveFromReadModel(s)
      BY <2>19 DEF TypeOK, RemoveFromReadModel, tables
    <2> QED
      BY <2>1, <2>2, <2>3, <2>4, <2>5, <2>6, <2>7, <2>8, <2>9, <2>10, <2>11, <2>12,
         <2>13, <2>15, <2>16, <2>17, <2>18, <2>19
  <1> QED BY <1>1, <1>2

\* Every reachable state of the control plane is well-typed.
THEOREM TypeCorrect == Spec => []TypeOK
  <1>1. Init => TypeOK
    BY DEF Init, TypeOK, Free, Ops
  <1> QED BY <1>1, TypeStep, PTL DEF Spec

-----------------------------------------------------------------------------
(* The inductive invariant.  The four table properties are inductive only  *)
(* together with what the controller lock guarantees about sessions:       *)
(* a batch works for a live session, and Detach, once past its first step, *)
(* has left its owner without routes, then without transports.             *)

NoRoutes(s) == \A i \in Ids : byID[s][i] = None
NoTransports(s) == \A i \in Ids : transports[s][i] = None

SessionInv ==
    \A s \in Services :
        /\ Registering(s) => sessions[s] # None
        /\ sessions[s] = None => NoRoutes(s) /\ NoTransports(s)
        /\ mu.owner = s /\ mu.op \in {"sockets", "transports", "session"} => NoRoutes(s)
        /\ mu.owner = s /\ mu.op = "session" => NoTransports(s)

TableInv ==
    /\ RoutesUseLiveTransports
    /\ HttpIndexExact
    /\ NamespaceTableExact
    /\ PathsUnambiguous

\* Only eight of the actions touch a registry.
LEMMA TableCases ==
    ASSUME Next
    PROVE  \/ UNCHANGED tables
           \/ \E s \in Services :
                \/ DetachRoutes(s) \/ DetachSockets(s) \/ DetachTransports(s)
                \/ \E d \in TransportDecls : RegisterTransport(s, d)
                \/ \E id \in RawIds : UnregisterTransport(s, id)
                \/ \E d \in RouteDecls : RegisterHttpRoute(s, d)
                \/ \E d \in RouteDecls : RegisterSocketRoute(s, d)
                \/ \E id \in RawIds : UnregisterRoute(s, id)
  <1> PICK s \in Services : NextCases!2!(s)
    BY NextCases
  <1>1. CASE \/ \E backend \in {"static", "rpc"} : Attach(s, backend)
             \/ DetachSession(s) \/ \E d \in TransportDecls : RejectTransport(s, d)
             \/ BeginRegisterRoutes(s) \/ \E d \in RouteDecls : RejectRoute(s, d)
             \/ EndRegisterRoutes(s) \/ BeginUnregisterRoutes(s)
             \/ EndUnregisterRoutes(s) \/ AddToReadModel(s) \/ RemoveFromReadModel(s)
    BY <1>1 DEF Attach, DetachSession, RejectTransport, BeginRegisterRoutes, RejectRoute,
       EndRegisterRoutes, BeginUnregisterRoutes, EndUnregisterRoutes,
       AddToReadModel, RemoveFromReadModel, tables
  <1> QED BY <1>1, Zenon

\* Routes keep their transport.
LEMMA LiveTransportsStep ==
    ASSUME TypeOK, SessionInv, RoutesUseLiveTransports, Next
    PROVE  RoutesUseLiveTransports'
  <1>1. CASE UNCHANGED tables
    BY <1>1 DEF tables, RoutesUseLiveTransports
  <1>2. ASSUME NEW s \in Services, DetachRoutes(s) \/ DetachSockets(s)
        PROVE  RoutesUseLiveTransports'
    <2>1. /\ transports' = transports
          /\ byID' = [byID EXCEPT ![s] = [i \in Ids |-> None]] \/ byID' = byID
      BY <1>2 DEF DetachRoutes, DetachSockets
    <2>2. \A t \in Services, i \in Ids : byID'[t][i] = None \/ byID'[t][i] = byID[t][i]
      BY <2>1, SMTT(30) DEF TypeOK
    <2> QED BY <2>1, <2>2 DEF RoutesUseLiveTransports
  <1>3. ASSUME NEW s \in Services, DetachTransports(s) PROVE RoutesUseLiveTransports'
    <2>1. NoRoutes(s)
      BY <1>3 DEF DetachTransports, SessionInv, Held
    <2> QED BY <1>3, <2>1 DEF RoutesUseLiveTransports, DetachTransports, TypeOK, NoRoutes
  <1>4. ASSUME NEW s \in Services, NEW d \in TransportDecls, RegisterTransport(s, d)
        PROVE  RoutesUseLiveTransports'
    <2>1. Trim[d.id] \in Ids /\ transports[s][Trim[d.id]] = None
      BY <1>4 DEF RegisterTransport, AcceptsTransport
    <2>2. ASSUME NEW i \in Ids, byID[s][i] # None
          PROVE  byID[s][i].transport # Trim[d.id]
      BY <2>1, <2>2, NoneAssumption DEF RoutesUseLiveTransports, TypeOK, RouteBinding
    <2> QED
      BY <1>4, <2>1, <2>2 DEF RoutesUseLiveTransports, RegisterTransport, TypeOK, RouteBinding
  <1>5. ASSUME NEW s \in Services, NEW id \in RawIds, UnregisterTransport(s, id)
        PROVE  RoutesUseLiveTransports'
    BY <1>5 DEF RoutesUseLiveTransports, UnregisterTransport, UsesTransport, TypeOK, RouteBinding
  <1>6. ASSUME NEW s \in Services, NEW d \in RouteDecls,
               RegisterHttpRoute(s, d) \/ RegisterSocketRoute(s, d)
        PROVE  RoutesUseLiveTransports'
    <2>1. Trim[d.id] \in Ids
      BY <1>6, AcceptedRoute DEF RegisterHttpRoute, RegisterSocketRoute
    <2>2. PICK b \in [transport: {Trim[d.transport]},
                      bound: {transports[s][Trim[d.transport]]},
                      http: {HttpKey(d), None}, socket: {d.socket, None}] :
            byID' = [byID EXCEPT ![s][Trim[d.id]] = b]
      BY <1>6 DEF RegisterHttpRoute, RegisterSocketRoute
    <2> QED
      BY <1>6, <2>1, <2>2
      DEF RoutesUseLiveTransports, RegisterHttpRoute, RegisterSocketRoute, TypeOK
  <1>7. ASSUME NEW s \in Services, NEW id \in RawIds, UnregisterRoute(s, id)
        PROVE  RoutesUseLiveTransports'
    BY <1>7 DEF RoutesUseLiveTransports, UnregisterRoute, TypeOK
  <1> QED BY <1>1, <1>2, <1>3, <1>4, <1>5, <1>6, <1>7, TableCases

\* The two route maps stay one relation.
LEMMA HttpIndexStep ==
    ASSUME TypeOK, HttpIndexExact, Next
    PROVE  HttpIndexExact'
  <1>1. CASE UNCHANGED tables
    BY <1>1 DEF tables, HttpIndexExact
  <1>2. ASSUME NEW s \in Services, DetachRoutes(s) PROVE HttpIndexExact'
    <2> SUFFICES ASSUME NEW t \in Services, NEW i \in Ids, NEW p \in Patterns, NEW m \in Methods
                 PROVE  (byID'[t][i] # None /\ byID'[t][i].http = <<p, m>>) <=>
                        (http'[p][m] # None /\ http'[p][m].owner = t /\ http'[p][m].id = i)
      BY DEF HttpIndexExact
    <2>1. byID'[t][i] = IF t = s THEN None ELSE byID[t][i]
      BY <1>2 DEF DetachRoutes, TypeOK
    <2>2. http'[p][m] = IF \E j \in Ids : byID[s][j] # None /\ byID[s][j].http = <<p, m>>
                        THEN None ELSE http[p][m]
      BY <1>2 DEF DetachRoutes
    <2>3. http[p][m] # None => http[p][m].owner \in Services /\ http[p][m].id \in Ids
      BY DEF TypeOK, HttpEntry
    <2> QED BY <2>1, <2>2, <2>3 DEF HttpIndexExact
  <1>3. ASSUME NEW s \in Services, NEW d \in RouteDecls, RegisterHttpRoute(s, d)
        PROVE  HttpIndexExact'
    <2> DEFINE k == HttpKey(d)
               entry == [owner |-> s, id |-> Trim[d.id], bound |-> transports[s][Trim[d.transport]]]
    <2> SUFFICES ASSUME NEW t \in Services, NEW i \in Ids, NEW p \in Patterns, NEW m \in Methods
                 PROVE  (byID'[t][i] # None /\ byID'[t][i].http = <<p, m>>) <=>
                        (http'[p][m] # None /\ http'[p][m].owner = t /\ http'[p][m].id = i)
      BY DEF HttpIndexExact
    <2>1. /\ Trim[d.id] \in Ids
          /\ byID[s][Trim[d.id]] = None
          /\ k = <<k[1], k[2]>> /\ k[1] \in Patterns /\ k[2] \in Methods
      BY <1>3, AcceptedRoute, DeclTypes DEF RegisterHttpRoute, HttpKey
    <2>2. http[k[1]][k[2]] = None
      <3>1. AcceptsHttp(s, transports[s][Trim[d.transport]], k[1], k[2])
        BY <1>3 DEF RegisterHttpRoute, AcceptsRoute
      <3> QED BY <2>1, <3>1 DEF AcceptsHttp, methodsConflict
    <2>3. IF t = s /\ i = Trim[d.id]
          THEN byID'[t][i] # None /\ byID'[t][i].http = k
          ELSE byID'[t][i] = byID[t][i]
      <3>1. /\ byID' = [byID EXCEPT ![s][Trim[d.id]] =
                          [transport |-> Trim[d.transport], bound |-> transports[s][Trim[d.transport]],
                           http |-> k, socket |-> None]]
            /\ [transport |-> Trim[d.transport], bound |-> transports[s][Trim[d.transport]],
                http |-> k, socket |-> None] # None
        BY <1>3, <2>1, AcceptedRoute, DeclTypes, NoneAssumption DEF RegisterHttpRoute, RouteBinding
      <3> QED BY <2>1, <3>1 DEF TypeOK
    <2>4. /\ http'[p][m] = IF p = k[1] /\ m = k[2] THEN entry ELSE http[p][m]
          /\ entry # None
      <3>1. http' = [http EXCEPT ![k[1]][k[2]] = entry] /\ entry # None
        BY <1>3, <2>1, AcceptedRoute, NoneAssumption DEF RegisterHttpRoute, HttpEntry
      <3> QED BY <2>1, <3>1 DEF TypeOK
    <2>5. (k = <<p, m>>) <=> (p = k[1] /\ m = k[2])
      BY <2>1
    <2>6. entry.owner = s /\ entry.id = Trim[d.id]
      OBVIOUS
    <2> HIDE DEF k, entry
    <2> QED BY <2>1, <2>2, <2>3, <2>4, <2>5, <2>6 DEF HttpIndexExact
  <1>4. ASSUME NEW s \in Services, NEW id \in RawIds, UnregisterRoute(s, id)
        PROVE  HttpIndexExact'
    <2> DEFINE old == byID[s][Trim[id]]
    <2> SUFFICES ASSUME NEW t \in Services, NEW i \in Ids, NEW p \in Patterns, NEW m \in Methods
                 PROVE  (byID'[t][i] # None /\ byID'[t][i].http = <<p, m>>) <=>
                        (http'[p][m] # None /\ http'[p][m].owner = t /\ http'[p][m].id = i)
      BY DEF HttpIndexExact
    <2>1. Trim[id] \in Ids /\ old # None /\ old \in RouteBinding
      BY <1>4 DEF UnregisterRoute, TypeOK
    <2>2. byID'[t][i] = IF t = s /\ i = Trim[id] THEN None ELSE byID[t][i]
      BY <1>4, <2>1 DEF UnregisterRoute, TypeOK
    <2>3. http'[p][m] = IF old.http = <<p, m>> THEN None ELSE http[p][m]
      <3>1. http' = IF old.http = None THEN http
                    ELSE [http EXCEPT ![old.http[1]][old.http[2]] = None]
        BY <1>4 DEF UnregisterRoute
      <3>2. \/ old.http = None /\ old.http # <<p, m>>
            \/ /\ old.http # None /\ old.http[1] \in Patterns /\ old.http[2] \in Methods
               /\ old.http = <<old.http[1], old.http[2]>>
        <4>1. old.http \in (Patterns \X Methods) \cup {None}
          BY <2>1 DEF RouteBinding
        <4>2. <<p, m>> # None
          BY NoneAssumption
        <4> HIDE DEF old
        <4>3. CASE old.http = None
          BY <4>2, <4>3
        <4>4. CASE old.http \in Patterns \X Methods
          BY <4>4, NoneAssumption
        <4> QED BY <4>1, <4>3, <4>4
      <3> HIDE DEF old
      <3>3. CASE old.http = None
        BY <3>1, <3>2, <3>3
      <3>4. CASE old.http # None
        <4>1. (old.http = <<p, m>>) <=> (p = old.http[1] /\ m = old.http[2])
          BY <3>2, <3>4
        <4>2. http'[p][m] = IF p = old.http[1] /\ m = old.http[2] THEN None ELSE http[p][m]
          BY <3>1, <3>2, <3>4 DEF TypeOK
        <4> QED BY <4>1, <4>2
      <3> QED BY <3>3, <3>4
    <2> HIDE DEF old
    <2>4. http[p][m] # None => http[p][m].owner \in Services /\ http[p][m].id \in Ids
      BY DEF TypeOK, HttpEntry
    <2> QED BY <2>1, <2>2, <2>3, <2>4 DEF HttpIndexExact, old
  <1>5. ASSUME NEW s \in Services, NEW d \in RouteDecls, RegisterSocketRoute(s, d)
        PROVE  HttpIndexExact'
    <2> DEFINE new == [transport |-> Trim[d.transport], bound |-> transports[s][Trim[d.transport]],
                       http |-> None, socket |-> d.socket]
    <2>1. /\ Trim[d.id] \in Ids /\ byID[s][Trim[d.id]] = None /\ http' = http
          /\ byID' = [byID EXCEPT ![s][Trim[d.id]] = new]
      BY <1>5, AcceptedRoute DEF RegisterSocketRoute
    <2>2. \A p \in Patterns, m \in Methods : new.http # <<p, m>>
      BY NoneAssumption
    <2> HIDE DEF new
    <2>3. \A t \in Services, i \in Ids :
            byID'[t][i] = IF t = s /\ i = Trim[d.id] THEN new ELSE byID[t][i]
      BY <2>1 DEF TypeOK
    <2> QED BY <2>1, <2>2, <2>3 DEF HttpIndexExact
  <1>6. ASSUME NEW s \in Services,
               \/ DetachSockets(s) \/ DetachTransports(s)
               \/ \E d \in TransportDecls : RegisterTransport(s, d)
               \/ \E id \in RawIds : UnregisterTransport(s, id)
        PROVE  HttpIndexExact'
    <2>1. UNCHANGED <<byID, http>>
      BY <1>6 DEF DetachSockets, DetachTransports, RegisterTransport, UnregisterTransport
    <2> QED BY <2>1 DEF HttpIndexExact
  <1> QED BY <1>1, <1>2, <1>3, <1>4, <1>5, <1>6, TableCases

\* An entry of the namespace table names a service and a route id.
LEMMA OwnerEntry ==
    ASSUME TypeOK, NEW n \in Namespaces, owners[n] # None
    PROVE  /\ owners[n].owner \in Services
           /\ owners[n].id \in Ids
  BY DEF TypeOK, NamespaceOwner

\* The namespace table stays the relation of the registered Socket.IO routes.
LEMMA NamespaceTableStep ==
    ASSUME TypeOK, SessionInv, NamespaceTableExact, Next
    PROVE  NamespaceTableExact'
  <1>1. CASE UNCHANGED tables
    BY <1>1 DEF tables, NamespaceTableExact
  <1>2. ASSUME NEW s \in Services, DetachRoutes(s) PROVE NamespaceTableExact'
    <2> SUFFICES ASSUME NEW t \in Services, NEW i \in Ids, NEW n \in Namespaces
                 PROVE  (byID'[t][i] # None /\ byID'[t][i].socket = n) <=>
                        (owners'[n] # None /\ owners'[n].owner = t /\ owners'[n].id = i)
      BY DEF NamespaceTableExact
    <2>1. byID'[t][i] = IF t = s THEN None ELSE byID[t][i]
      BY <1>2 DEF DetachRoutes, TypeOK
    <2>2. owners'[n] = IF /\ \E j \in Ids : byID[s][j] # None /\ byID[s][j].socket = n
                          /\ owners[n] # None /\ owners[n].owner = s
                       THEN None ELSE owners[n]
      BY <1>2 DEF DetachRoutes
    <2> QED BY <2>1, <2>2 DEF NamespaceTableExact
  <1>3. ASSUME NEW s \in Services, DetachSockets(s) PROVE NamespaceTableExact'
    <2>1. NoRoutes(s) /\ byID' = byID
      BY <1>3 DEF DetachSockets, SessionInv, Held
    <2>2. ASSUME NEW n \in Namespaces PROVE owners'[n] = owners[n]
      <3>1. owners'[n] = IF owners[n] # None /\ owners[n].owner = s THEN None ELSE owners[n]
        BY <1>3 DEF DetachSockets
      <3> QED BY <2>1, <3>1, OwnerEntry DEF NamespaceTableExact, NoRoutes
    <2> QED BY <2>1, <2>2 DEF NamespaceTableExact
  <1>4. ASSUME NEW s \in Services, NEW d \in RouteDecls, RegisterSocketRoute(s, d)
        PROVE  NamespaceTableExact'
    <2> DEFINE new == [transport |-> Trim[d.transport], bound |-> transports[s][Trim[d.transport]],
                       http |-> None, socket |-> d.socket]
               entry == [owner |-> s, id |-> Trim[d.id]]
    <2>1. /\ Trim[d.id] \in Ids /\ byID[s][Trim[d.id]] = None /\ d.socket \in Namespaces
          /\ new \in RouteBinding /\ entry \in NamespaceOwner
      BY <1>4, AcceptedRoute DEF RegisterSocketRoute, RouteBinding, NamespaceOwner
    <2>2. owners[d.socket] = None
      BY <1>4 DEF RegisterSocketRoute, AcceptsRoute, AcceptsSocket
    <2>3. ASSUME NEW t \in Services, NEW i \in Ids
          PROVE  byID'[t][i] = IF t = s /\ i = Trim[d.id] THEN new ELSE byID[t][i]
      BY <1>4, <2>1 DEF RegisterSocketRoute, TypeOK
    <2>4. ASSUME NEW n \in Namespaces
          PROVE  owners'[n] = IF n = d.socket THEN entry ELSE owners[n]
      BY <1>4, <2>1 DEF RegisterSocketRoute, TypeOK
    <2>5. /\ new # None /\ new.socket = d.socket
          /\ entry # None /\ entry.owner = s /\ entry.id = Trim[d.id]
      BY <2>1, NoneAssumption
    <2> HIDE DEF new, entry
    <2> QED BY <2>1, <2>2, <2>3, <2>4, <2>5 DEF NamespaceTableExact
  <1>5. ASSUME NEW s \in Services, NEW id \in RawIds, UnregisterRoute(s, id)
        PROVE  NamespaceTableExact'
    <2>1. Trim[id] \in Ids /\ byID[s][Trim[id]] # None
      BY <1>5 DEF UnregisterRoute
    <2>2. ASSUME NEW t \in Services, NEW i \in Ids
          PROVE  byID'[t][i] = IF t = s /\ i = Trim[id] THEN None ELSE byID[t][i]
      BY <1>5, <2>1 DEF UnregisterRoute, TypeOK
    <2>3. ASSUME NEW n \in Namespaces
          PROVE  owners'[n] = IF /\ byID[s][Trim[id]].socket = n
                                 /\ owners[n] # None /\ owners[n].owner = s
                              THEN None ELSE owners[n]
      BY <1>5 DEF UnregisterRoute
    <2> QED BY <2>1, <2>2, <2>3, OwnerEntry DEF NamespaceTableExact
  <1>6. ASSUME NEW s \in Services, NEW d \in RouteDecls, RegisterHttpRoute(s, d)
        PROVE  NamespaceTableExact'
    <2> DEFINE new == [transport |-> Trim[d.transport], bound |-> transports[s][Trim[d.transport]],
                       http |-> HttpKey(d), socket |-> None]
    <2>1. /\ Trim[d.id] \in Ids /\ byID[s][Trim[d.id]] = None /\ owners' = owners
          /\ byID' = [byID EXCEPT ![s][Trim[d.id]] = new]
      BY <1>6, AcceptedRoute DEF RegisterHttpRoute
    <2>2. \A n \in Namespaces : new.socket # n
      BY NoneAssumption
    <2> HIDE DEF new
    <2>3. \A t \in Services, i \in Ids :
            byID'[t][i] = IF t = s /\ i = Trim[d.id] THEN new ELSE byID[t][i]
      BY <2>1 DEF TypeOK
    <2> QED BY <2>1, <2>2, <2>3 DEF NamespaceTableExact
  <1>7. ASSUME NEW s \in Services,
               \/ DetachTransports(s)
               \/ \E d \in TransportDecls : RegisterTransport(s, d)
               \/ \E id \in RawIds : UnregisterTransport(s, id)
        PROVE  NamespaceTableExact'
    <2>1. UNCHANGED <<byID, owners>>
      BY <1>7 DEF DetachTransports, RegisterTransport, UnregisterTransport
    <2> QED BY <2>1 DEF NamespaceTableExact
  <1> QED BY <1>1, <1>2, <1>3, <1>4, <1>5, <1>6, <1>7, TableCases

\* A path keeps one owner and one answer per method.
LEMMA PathsStep ==
    ASSUME TypeOK, PathsUnambiguous, Next
    PROVE  PathsUnambiguous'
  <1>1. CASE http' = http
    BY <1>1 DEF PathsUnambiguous
  <1>2. CASE \A p \in Patterns, m \in Methods : http'[p][m] = None \/ http'[p][m] = http[p][m]
    BY <1>2 DEF PathsUnambiguous
  <1>3. ASSUME NEW s \in Services, DetachRoutes(s) PROVE PathsUnambiguous'
    BY <1>2, <1>3 DEF DetachRoutes
  <1>4. ASSUME NEW s \in Services, NEW id \in RawIds, UnregisterRoute(s, id)
        PROVE  PathsUnambiguous'
    <2> DEFINE old == byID[s][Trim[id]]
    <2>1. /\ old.http \in (Patterns \X Methods) \cup {None}
          /\ http' = IF old.http = None THEN http
                     ELSE [http EXCEPT ![old.http[1]][old.http[2]] = None]
      BY <1>4 DEF UnregisterRoute, TypeOK, RouteBinding
    <2> HIDE DEF old
    <2> QED BY <1>1, <1>2, <2>1 DEF TypeOK
  <1>5. ASSUME NEW s \in Services, NEW d \in RouteDecls, RegisterHttpRoute(s, d)
        PROVE  PathsUnambiguous'
    <2> DEFINE k == HttpKey(d)
               kind == transports[s][Trim[d.transport]]
               entry == [owner |-> s, id |-> Trim[d.id], bound |-> kind]
    <2>1. k[1] \in Patterns /\ k[2] \in Methods
      BY <1>5, DeclTypes DEF RegisterHttpRoute
    <2>2. AcceptsHttp(s, kind, k[1], k[2])
      BY <1>5 DEF RegisterHttpRoute, AcceptsRoute
    <2>3. http' = [http EXCEPT ![k[1]][k[2]] = entry]
      BY <1>5 DEF RegisterHttpRoute
    <2>4. entry.owner = s /\ entry.bound = kind
      OBVIOUS
    <2> HIDE DEF k, kind, entry
    <2>5. \A p \in Patterns, m \in Methods :
            http'[p][m] = IF p = k[1] /\ m = k[2] THEN entry ELSE http[p][m]
      BY <2>1, <2>3 DEF TypeOK
    <2>6. \A n \in Methods : http[k[1]][n] # None =>
            /\ http[k[1]][n].owner = s /\ http[k[1]][n].bound \notin StaticKinds
            /\ kind \notin StaticKinds /\ ~methodsConflict(n, k[2])
      BY <2>2 DEF AcceptsHttp
    <2>7. \A n \in Methods : ~methodsConflict(n, k[2]) => AnyMethod \notin {n, k[2]}
      BY DEF methodsConflict
    <2> QED BY <2>1, <2>4, <2>5, <2>6, <2>7 DEF PathsUnambiguous
  <1>6. ASSUME NEW s \in Services,
               \/ DetachSockets(s) \/ DetachTransports(s)
               \/ \E d \in TransportDecls : RegisterTransport(s, d)
               \/ \E id \in RawIds : UnregisterTransport(s, id)
               \/ \E d \in RouteDecls : RegisterSocketRoute(s, d)
        PROVE  PathsUnambiguous'
    BY <1>1, <1>6 DEF DetachSockets, DetachTransports, RegisterTransport,
       UnregisterTransport, RegisterSocketRoute
  <1> QED BY <1>1, <1>3, <1>4, <1>5, <1>6, TableCases DEF tables

\* Sessions, the controller lock and ownership.  Every action that changes a
\* registry or a session does so holding the lock for that service.
LEMMA SessionStepInv ==
    ASSUME TypeOK, SessionInv, Next
    PROVE  SessionInv'
  <1> USE DEF Registering, Held, Free, NoRoutes, NoTransports
  <1> PICK s \in Services : NextCases!2!(s)
    BY NextCases
  <1>1. ASSUME NEW backend \in {"static", "rpc"}, Attach(s, backend) PROVE SessionInv'
    BY <1>1, NoneAssumption, ZenonT(40) DEF SessionInv, Attach, tables, TypeOK
  <1>2. CASE DetachRoutes(s)
    <2>1. /\ byID' = [byID EXCEPT ![s] = [i \in Ids |-> None]]
          /\ transports' = transports /\ sessions' = sessions /\ mu' = Held("sockets", s)
      BY <1>2 DEF DetachRoutes
    <2> QED BY <2>1 DEF SessionInv, TypeOK
  <1>3. CASE DetachSockets(s)
    BY <1>3 DEF SessionInv, DetachSockets, TypeOK
  <1>4. CASE DetachTransports(s)
    BY <1>4 DEF SessionInv, DetachTransports, TypeOK
  <1>5. CASE DetachSession(s)
    BY <1>5, NoneAssumption DEF SessionInv, DetachSession, tables, TypeOK
  <1>6. ASSUME NEW d \in TransportDecls, RegisterTransport(s, d) PROVE SessionInv'
    BY <1>6, NoneAssumption DEF SessionInv, RegisterTransport, TypeOK
  <1>7. ASSUME NEW id \in RawIds, UnregisterTransport(s, id) PROVE SessionInv'
    BY <1>7, NoneAssumption DEF SessionInv, UnregisterTransport, TypeOK
  <1>8. CASE BeginRegisterRoutes(s)
    BY <1>8 DEF SessionInv, BeginRegisterRoutes, tables, TypeOK
  <1>9. ASSUME NEW d \in RouteDecls, RegisterHttpRoute(s, d) \/ RegisterSocketRoute(s, d)
        PROVE  SessionInv'
    <2>1. PICK b : byID' = [byID EXCEPT ![s][Trim[d.id]] = b]
      BY <1>9 DEF RegisterHttpRoute, RegisterSocketRoute
    <2>2. /\ Registering(s) /\ sessions[s] # None /\ mu' = mu /\ sessions' = sessions
          /\ transports' = transports
      BY <1>9 DEF RegisterHttpRoute, RegisterSocketRoute, SessionInv
    <2> QED BY <2>1, <2>2 DEF SessionInv, TypeOK
  <1>10. ASSUME NEW d \in RouteDecls, RejectRoute(s, d) PROVE SessionInv'
    BY <1>10 DEF SessionInv, RejectRoute, tables, TypeOK
  <1>11. CASE EndRegisterRoutes(s)
    BY <1>11, NoneAssumption DEF SessionInv, EndRegisterRoutes, tables, TypeOK
  <1>12. CASE BeginUnregisterRoutes(s)
    BY <1>12, ZenonT(40) DEF SessionInv, BeginUnregisterRoutes, tables, TypeOK
  <1>13. ASSUME NEW id \in RawIds, UnregisterRoute(s, id) PROVE SessionInv'
    <2>1. /\ byID' = [byID EXCEPT ![s][Trim[id]] = None] /\ mu' = mu
          /\ transports' = transports /\ sessions' = sessions
      BY <1>13 DEF UnregisterRoute
    <2>2. \A t \in Services : NoRoutes(t) => NoRoutes(t)'
      BY <2>1 DEF TypeOK
    <2> QED BY <2>1, <2>2 DEF SessionInv
  <1>14. CASE EndUnregisterRoutes(s)
    BY <1>14, NoneAssumption DEF SessionInv, EndUnregisterRoutes, tables, TypeOK
  <1>15. CASE \/ \E d \in TransportDecls : RejectTransport(s, d)
              \/ AddToReadModel(s) \/ RemoveFromReadModel(s)
    <2>1. UNCHANGED <<mu, sessions, transports, byID>>
      BY <1>15 DEF RejectTransport, AddToReadModel, RemoveFromReadModel, tables
    <2> QED BY <2>1 DEF SessionInv
  <1> QED BY <1>1, <1>2, <1>3, <1>4, <1>5, <1>6, <1>7, <1>8, <1>9, <1>10, <1>11,
             <1>12, <1>13, <1>14, <1>15

-----------------------------------------------------------------------------
(* The theorems.                                                           *)

\* The inductive invariant: types, lock discipline and the four table relations.
LEMMA InvInduction == Spec => [](TypeOK /\ SessionInv /\ TableInv)
  <1>1. Init => TypeOK /\ SessionInv /\ TableInv
    <2> SUFFICES ASSUME Init PROVE TypeOK /\ SessionInv /\ TableInv
      OBVIOUS
    <2>1. TypeOK
      BY DEF Init, TypeOK, Free, Ops
    <2>2. SessionInv
      BY NoneAssumption
      DEF Init, SessionInv, Registering, NoRoutes, NoTransports, Free, Held
    <2>3. TableInv
      BY DEF Init, TableInv, RoutesUseLiveTransports, HttpIndexExact, NamespaceTableExact,
         PathsUnambiguous
    <2> QED BY <2>1, <2>2, <2>3
  <1>2. TypeOK /\ SessionInv /\ TableInv /\ [Next]_vars
        => TypeOK' /\ SessionInv' /\ TableInv'
    <2> SUFFICES ASSUME TypeOK, SessionInv, TableInv, [Next]_vars
                 PROVE  TypeOK' /\ SessionInv' /\ TableInv'
      OBVIOUS
    <2>1. CASE Next
      BY <2>1, TypeStep, SessionStepInv, LiveTransportsStep, HttpIndexStep,
         NamespaceTableStep, PathsStep DEF TableInv
    <2>2. CASE UNCHANGED vars
      BY <2>2, TypeStep DEF vars, SessionInv, TableInv, RoutesUseLiveTransports,
         HttpIndexExact, NamespaceTableExact, PathsUnambiguous, Registering, NoRoutes,
         NoTransports
    <2> QED BY <2>1, <2>2
  <1> QED BY <1>1, <1>2, PTL DEF Spec

\* No route ever outlives, or loses, the transport object it was bound to.
THEOREM LiveTransports == Spec => []RoutesUseLiveTransports
  <1>1. TableInv => RoutesUseLiveTransports
    BY DEF TableInv
  <1> QED BY <1>1, InvInduction, PTL

\* The HTTP index is exactly the set of registered HTTP routes.
THEOREM HttpIndexIsExact == Spec => []HttpIndexExact
  <1>1. TableInv => HttpIndexExact
    BY DEF TableInv
  <1> QED BY <1>1, InvInduction, PTL

\* The namespace table is exactly the set of registered Socket.IO routes.
THEOREM NamespaceTableIsExact == Spec => []NamespaceTableExact
  <1>1. TableInv => NamespaceTableExact
    BY DEF TableInv
  <1> QED BY <1>1, InvInduction, PTL

\* Every path has one owner and at most one route per request method.
THEOREM PathsStayUnambiguous == Spec => []PathsUnambiguous
  <1>1. TableInv => PathsUnambiguous
    BY DEF TableInv
  <1> QED BY <1>1, InvInduction, PTL

\* A service without a session owns nothing in any of the four tables.
THEOREM NothingWithoutSession == Spec => []OnlySessionsOwn
  <1>1. TypeOK /\ SessionInv /\ TableInv => OnlySessionsOwn
    <2> SUFFICES ASSUME TypeOK, SessionInv, TableInv, NEW s \in Services, sessions[s] = None
                 PROVE  /\ \A i \in Ids : byID[s][i] = None /\ transports[s][i] = None
                        /\ \A p \in Patterns, m \in Methods :
                              http[p][m] # None => http[p][m].owner # s
                        /\ \A n \in Namespaces : owners[n] # None => owners[n].owner # s
      BY DEF OnlySessionsOwn
    <2>1. NoRoutes(s) /\ NoTransports(s)
      BY DEF SessionInv
    <2>2. \A p \in Patterns, m \in Methods : http[p][m] # None => http[p][m].id \in Ids
      BY DEF TypeOK, HttpEntry
    <2>3. \A p \in Patterns, m \in Methods : http[p][m] # None => http[p][m].owner # s
      BY <2>1, <2>2 DEF TableInv, HttpIndexExact, NoRoutes
    <2>4. \A n \in Namespaces : owners[n] # None => owners[n].owner # s
      BY <2>1, OwnerEntry DEF TableInv, NamespaceTableExact, NoRoutes
    <2> QED BY <2>1, <2>3, <2>4 DEF NoRoutes, NoTransports
  <1> QED BY <1>1, InvInduction, PTL
=============================================================================
