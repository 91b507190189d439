------------------------- MODULE BindingTableProofs -------------------------
(***************************************************************************)
(* What the binding control plane shows to the outside, for every set of   *)
(* services, ids, patterns, methods, namespaces and declarations: the      *)
(* records it keeps and publishes of each owner, and the table of bindings *)
(* it implements.                                                          *)
(***************************************************************************)
EXTENDS BindingsProofs

-----------------------------------------------------------------------------
(* The published read model.                                               *)

\* Publishing an owner replaces what the read model has of it by its record.
LEMMA PublishFresh ==
    ASSUME TypeOK, NEW s \in Services, PublishOwner(s), ReadModelFresh,
           UNCHANGED sessions, mu'.owner \in {mu.owner, None},
           \A t \in Services \ {s} : mu.owner # t,
           \A t \in Services \ {s} : recTransports'[t] = recTransports[t]
                                     /\ recRoutes'[t] = recRoutes[t]
    PROVE  ReadModelFresh'
  <1> SUFFICES ASSUME NEW t \in Services, sessions'[t] # None, readModel'[t] # None
               PROVE  readModel'[t] = [transports |-> recTransports'[t], routes |-> recRoutes'[t]]
    BY DEF ReadModelFresh
  <1>1. CASE t = s
    BY <1>1 DEF PublishOwner, TypeOK
  <1>2. CASE t # s
    <2>1. readModel'[t] = readModel[t]
      BY <1>2 DEF PublishOwner, TypeOK
    <2> QED BY <1>2, <2>1 DEF ReadModelFresh
  <1> QED BY <1>1, <1>2

LEMMA FreshStep ==
    ASSUME TypeOK, SessionInv, ReadModelFresh, [Next]_vars
    PROVE  ReadModelFresh'
  <1> USE DEF Held, Free
  <1>1. ASSUME NEW s \in Services, NEW backend \in {"static", "rpc"}, readModel[s] = None,
               Attach(s, backend)
        PROVE  ReadModelFresh'
    BY <1>1 DEF ReadModelFresh, Attach, TypeOK
  <1>2. ASSUME NEW s \in Services,
               \/ DetachRoutes(s) \/ DetachSockets(s) \/ DetachTransports(s)
               \/ BeginRegisterRoutes(s) \/ BeginUnregisterRoutes(s)
               \/ \E d \in RouteDecls : RejectRoute(s, d)
               \/ \E d \in TransportDecls : RejectTransport(s, d)
        PROVE  ReadModelFresh'
    <2>1. /\ UNCHANGED <<sessions, readModel, recTransports, recRoutes>>
          /\ mu' = mu \/ mu.owner = None \/ mu'.owner = mu.owner
      BY <1>2 DEF DetachRoutes, DetachSockets, DetachTransports, BeginRegisterRoutes,
         BeginUnregisterRoutes, RejectRoute, RejectTransport, Registering
    <2> QED BY <2>1, NoneAssumption DEF ReadModelFresh
  <1>3. ASSUME NEW s \in Services, DetachSession(s) PROVE ReadModelFresh'
    BY <1>3 DEF ReadModelFresh, DetachSession, TypeOK
  <1>4. ASSUME NEW s \in Services, NEW d \in TransportDecls, RegisterTransport(s, d)
        PROVE  ReadModelFresh'
    <2>1. PublishOwner(s) /\ UNCHANGED <<sessions, mu, recRoutes>> /\ mu.owner = None
          /\ \A t \in Services \ {s} : recTransports'[t] = recTransports[t]
      BY <1>4 DEF RegisterTransport, AddTransport, TypeOK
    <2> QED BY <2>1, PublishFresh, NoneAssumption
  <1>5. ASSUME NEW s \in Services, NEW id \in RawIds, UnregisterTransport(s, id)
        PROVE  ReadModelFresh'
    <2>1. PublishOwner(s) /\ UNCHANGED <<sessions, mu, recRoutes>> /\ mu.owner = None
          /\ \A t \in Services \ {s} : recTransports'[t] = recTransports[t]
      BY <1>5 DEF UnregisterTransport, RemoveTransport, TypeOK
    <2> QED BY <2>1, PublishFresh, NoneAssumption
  <1>6. ASSUME NEW s \in Services,
               \/ \E d \in RouteDecls : RegisterHttpRoute(s, d) \/ RegisterSocketRoute(s, d)
               \/ \E id \in RawIds : UnregisterRoute(s, id)
        PROVE  ReadModelFresh'
    <2>1. \A t \in Services \ {s} : recRoutes'[t] = recRoutes[t]
      <3>1. \/ \E id : recRoutes' = [recRoutes EXCEPT ![s] = @ \cup {id}]
            \/ \E id : recRoutes' = [recRoutes EXCEPT ![s] = @ \ {id}]
        BY <1>6, Zenon
        DEF RegisterHttpRoute, RegisterSocketRoute, UnregisterRoute, AddRoute, RemoveRoute
      <3> QED BY <3>1 DEF TypeOK
    <2>2. /\ mu \in {Held("register", s), Held("registerFailed", s), Held("unregister", s)}
          /\ mu' = mu /\ sessions' = sessions /\ readModel' = readModel
          /\ recTransports' = recTransports
      BY <1>6, Zenon DEF RegisterHttpRoute, RegisterSocketRoute, UnregisterRoute, Registering
    <2>3. mu.owner = s
      BY <2>2
    <2> QED BY <2>1, <2>2, <2>3 DEF ReadModelFresh
  <1>7. ASSUME NEW s \in Services, EndRegisterRoutes(s) \/ EndUnregisterRoutes(s)
        PROVE  ReadModelFresh'
    <2>1. /\ PublishOwner(s) /\ UNCHANGED <<sessions, recTransports, recRoutes>>
          /\ mu.owner = s /\ mu'.owner = None
      BY <1>7 DEF EndRegisterRoutes, EndUnregisterRoutes, Registering
    <2> QED BY <2>1, PublishFresh
  <1>8. ASSUME NEW s \in Services, AddToReadModel(s) \/ RemoveFromReadModel(s)
        PROVE  ReadModelFresh'
    BY <1>8 DEF ReadModelFresh, AddToReadModel, RemoveFromReadModel, TypeOK
  <1>9. CASE UNCHANGED vars
    BY <1>9 DEF vars, ReadModelFresh
  <1> QED
    BY <1>1, <1>2, <1>3, <1>4, <1>5, <1>6, <1>7, <1>8, <1>9
    DEF Next, SessionStep, TransportStep, RouteStep

\* No binding change of a service in the read model is left unpublished.
THEOREM ReadModelSafety == Spec => []ReadModelFresh
  <1>1. Init => ReadModelFresh
    BY DEF Init, ReadModelFresh
  <1> QED BY <1>1, FreshStep, InvInduction, PTL DEF Spec

-----------------------------------------------------------------------------
(* The record of an instance, when services declare ids without blanks.    *)

\* The ids that are accepted are declared the way they are kept.
Unpadded ==
    /\ \A d \in TransportDecls : Trim[d.id] \in Ids => d.id = Trim[d.id]
    /\ \A d \in RouteDecls : Trim[d.id] \in Ids => d.id = Trim[d.id]

\* The record lists what is registered also between the items of a batch, and
\* until Detach has removed it.
RecordInv ==
    \A s \in Services : sessions[s] # None =>
        /\ ~(mu.owner = s /\ mu.op = "session") =>
              recTransports[s] = {i \in Ids : transports[s][i] # None}
        /\ ~(mu.owner = s /\ mu.op \in {"sockets", "transports", "session"}) =>
              recRoutes[s] = {i \in Ids : byID[s][i] # None}

LEMMA RecordStep ==
    ASSUME Unpadded, TypeOK, SessionInv, RecordInv, [Next]_vars
    PROVE  RecordInv'
  <1> USE DEF Held, Free
  <1>1. ASSUME NEW s \in Services, NEW backend \in {"static", "rpc"}, Attach(s, backend)
        PROVE  RecordInv'
    <2>1. NoRoutes(s) /\ NoTransports(s)
      BY <1>1 DEF Attach, SessionInv
    <2> QED BY <1>1, <2>1 DEF RecordInv, Attach, tables, TypeOK, NoRoutes, NoTransports
  <1>2. ASSUME NEW s \in Services, DetachRoutes(s) PROVE RecordInv'
    <2>1. /\ UNCHANGED <<sessions, transports, recTransports, recRoutes>>
          /\ mu.owner = None /\ mu'.owner = s /\ mu'.op = "sockets"
          /\ \A t \in Services \ {s} : byID'[t] = byID[t]
      BY <1>2 DEF DetachRoutes, TypeOK
    <2> QED BY <2>1, NoneAssumption DEF RecordInv
  <1>3. ASSUME NEW s \in Services, DetachSockets(s) \/ DetachTransports(s) PROVE RecordInv'
    <2>1. /\ UNCHANGED <<sessions, byID, recTransports, recRoutes>>
          /\ mu.owner = s /\ mu'.owner = s /\ mu'.op \in {"transports", "session"}
          /\ mu'.op = "transports" => UNCHANGED transports
          /\ \A t \in Services \ {s} : transports'[t] = transports[t]
          /\ mu.op \in {"sockets", "transports"}
      BY <1>3 DEF DetachSockets, DetachTransports, TypeOK
    <2> QED BY <2>1 DEF RecordInv
  <1>4. ASSUME NEW s \in Services, DetachSession(s) PROVE RecordInv'
    <2>1. /\ UNCHANGED <<transports, byID, recTransports, recRoutes>>
          /\ mu.owner = s /\ mu'.owner = None
          /\ sessions' = [sessions EXCEPT ![s] = None]
      BY <1>4 DEF DetachSession, tables
    <2> QED BY <2>1 DEF RecordInv, TypeOK
  <1>5. ASSUME NEW s \in Services, NEW d \in TransportDecls, RegisterTransport(s, d)
        PROVE  RecordInv'
    <2> DEFINE id == Trim[d.id]
    <2>1. /\ id \in Ids /\ d.id = id /\ d.kind # None
          /\ transports' = [transports EXCEPT ![s][id] = d.kind]
          /\ recTransports' = [recTransports EXCEPT ![s] = @ \cup {id}]
          /\ UNCHANGED <<mu, sessions, byID, recRoutes>>
          /\ mu.op = "free" /\ mu.owner = None /\ sessions[s] # None
      BY <1>5, DeclTypes, NoneAssumption
      DEF RegisterTransport, AcceptsTransport, AddTransport, Unpadded
    <2>2. /\ recTransports'[s] = recTransports[s] \cup {id}
          /\ \A i \in Ids : transports'[s][i] = IF i = id THEN d.kind ELSE transports[s][i]
          /\ \A t \in Services \ {s} :
                recTransports'[t] = recTransports[t] /\ transports'[t] = transports[t]
      BY <2>1 DEF TypeOK
    <2> HIDE DEF id
    <2>3. recTransports[s] = {i \in Ids : transports[s][i] # None}
      BY <2>1 DEF RecordInv
    <2>4. recTransports'[s] = {i \in Ids : transports'[s][i] # None}
      BY <2>1, <2>2, <2>3
    <2> QED BY <2>1, <2>2, <2>4 DEF RecordInv
  <1>6. ASSUME NEW s \in Services, NEW id \in RawIds, UnregisterTransport(s, id)
        PROVE  RecordInv'
    <2> DEFINE j == Trim[id]
    <2>1. /\ j \in Ids
          /\ transports' = [transports EXCEPT ![s][j] = None]
          /\ recTransports' = [recTransports EXCEPT ![s] = @ \ {j}]
          /\ UNCHANGED <<mu, sessions, byID, recRoutes>>
          /\ mu.op = "free" /\ mu.owner = None /\ (sessions[s] # None \/ sessions[s] = None)
      BY <1>6 DEF UnregisterTransport, RemoveTransport
    <2>2. /\ recTransports'[s] = recTransports[s] \ {j}
          /\ \A i \in Ids : transports'[s][i] = IF i = j THEN None ELSE transports[s][i]
          /\ \A t \in Services \ {s} :
                recTransports'[t] = recTransports[t] /\ transports'[t] = transports[t]
      BY <2>1 DEF TypeOK
    <2> HIDE DEF j
    <2>3. sessions[s] # None => recTransports[s] = {i \in Ids : transports[s][i] # None}
      BY <2>1 DEF RecordInv
    <2>4. sessions[s] # None => recTransports'[s] = {i \in Ids : transports'[s][i] # None}
      BY <2>1, <2>2, <2>3
    <2> QED BY <2>1, <2>2, <2>4 DEF RecordInv
  <1>7. ASSUME NEW s \in Services, NEW d \in RouteDecls,
               RegisterHttpRoute(s, d) \/ RegisterSocketRoute(s, d)
        PROVE  RecordInv'
    <2> DEFINE id == Trim[d.id]
    <2>1. id \in Ids /\ d.id = id /\ Registering(s) /\ AcceptsRoute(s, d)
      BY <1>7, AcceptedRoute DEF RegisterHttpRoute, RegisterSocketRoute, Unpadded
    <2>2. PICK b \in RouteBinding : byID' = [byID EXCEPT ![s][id] = b]
      <3>1. byID'[s][id] \in RouteBinding \cup {None}
        BY <1>7, <2>1, RegisterHttpRouteType, RegisterSocketRouteType DEF TypeOK
      <3>2. PICK c : byID' = [byID EXCEPT ![s][id] = c] /\ c # None
        <4>1. Trim[d.transport] \in Ids /\ transports[s][Trim[d.transport]] \in Kinds
              /\ (d.http = None => d.socket \in Namespaces)
              /\ (d.http # None => HttpKey(d) \in Patterns \X Methods)
          BY <2>1, AcceptedRoute, DeclTypes
        <4>2. CASE RegisterHttpRoute(s, d)
          <5> DEFINE c == [transport |-> Trim[d.transport],
                           bound |-> transports[s][Trim[d.transport]],
                           http |-> HttpKey(d), socket |-> None]
          <5>1. c \in RouteBinding
            BY <4>1, <4>2 DEF RegisterHttpRoute, RouteBinding
          <5>2. byID' = [byID EXCEPT ![s][id] = c]
            BY <4>2 DEF RegisterHttpRoute
          <5>3. c # None
            BY <5>1, NoneAssumption
          <5> HIDE DEF c
          <5> QED BY <5>2, <5>3
        <4>3. CASE RegisterSocketRoute(s, d)
          <5> DEFINE c == [transport |-> Trim[d.transport],
                           bound |-> transports[s][Trim[d.transport]],
                           http |-> None, socket |-> d.socket]
          <5>1. c \in RouteBinding
            BY <4>1, <4>3 DEF RegisterSocketRoute, RouteBinding
          <5>2. byID' = [byID EXCEPT ![s][id] = c]
            BY <4>3 DEF RegisterSocketRoute
          <5>3. c # None
            BY <5>1, NoneAssumption
          <5> HIDE DEF c
          <5> QED BY <5>2, <5>3
        <4> QED BY <1>7, <4>2, <4>3
      <3>3. byID'[s][id] = c
        BY <2>1, <3>2 DEF TypeOK
      <3> QED BY <3>1, <3>2, <3>3
    <2>3. /\ UNCHANGED <<mu, sessions, transports, recTransports>>
          /\ recRoutes' = [recRoutes EXCEPT ![s] = @ \cup {id}]
          /\ mu.op \in {"register", "registerFailed"} /\ sessions[s] # None
      BY <1>7, <2>1 DEF RegisterHttpRoute, RegisterSocketRoute, AddRoute, Registering, SessionInv
    <2> HIDE DEF id
    <2>4. /\ recRoutes'[s] = recRoutes[s] \cup {id}
          /\ \A i \in Ids : byID'[s][i] = IF i = id THEN b ELSE byID[s][i]
          /\ \A t \in Services \ {s} : recRoutes'[t] = recRoutes[t] /\ byID'[t] = byID[t]
      BY <2>1, <2>2, <2>3 DEF TypeOK
    <2>5. recRoutes[s] = {i \in Ids : byID[s][i] # None}
      BY <2>3 DEF RecordInv
    <2>6. recRoutes'[s] = {i \in Ids : byID'[s][i] # None}
      BY <2>1, <2>4, <2>5, NoneAssumption
    <2> QED BY <2>3, <2>4, <2>6 DEF RecordInv
  <1>8. ASSUME NEW s \in Services, NEW id \in RawIds, UnregisterRoute(s, id)
        PROVE  RecordInv'
    <2> DEFINE j == Trim[id]
    <2>1. /\ j \in Ids /\ byID' = [byID EXCEPT ![s][j] = None]
          /\ recRoutes' = [recRoutes EXCEPT ![s] = @ \ {j}]
          /\ UNCHANGED <<mu, sessions, transports, recTransports>> /\ mu.op = "unregister"
      BY <1>8 DEF UnregisterRoute, RemoveRoute
    <2>2. /\ recRoutes'[s] = recRoutes[s] \ {j}
          /\ \A i \in Ids : byID'[s][i] = IF i = j THEN None ELSE byID[s][i]
          /\ \A t \in Services \ {s} : recRoutes'[t] = recRoutes[t] /\ byID'[t] = byID[t]
      BY <2>1 DEF TypeOK
    <2> HIDE DEF j
    <2>3. sessions[s] # None => recRoutes[s] = {i \in Ids : byID[s][i] # None}
      BY <2>1 DEF RecordInv
    <2>4. sessions[s] # None => recRoutes'[s] = {i \in Ids : byID'[s][i] # None}
      BY <2>1, <2>2, <2>3
    <2> QED BY <2>1, <2>2, <2>4 DEF RecordInv
  <1>9. ASSUME NEW s \in Services,
               \/ BeginRegisterRoutes(s) \/ EndRegisterRoutes(s)
               \/ BeginUnregisterRoutes(s) \/ EndUnregisterRoutes(s)
               \/ \E d \in RouteDecls : RejectRoute(s, d)
               \/ \E d \in TransportDecls : RejectTransport(s, d)
               \/ AddToReadModel(s) \/ RemoveFromReadModel(s)
        PROVE  RecordInv'
    <2>1. /\ UNCHANGED <<sessions, transports, byID, recTransports, recRoutes>>
          /\ \/ mu' = mu
             \/ mu.op \notin {"sockets", "transports", "session"}
                /\ mu'.op \notin {"sockets", "transports", "session"}
      BY <1>9 DEF BeginRegisterRoutes, EndRegisterRoutes, BeginUnregisterRoutes,
         EndUnregisterRoutes, RejectRoute, RejectTransport, AddToReadModel,
         RemoveFromReadModel, Registering, tables
    <2> QED BY <2>1 DEF RecordInv
  <1>10. CASE UNCHANGED vars
    BY <1>10 DEF vars, RecordInv
  <1> QED
    BY <1>1, <1>2, <1>3, <1>4, <1>5, <1>6, <1>7, <1>8, <1>9, <1>10, NextCases

\* The record of a service lists exactly its registered transports and routes, if
\* the ids are declared without surrounding blanks: AddTransport and AddRoute
\* keep the id as it is declared, RemoveTransport and RemoveRoute look for the
\* trimmed one.
THEOREM ProjectionSafety ==
    ASSUME Unpadded
    PROVE  Spec => []ProjectionMatchesRegistries
  <1>1. Init => RecordInv
    BY DEF Init, RecordInv
  <1>2. TypeOK /\ SessionInv /\ RecordInv /\ [Next]_vars => RecordInv'
    BY RecordStep
  <1>3. RecordInv => ProjectionMatchesRegistries
    <2> SUFFICES ASSUME RecordInv, NEW s \in Services, sessions[s] # None, mu.owner # s
                 PROVE  /\ {Trim[i] : i \in recTransports[s]} = {i \in Ids : transports[s][i] # None}
                        /\ {Trim[i] : i \in recRoutes[s]} = {i \in Ids : byID[s][i] # None}
      BY DEF ProjectionMatchesRegistries
    <2>1. /\ recTransports[s] = {i \in Ids : transports[s][i] # None}
          /\ recRoutes[s] = {i \in Ids : byID[s][i] # None}
      BY DEF RecordInv
    <2>2. ASSUME NEW S \in SUBSET Ids PROVE {Trim[i] : i \in S} = S
      BY IdsAssumption
    <2> QED BY <2>1, <2>2
  <1> QED BY <1>1, <1>2, <1>3, InvInduction, PTL DEF Spec

-----------------------------------------------------------------------------
(* The table of bindings.  A registration is admitted by looking at the    *)
(* HTTP index and at the namespace table, the abstract table admits it by  *)
(* looking at every route; the index keeps a copy of the kind of transport *)
(* a route is bound to, and the copy is right.                             *)

BoundInv ==
    \A p \in Patterns, m \in Methods : http[p][m] # None =>
        byID[http[p][m].owner][http[p][m].id].bound = http[p][m].bound

\* What an entry of the HTTP index points at is a registered route of that key.
LEMMA IndexedRoute ==
    ASSUME TypeOK, HttpIndexExact, NEW p \in Patterns, NEW m \in Methods, http[p][m] # None
    PROVE  /\ http[p][m].owner \in Services /\ http[p][m].id \in Ids
           /\ byID[http[p][m].owner][http[p][m].id] # None
           /\ byID[http[p][m].owner][http[p][m].id].http = <<p, m>>
  <1>1. http[p][m].owner \in Services /\ http[p][m].id \in Ids
    BY DEF TypeOK, HttpEntry
  <1> QED BY <1>1 DEF HttpIndexExact

\* A step that keeps the indexed routes it does not drop from the index.
LEMMA BoundKept ==
    ASSUME TypeOK, HttpIndexExact, BoundInv,
           \A p \in Patterns, m \in Methods : http'[p][m] # None =>
              /\ http'[p][m] = http[p][m]
              /\ byID'[http[p][m].owner][http[p][m].id] = byID[http[p][m].owner][http[p][m].id]
    PROVE  BoundInv'
  BY DEF BoundInv

LEMMA BoundStep ==
    ASSUME TypeOK, HttpIndexExact, BoundInv, [Next]_vars
    PROVE  BoundInv'
  <1>1. CASE UNCHANGED <<byID, http>>
    BY <1>1 DEF BoundInv
  <1>2. ASSUME NEW s \in Services, DetachRoutes(s) PROVE BoundInv'
    <2> SUFFICES ASSUME NEW p \in Patterns, NEW m \in Methods, http'[p][m] # None
                 PROVE  /\ http'[p][m] = http[p][m]
                        /\ byID'[http[p][m].owner][http[p][m].id]
                             = byID[http[p][m].owner][http[p][m].id]
      BY BoundKept
    <2>1. /\ http'[p][m] = http[p][m]
          /\ ~\E i \in Ids : byID[s][i] # None /\ byID[s][i].http = <<p, m>>
      BY <1>2 DEF DetachRoutes
    <2>2. http[p][m].owner # s
      BY <2>1, IndexedRoute
    <2>3. \A t \in Services \ {s} : byID'[t] = byID[t]
      BY <1>2 DEF DetachRoutes, TypeOK
    <2> QED BY <2>1, <2>2, <2>3, IndexedRoute
  <1>3. ASSUME NEW s \in Services, NEW d \in RouteDecls, RegisterSocketRoute(s, d)
        PROVE  BoundInv'
    <2> SUFFICES ASSUME NEW p \in Patterns, NEW m \in Methods, http'[p][m] # None
                 PROVE  /\ http'[p][m] = http[p][m]
                        /\ byID'[http[p][m].owner][http[p][m].id]
                             = byID[http[p][m].owner][http[p][m].id]
      BY BoundKept
    <2>1. http' = http /\ Trim[d.id] \in Ids /\ byID[s][Trim[d.id]] = None
      BY <1>3, AcceptedRoute DEF RegisterSocketRoute
    <2>2. PICK b : byID' = [byID EXCEPT ![s][Trim[d.id]] = b]
      BY <1>3 DEF RegisterSocketRoute
    <2>3. \A t \in Services, i \in Ids : byID[t][i] # None => byID'[t][i] = byID[t][i]
      BY <2>1, <2>2 DEF TypeOK
    <2> QED BY <2>1, <2>3, IndexedRoute
  <1>4. ASSUME NEW s \in Services, NEW d \in RouteDecls, RegisterHttpRoute(s, d)
        PROVE  BoundInv'
    <2> DEFINE k == HttpKey(d)
               kind == transports[s][Trim[d.transport]]
               new == [transport |-> Trim[d.transport], bound |-> kind, http |-> k, socket |-> None]
               entry == [owner |-> s, id |-> Trim[d.id], bound |-> kind]
    <2>1. /\ Trim[d.id] \in Ids /\ byID[s][Trim[d.id]] = None
          /\ k[1] \in Patterns /\ k[2] \in Methods
      BY <1>4, AcceptedRoute, DeclTypes DEF RegisterHttpRoute
    <2>2. /\ byID' = [byID EXCEPT ![s][Trim[d.id]] = new]
          /\ http' = [http EXCEPT ![k[1]][k[2]] = entry]
      BY <1>4 DEF RegisterHttpRoute
    <2>3. new.bound = kind /\ entry.bound = kind /\ entry.owner = s /\ entry.id = Trim[d.id]
      OBVIOUS
    <2> HIDE DEF k, kind, new, entry
    <2>4. /\ byID'[s][Trim[d.id]] = new
          /\ \A t \in Services, i \in Ids : byID[t][i] # None => byID'[t][i] = byID[t][i]
      BY <2>1, <2>2 DEF TypeOK
    <2>5. \A p \in Patterns, m \in Methods :
            http'[p][m] = IF p = k[1] /\ m = k[2] THEN entry ELSE http[p][m]
      BY <2>1, <2>2 DEF TypeOK
    <2> SUFFICES ASSUME NEW p \in Patterns, NEW m \in Methods, http'[p][m] # None
                 PROVE  byID'[http'[p][m].owner][http'[p][m].id].bound = http'[p][m].bound
      BY DEF BoundInv
    <2>6. CASE p = k[1] /\ m = k[2]
      BY <2>3, <2>4, <2>5, <2>6
    <2>7. CASE ~(p = k[1] /\ m = k[2])
      <3>1. http'[p][m] = http[p][m] /\ http[p][m] # None
        BY <2>5, <2>7
      <3>2. byID'[http[p][m].owner][http[p][m].id] = byID[http[p][m].owner][http[p][m].id]
        BY <2>4, <3>1, IndexedRoute
      <3> QED BY <3>1, <3>2 DEF BoundInv
    <2> QED BY <2>6, <2>7
  <1>5. ASSUME NEW s \in Services, NEW id \in RawIds, UnregisterRoute(s, id)
        PROVE  BoundInv'
    <2> DEFINE old == byID[s][Trim[id]]
    <2> SUFFICES ASSUME NEW p \in Patterns, NEW m \in Methods, http'[p][m] # None
                 PROVE  /\ http'[p][m] = http[p][m]
                        /\ byID'[http[p][m].owner][http[p][m].id]
                             = byID[http[p][m].owner][http[p][m].id]
      BY BoundKept
    <2>1. /\ Trim[id] \in Ids /\ old \in RouteBinding /\ old # None
          /\ http' = IF old.http = None THEN http
                     ELSE [http EXCEPT ![old.http[1]][old.http[2]] = None]
      BY <1>5 DEF UnregisterRoute, TypeOK
    <2>2. old.http # None => old.http \in Patterns \X Methods
      BY <2>1 DEF RouteBinding
    <2>3. \A t \in Services, i \in Ids : ~(t = s /\ i = Trim[id]) => byID'[t][i] = byID[t][i]
      BY <1>5, <2>1 DEF UnregisterRoute, TypeOK
    <2>4. http'[p][m] = http[p][m] /\ old.http # <<p, m>>
      <3>1. CASE old.http = None
        BY <2>1, <3>1, NoneAssumption
      <3>2. CASE old.http # None
        <4>1. PICK q \in Patterns, n \in Methods : old.http = <<q, n>>
          BY <2>2, <3>2
        <4>2. http' = [http EXCEPT ![q][n] = None]
          BY <2>1, <3>2, <4>1
        <4>3. http'[p][m] = IF p = q /\ m = n THEN None ELSE http[p][m]
          BY <4>2 DEF TypeOK
        <4> QED BY <4>1, <4>3
      <3> QED BY <3>1, <3>2
    <2> QED BY <2>3, <2>4, IndexedRoute
  <1>6. ASSUME NEW s \in Services,
               \/ DetachSockets(s) \/ DetachTransports(s)
               \/ \E d \in TransportDecls : RegisterTransport(s, d)
               \/ \E id \in RawIds : UnregisterTransport(s, id)
        PROVE  BoundInv'
    BY <1>1, <1>6 DEF DetachSockets, DetachTransports, RegisterTransport, UnregisterTransport
  <1> QED BY <1>1, <1>2, <1>3, <1>4, <1>5, <1>6, TableCases DEF tables, vars

\* Clearing entries of one service, one at a time or all of them at once.
LEMMA ClearOne ==
    ASSUME NEW S, NEW f \in [Services -> [Ids -> S]], NEW s \in Services, NEW j \in Ids
    PROVE  [f EXCEPT ![s][j] = None]
             = [f EXCEPT ![s] = [i \in Ids |-> IF i \in {j} THEN None ELSE @[i]]]
  <1>1. [f[s] EXCEPT ![j] = None] = [i \in Ids |-> IF i \in {j} THEN None ELSE f[s][i]]
    OBVIOUS
  <1> QED BY <1>1

LEMMA ClearAll ==
    ASSUME NEW S, NEW f \in [Services -> [Ids -> S]], NEW s \in Services
    PROVE  [f EXCEPT ![s] = [i \in Ids |-> None]]
             = [f EXCEPT ![s] = [i \in Ids |-> IF i \in Ids THEN None ELSE @[i]]]
  <1>1. [i \in Ids |-> None] = [i \in Ids |-> IF i \in Ids THEN None ELSE f[s][i]]
    OBVIOUS
  <1> QED BY <1>1

\* A route accepted by registerHTTPLocked conflicts with no registered route.
LEMMA HttpRouteAdmitted ==
    ASSUME TypeOK, SessionInv, TableInv, BoundInv,
           NEW s \in Services, NEW d \in RouteDecls, RegisterHttpRoute(s, d)
    PROVE  Table!AddRoute(s, Trim[d.id])
  <1> DEFINE k == HttpKey(d)
             kind == transports[s][Trim[d.transport]]
             new == [transport |-> Trim[d.transport], bound |-> kind, http |-> k, socket |-> None]
  <1>1. /\ Trim[d.id] \in Ids /\ Trim[d.transport] \in Ids /\ kind \in Kinds
        /\ byID[s][Trim[d.id]] = None
        /\ k \in Patterns \X Methods /\ k[1] \in Patterns /\ k[2] \in Methods
    BY AcceptedRoute, DeclTypes DEF RegisterHttpRoute
  <1>2. /\ byID' = [byID EXCEPT ![s][Trim[d.id]] = new]
        /\ sessions' = sessions /\ transports' = transports
        /\ Registering(s) /\ AcceptsHttp(s, kind, k[1], k[2])
    BY DEF RegisterHttpRoute, AcceptsRoute
  <1>3. new \in RouteBinding /\ new # None
    BY <1>1, NoneAssumption DEF RouteBinding
  <1>4. /\ new.transport = Trim[d.transport] /\ new.bound = kind
        /\ new.http = k /\ new.socket = None
    OBVIOUS
  <1> HIDE DEF new
  <1>5. byID'[s][Trim[d.id]] = new
    BY <1>1, <1>2 DEF TypeOK
  <1>6. ASSUME NEW t \in Services, NEW i \in Ids, byID[t][i] # None
        PROVE  ~Table!SamePath(s, new, t, byID[t][i]) /\ ~Table!SameNamespace(new, byID[t][i])
    <2> DEFINE q == byID[t][i]
    <2> SUFFICES ASSUME q.http # None, q.http[1] = k[1]
                 PROVE  /\ t = s /\ kind \notin StaticKinds /\ q.bound \notin StaticKinds
                        /\ k[2] # q.http[2] /\ AnyMethod \notin {k[2], q.http[2]}
      BY <1>4 DEF Table!SamePath, Table!SameNamespace
    <2>1. q \in RouteBinding
      BY <1>6 DEF TypeOK
    <2>2. q.http \in Patterns \X Methods
      BY <2>1 DEF RouteBinding
    <2> HIDE DEF k
    <2>3. PICK m \in Methods : q.http = <<k[1], m>>
      BY <2>2
    <2>4. http[k[1]][m] # None /\ http[k[1]][m].owner = t /\ http[k[1]][m].id = i
      BY <1>1, <1>6, <2>3 DEF TableInv, HttpIndexExact
    <2>5. http[k[1]][m].bound = q.bound
      BY <1>1, <2>4 DEF BoundInv
    <2>6. /\ http[k[1]][m].owner = s /\ http[k[1]][m].bound \notin StaticKinds
          /\ kind \notin StaticKinds /\ ~methodsConflict(m, k[2])
      BY <1>2, <2>4 DEF AcceptsHttp
    <2> QED BY <2>3, <2>4, <2>5, <2>6 DEF methodsConflict
  <1>7. Table!Admissible(s, new)
    <2>1. k[1] \notin ReservedHTTP
      BY <1>2 DEF AcceptsHttp
    <2> QED BY <1>4, <1>6, <2>1 DEF Table!Admissible
  <1>8. sessions[s] # None
    BY <1>2 DEF SessionInv
  <1> QED BY <1>1, <1>2, <1>3, <1>5, <1>7, <1>8 DEF Table!AddRoute

\* A namespace that is free in the bridge's owner table is named by no route.
LEMMA SocketRouteAdmitted ==
    ASSUME TypeOK, SessionInv, TableInv,
           NEW s \in Services, NEW d \in RouteDecls, RegisterSocketRoute(s, d)
    PROVE  Table!AddRoute(s, Trim[d.id])
  <1> DEFINE kind == transports[s][Trim[d.transport]]
             new == [transport |-> Trim[d.transport], bound |-> kind,
                     http |-> None, socket |-> d.socket]
  <1>1. /\ Trim[d.id] \in Ids /\ Trim[d.transport] \in Ids /\ kind \in Kinds
        /\ byID[s][Trim[d.id]] = None /\ d.socket \in Namespaces
    BY AcceptedRoute DEF RegisterSocketRoute
  <1>2. /\ byID' = [byID EXCEPT ![s][Trim[d.id]] = new]
        /\ sessions' = sessions /\ transports' = transports
        /\ Registering(s) /\ AcceptsSocket(s, kind, d.socket)
    BY DEF RegisterSocketRoute, AcceptsRoute
  <1>3. new \in RouteBinding /\ new # None
    BY <1>1, NoneAssumption DEF RouteBinding
  <1>4. /\ new.transport = Trim[d.transport] /\ new.bound = kind
        /\ new.http = None /\ new.socket = d.socket
    OBVIOUS
  <1> HIDE DEF new
  <1>5. byID'[s][Trim[d.id]] = new
    BY <1>1, <1>2 DEF TypeOK
  <1>6. ASSUME NEW t \in Services, NEW i \in Ids, byID[t][i] # None
        PROVE  ~Table!SamePath(s, new, t, byID[t][i]) /\ ~Table!SameNamespace(new, byID[t][i])
    <2>1. owners[d.socket] = None
      BY <1>2 DEF AcceptsSocket
    <2>2. byID[t][i].socket # d.socket
      BY <1>1, <1>6, <2>1 DEF TableInv, NamespaceTableExact
    <2> QED BY <1>4, <2>2 DEF Table!SamePath, Table!SameNamespace
  <1>7. Table!Admissible(s, new)
    BY <1>4, <1>6 DEF Table!Admissible
  <1>8. sessions[s] # None
    BY <1>2 DEF SessionInv
  <1> QED BY <1>1, <1>2, <1>3, <1>5, <1>7, <1>8 DEF Table!AddRoute

LEMMA TableStep ==
    ASSUME TypeOK, SessionInv, TableInv, BoundInv, [Next]_vars
    PROVE  [Table!Next]_(Table!vars)
  <1> USE DEF Held, Free
  <1>1. CASE UNCHANGED <<sessions, transports, byID>>
    BY <1>1 DEF Table!vars
  <1>2. ASSUME NEW s \in Services, NEW backend \in {"static", "rpc"}, Attach(s, backend)
        PROVE  [Table!Next]_(Table!vars)
    <2>1. /\ sessions[s] = None /\ sessions' = [sessions EXCEPT ![s] = backend]
          /\ UNCHANGED <<transports, byID>>
      BY <1>2 DEF Attach, tables
    <2>2. \A t \in Services : sessions'[t] = IF t = s THEN backend ELSE sessions[t]
      BY <2>1 DEF TypeOK
    <2>3. {t \in Services : sessions'[t] # None}
            = {t \in Services : sessions[t] # None} \cup {s}
      BY <2>2, NoneAssumption
    <2>4. Table!Open(s)
      BY <2>1, <2>3 DEF Table!Open
    <2> QED BY <2>4 DEF Table!Next
  <1>3. ASSUME NEW s \in Services, DetachRoutes(s) PROVE [Table!Next]_(Table!vars)
    <2>1. byID' = [byID EXCEPT ![s] = [i \in Ids |-> None]]
          /\ UNCHANGED <<sessions, transports>>
      BY <1>3 DEF DetachRoutes
    <2>2. Table!RemoveRoutes(s, Ids)
      BY <2>1, ClearAll DEF TypeOK, Table!RemoveRoutes
    <2> QED BY <2>2 DEF Table!Next
  <1>4. ASSUME NEW s \in Services, DetachTransports(s) PROVE [Table!Next]_(Table!vars)
    <2>1. transports' = [transports EXCEPT ![s] = [i \in Ids |-> None]]
          /\ UNCHANGED <<sessions, byID>>
      BY <1>4 DEF DetachTransports
    <2>2. \A i \in Ids : Table!Unused(s, i)
      BY <1>4 DEF DetachTransports, SessionInv, NoRoutes, Table!Unused
    <2>3. Table!RemoveTransports(s, Ids)
      BY <2>1, <2>2, ClearAll DEF TypeOK, Table!RemoveTransports
    <2> QED BY <2>3 DEF Table!Next
  <1>5. ASSUME NEW s \in Services, DetachSession(s) PROVE [Table!Next]_(Table!vars)
    <2>1. /\ NoRoutes(s) /\ NoTransports(s) /\ UNCHANGED <<transports, byID>>
          /\ \A t \in Services : sessions'[t] = IF t = s THEN None ELSE sessions[t]
      BY <1>5 DEF DetachSession, SessionInv, tables, TypeOK
    <2>2. CASE sessions[s] = None
      <3>1. {t \in Services : sessions'[t] # None} = {t \in Services : sessions[t] # None}
        BY <2>1, <2>2
      <3> QED BY <2>1, <3>1 DEF Table!vars
    <2>3. CASE sessions[s] # None
      <3>1. Table!Close(s)
        BY <2>1, <2>3 DEF NoRoutes, NoTransports, Table!Close
      <3> QED BY <3>1 DEF Table!Next
    <2> QED BY <2>2, <2>3
  <1>6. ASSUME NEW s \in Services, NEW d \in TransportDecls, RegisterTransport(s, d)
        PROVE  [Table!Next]_(Table!vars)
    <2>1. /\ Trim[d.id] \in Ids /\ transports[s][Trim[d.id]] = None /\ d.kind # None
          /\ transports' = [transports EXCEPT ![s][Trim[d.id]] = d.kind]
          /\ sessions[s] # None /\ UNCHANGED <<sessions, byID>>
      BY <1>6, DeclTypes, NoneAssumption DEF RegisterTransport, AcceptsTransport
    <2>2. transports'[s][Trim[d.id]] = d.kind
      BY <2>1 DEF TypeOK
    <2>3. Table!AddTransport(s, Trim[d.id])
      BY <2>1, <2>2 DEF Table!AddTransport
    <2> QED BY <2>1, <2>3 DEF Table!Next
  <1>7. ASSUME NEW s \in Services, NEW id \in RawIds, UnregisterTransport(s, id)
        PROVE  [Table!Next]_(Table!vars)
    <2>1. /\ Trim[id] \in Ids /\ ~UsesTransport(s, Trim[id])
          /\ transports' = [transports EXCEPT ![s][Trim[id]] = None]
          /\ UNCHANGED <<sessions, byID>>
      BY <1>7 DEF UnregisterTransport
    <2>2. Table!Unused(s, Trim[id])
      BY <2>1 DEF UsesTransport, Table!Unused
    <2>3. Table!RemoveTransports(s, {Trim[id]})
      BY <2>1, <2>2, ClearOne DEF TypeOK, Table!RemoveTransports
    <2> QED BY <2>1, <2>3 DEF Table!Next
  <1>8. ASSUME NEW s \in Services, NEW d \in RouteDecls,
               RegisterHttpRoute(s, d) \/ RegisterSocketRoute(s, d)
        PROVE  [Table!Next]_(Table!vars)
    <2>1. Trim[d.id] \in Ids
      BY <1>8, AcceptedRoute DEF RegisterHttpRoute, RegisterSocketRoute
    <2>2. Table!AddRoute(s, Trim[d.id])
      BY <1>8, HttpRouteAdmitted, SocketRouteAdmitted
    <2> QED BY <2>1, <2>2 DEF Table!Next
  <1>9. ASSUME NEW s \in Services, NEW id \in RawIds, UnregisterRoute(s, id)
        PROVE  [Table!Next]_(Table!vars)
    <2>1. /\ Trim[id] \in Ids /\ byID' = [byID EXCEPT ![s][Trim[id]] = None]
          /\ UNCHANGED <<sessions, transports>>
      BY <1>9 DEF UnregisterRoute
    <2>2. Table!RemoveRoutes(s, {Trim[id]})
      BY <2>1, ClearOne DEF TypeOK, Table!RemoveRoutes
    <2> QED BY <2>1, <2>2 DEF Table!Next
  <1>10. ASSUME NEW s \in Services,
                \/ DetachSockets(s)
                \/ \E d \in TransportDecls : RejectTransport(s, d)
                \/ BeginRegisterRoutes(s) \/ \E d \in RouteDecls : RejectRoute(s, d)
                \/ EndRegisterRoutes(s) \/ BeginUnregisterRoutes(s)
                \/ EndUnregisterRoutes(s) \/ AddToReadModel(s) \/ RemoveFromReadModel(s)
         PROVE  [Table!Next]_(Table!vars)
    <2>1. UNCHANGED <<sessions, transports, byID>>
      BY <1>10 DEF DetachSockets, RejectTransport, BeginRegisterRoutes, RejectRoute,
         EndRegisterRoutes, BeginUnregisterRoutes, EndUnregisterRoutes,
         AddToReadModel, RemoveFromReadModel, tables
    <2> QED BY <1>1, <2>1
  <1>11. CASE UNCHANGED vars
    BY <1>1, <1>11 DEF vars
  <1>12. CASE Next
    <2> PICK s \in Services : NextCases!2!(s)
      BY <1>12, NextCases
    <2> QED BY <1>2, <1>3, <1>4, <1>5, <1>6, <1>7, <1>8, <1>9, <1>10
  <1> QED BY <1>11, <1>12

\* The control plane implements the table of bindings: every route that appears
\* conflicts with no route of anyone, no transport goes while a route uses it, and
\* a session ends with nothing left, although the conflicts are looked up in an
\* index and a namespace table kept beside the routes and Detach is four steps.
THEOREM TableRefinement == Spec => ImplementsTable
  <1>1. Init => BoundInv /\ Table!Init
    <2> SUFFICES ASSUME Init PROVE BoundInv /\ Table!Init
      OBVIOUS
    <2>1. BoundInv
      BY DEF Init, BoundInv
    <2>2. Table!Init
      BY DEF Init, Table!Init
    <2> QED BY <2>1, <2>2
  <1>2. TypeOK /\ TableInv /\ BoundInv /\ [Next]_vars => BoundInv'
    BY BoundStep DEF TableInv
  <1>3. TypeOK /\ SessionInv /\ TableInv /\ BoundInv /\ [Next]_vars
        => [Table!Next]_(Table!vars)
    BY TableStep
  <1> QED BY <1>1, <1>2, <1>3, InvInduction, PTL DEF Spec, ImplementsTable, Table!Spec

=============================================================================
