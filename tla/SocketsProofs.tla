---------------------------- MODULE SocketsProofs ----------------------------
(***************************************************************************)
(* Proofs about Sockets, for every set of services, sockets, tokens and    *)
(* events, whatever their policies.                                        *)
(***************************************************************************)
EXTENDS Sockets, TLAPS

\* The actions without the quantifiers of Next, by what they change: sessions,
\* the namespace, a socket, an event.
LEMMA NextCases ==
    ASSUME Next
    PROVE  \/ \E t \in Tokens : Login(t) \/ Expire(t) \/ Logout(t) \/ Reap(t)
           \/ \E u \in Users : ChangeGroup(u)
           \/ \E o \in Owners : Register(o)
           \/ \E o \in Owners : Release(o)
           \/ \E o \in Owners, policy \in Allows : ChangeAccess(o, policy)
           \/ DisconnectSockets
           \/ \E k \in Clients : Authorize(k)
           \/ \E k \in Clients : Join(k)
           \/ \E k \in Clients : OnConnection(k)
           \/ \E k \in Clients : Leave(k)
           \/ \E k \in Clients : HandleDisconnect(k)
           \/ \E k \in Clients, t \in Tokens \cup {None} : Connect(k, t)
           \/ \E k \in Clients, e \in Events : Arrive(e, k)
           \/ \E e \in Events : ReadOwner(e)
           \/ \E e \in Events : Identify(e)
           \/ \E e \in Events : Check(e)
           \/ \E e \in Events : HandleEvent(e)
  BY Zenon DEF Next

-----------------------------------------------------------------------------
(* Type correctness.                                                       *)

\* An event that has arrived names a socket that has connected.
FromInv ==
    \A e \in Events : event[e].st # "none" =>
        event[e].from \in Clients /\ sock[event[e].from].st # "new"

\* UserFromSocket gives a user of some session, in or out of the group, or nil.
LEMMA SessionUserType ==
    ASSUME TypeOK, NEW t \in Tokens \cup {None}
    PROVE  SessionUser(t) \in Identities \cup {None}
  <1>1. ASSUME t # None
        PROVE  Identity(UserOf[t]) \in Identities
    <2>1. UserOf[t] \in Users
      BY <1>1, SocketsAssumption
    <2>2. (UserOf[t] \in members) \in BOOLEAN
      OBVIOUS
    <2> QED BY <2>1, <2>2, Zenon DEF Identity, Identities
  <1> QED BY <1>1 DEF SessionUser, Live

\* ValidateSession marks nothing but tokens for deletion.
LEMMA ValidateType ==
    ASSUME TypeOK, NEW t \in Tokens \cup {None}, Validate(t)
    PROVE  reap' \subseteq Tokens
  BY DEF TypeOK, Validate

\* The steps of sockets keep their records well-typed.
LEMMA SocketType ==
    ASSUME TypeOK, NEW k \in Clients,
           \/ Authorize(k) \/ Join(k) \/ OnConnection(k) \/ Leave(k)
           \/ HandleDisconnect(k) \/ \E t \in Tokens \cup {None} : Connect(k, t)
    PROVE  TypeOK'
  <1> USE DEF TypeOK
  <1>1. sock[k] \in Socket /\ sock[k].token \in Tokens \cup {None}
    BY DEF Socket
  <1>2. SessionUser(sock[k].token) \in Identities \cup {None}
    BY <1>1, SessionUserType
  <1>3. CASE Authorize(k)
    <2>1. reap' \subseteq Tokens
      BY <1>1, <1>3, ValidateType DEF Authorize
    <2>2. sock' \in [Clients -> Socket]
      BY <1>3 DEF Authorize, Socket
    <2> QED BY <1>3, <2>1, <2>2 DEF Authorize, bridgeVars
  <1>4. CASE Join(k)
    BY <1>4 DEF Join, Socket, authVars, bridgeVars
  <1>5. CASE OnConnection(k)
    <2>1. reap' \subseteq Tokens
      BY <1>1, <1>5, ValidateType DEF OnConnection
    <2>2. sock' \in [Clients -> Socket]
      BY <1>2, <1>5 DEF OnConnection, Socket, Binds
    <2> QED BY <1>5, <2>1, <2>2 DEF OnConnection, bridgeVars
  <1>6. CASE Leave(k)
    BY <1>6 DEF Leave, Close, Socket, authVars, bridgeVars
  <1>7. CASE HandleDisconnect(k)
    BY <1>7 DEF HandleDisconnect, DisconnectTo, Socket, authVars, bridgeVars
  <1>8. CASE \E t \in Tokens \cup {None} : Connect(k, t)
    <2>1. PICK t \in Tokens \cup {None} : Connect(k, t)
      BY <1>8
    <2>2. sock' = [sock EXCEPT ![k] =
                     [@ EXCEPT !.st = IF owner = None THEN "closed" ELSE "asked",
                               !.token = t, !.asked = owner]]
      BY <2>1 DEF Connect
    <2>3. sock' \in [Clients -> Socket]
      BY <1>1, <2>2 DEF Socket
    <2> QED BY <2>1, <2>3 DEF Connect, authVars, bridgeVars
  <1> QED BY <1>3, <1>4, <1>5, <1>6, <1>7, <1>8

\* The steps of events keep their records well-typed.
LEMMA EventType ==
    ASSUME TypeOK, FromInv, NEW e \in Events,
           \/ ReadOwner(e) \/ Identify(e) \/ Check(e) \/ HandleEvent(e)
           \/ \E k \in Clients : Arrive(e, k)
    PROVE  TypeOK'
  <1> USE DEF TypeOK
  <1>1. CASE ReadOwner(e)
    <2>1. event[e] \in Event /\ Serves(e) \in Owners \cup {None}
      BY DEF Serves
    <2>2. event' \in [Events -> Event]
      BY <1>1, <2>1 DEF ReadOwner, Event
    <2> QED BY <1>1, <2>2 DEF ReadOwner, authVars, bridgeVars
  <1>2. CASE Identify(e)
    <2>1. sock[event[e].from].token \in Tokens \cup {None}
      BY <1>2 DEF Identify, FromInv, Socket
    <2>2. reap' \subseteq Tokens
      BY <1>2, <2>1, ValidateType DEF Identify
    <2>3. EventUser(e) \in Identities \cup {None}
      BY <2>1, SessionUserType DEF EventUser
    <2>4. event' \in [Events -> Event]
      <3> DEFINE new == [event[e] EXCEPT !.st = "known", !.user = EventUser(e)]
      <3>1. new \in Event
        BY <2>3 DEF Event
      <3>2. event' = [event EXCEPT ![e] = new]
        BY <1>2 DEF Identify
      <3> QED BY <3>1, <3>2
    <2> QED BY <1>2, <2>2, <2>4 DEF Identify, bridgeVars
  <1>3. CASE Check(e)
    BY <1>3 DEF Check, Event, authVars, bridgeVars
  <1>4. CASE HandleEvent(e)
    BY <1>4 DEF HandleEvent, Event, authVars, bridgeVars
  <1>5. ASSUME NEW k \in Clients, Arrive(e, k)
        PROVE  TypeOK'
    <2>1. SessionUser(sock[k].token) \in Identities \cup {None}
      BY SessionUserType DEF Socket
    <2>2. event' \in [Events -> Event]
      BY <1>5, <2>1 DEF Arrive, Event, NoEvent
    <2> QED BY <1>5, <2>2 DEF Arrive, authVars, bridgeVars
  <1> QED BY <1>1, <1>2, <1>3, <1>4, <1>5

LEMMA TypeStep == TypeOK /\ FromInv /\ [Next]_vars => TypeOK'
  <1> SUFFICES ASSUME TypeOK, FromInv, [Next]_vars
               PROVE  TypeOK'
    OBVIOUS
  <1>1. CASE UNCHANGED vars
    BY <1>1 DEF TypeOK, vars, authVars, bridgeVars
  <1>2. ASSUME NEW t \in Tokens, Login(t) \/ Expire(t) \/ Logout(t) \/ Reap(t)
        PROVE  TypeOK'
    BY <1>2 DEF TypeOK, Login, Expire, Logout, Reap, bridgeVars
  <1>3. ASSUME NEW u \in Users, ChangeGroup(u)
        PROVE  TypeOK'
    <2>1. <<u, u \notin members>> \in Identities
      BY DEF Identities
    <2>2. event' \in [Events -> Event]
      BY <1>3, <2>1 DEF TypeOK, ChangeGroup, Event
    <2> QED BY <1>3, <2>2 DEF TypeOK, ChangeGroup, bridgeVars
  <1>4. ASSUME NEW o \in Owners, Register(o)
        PROVE  TypeOK'
    <2>1. event' \in [Events -> Event]
      BY <1>4 DEF TypeOK, Register, Event
    <2> QED BY <1>4, <2>1 DEF TypeOK, Register, authVars
  <1>5. ASSUME NEW o \in Owners, Release(o)
        PROVE  TypeOK'
    BY <1>5 DEF TypeOK, Release, authVars
  <1>6. ASSUME NEW o \in Owners, NEW policy \in Allows, ChangeAccess(o, policy)
        PROVE  TypeOK'
    BY <1>6 DEF TypeOK, ChangeAccess, bridgeVars
  <1>7. CASE DisconnectSockets
    <2>1. sock' \in [Clients -> Socket]
      BY <1>7 DEF TypeOK, DisconnectSockets, Close, Socket
    <2> QED BY <1>7, <2>1 DEF TypeOK, DisconnectSockets, authVars
  <1> QED BY <1>1, <1>2, <1>3, <1>4, <1>5, <1>6, <1>7, NextCases, SocketType, EventType

-----------------------------------------------------------------------------
(* What no step undoes.                                                    *)

\* A session, once issued, is not unused again.
LEMMA SessionStays ==
    ASSUME TypeOK, [Next]_vars, NEW t \in Tokens, session[t] # "unused"
    PROVE  session'[t] # "unused"
  <1>1. CASE UNCHANGED session
    BY <1>1
  <1>2. ASSUME NEW u \in Tokens, Login(u) \/ Expire(u) \/ Logout(u) \/ Reap(u)
        PROVE  session'[t] # "unused"
    BY <1>2 DEF TypeOK, Login, Expire, Logout, Reap
  <1> QED
    BY <1>1, <1>2, NextCases
    DEF vars, authVars, ChangeGroup, Register, Release, ChangeAccess, DisconnectSockets,
        Authorize, Join, OnConnection, Leave, HandleDisconnect, Connect, Arrive, ReadOwner,
        Identify, Check, HandleEvent

\* What a step leaves of a socket that has connected: its token.
Stays(k) == sock'[k].st # "new" /\ sock'[k].token = sock[k].token

\* A socket keeps the token of its handshake.
LEMMA ConnectedStays ==
    ASSUME TypeOK, [Next]_vars, NEW k \in Clients, sock[k].st # "new"
    PROVE  Stays(k)
  <1> USE DEF Stays
  <1>1. CASE UNCHANGED sock
    BY <1>1
  <1>2. CASE DisconnectSockets
    BY <1>2 DEF TypeOK, Socket, DisconnectSockets, Close
  <1>3. ASSUME NEW j \in Clients,
               \/ Authorize(j) \/ Join(j) \/ OnConnection(j) \/ Leave(j)
               \/ HandleDisconnect(j) \/ \E t \in Tokens \cup {None} : Connect(j, t)
        PROVE  Stays(k)
    <2>1. CASE Authorize(j)
      BY <2>1 DEF TypeOK, Socket, Authorize
    <2>2. CASE Join(j)
      BY <2>2 DEF TypeOK, Socket, Join
    <2>3. CASE OnConnection(j)
      BY <2>3 DEF TypeOK, Socket, OnConnection
    <2>4. CASE Leave(j)
      BY <2>4 DEF TypeOK, Socket, Leave, Close
    <2>5. CASE HandleDisconnect(j)
      BY <2>5 DEF TypeOK, Socket, HandleDisconnect
    <2>6. CASE \E t \in Tokens \cup {None} : Connect(j, t)
      BY <2>6 DEF TypeOK, Socket, Connect
    <2> QED BY <1>3, <2>1, <2>2, <2>3, <2>4, <2>5, <2>6
  <1> QED
    BY <1>1, <1>2, <1>3, NextCases
    DEF vars, Login, Expire, Logout, Reap, ChangeGroup, Register, Release, ChangeAccess,
        Arrive, ReadOwner, Identify, Check, HandleEvent

\* A step of an event other than its arrival keeps where it came from and its
\* history.
LEMMA EventStays ==
    ASSUME TypeOK, [Next]_vars, NEW e \in Events, event[e].st # "none"
    PROVE  /\ event'[e].st # "none" /\ event'[e].from = event[e].from
           /\ event[e].ids \subseteq event'[e].ids
           /\ event[e].owners \subseteq event'[e].owners
  <1> DEFINE Goal == /\ event'[e].st # "none" /\ event'[e].from = event[e].from
                     /\ event[e].ids \subseteq event'[e].ids
                     /\ event[e].owners \subseteq event'[e].owners
  <1>1. CASE UNCHANGED event
    BY <1>1
  <1>2. ASSUME NEW u \in Users, ChangeGroup(u)
        PROVE  Goal
    BY <1>2 DEF TypeOK, Event, ChangeGroup
  <1>3. ASSUME NEW o \in Owners, Register(o)
        PROVE  Goal
    BY <1>3 DEF TypeOK, Event, Register
  <1>4. ASSUME NEW f \in Events, NEW k \in Clients, Arrive(f, k)
        PROVE  Goal
    BY <1>4 DEF TypeOK, Event, Arrive
  <1>5. ASSUME NEW f \in Events, ReadOwner(f) \/ Identify(f) \/ Check(f) \/ HandleEvent(f)
        PROVE  Goal
    <2>1. CASE ReadOwner(f)
      BY <2>1 DEF TypeOK, Event, ReadOwner
    <2>2. CASE Identify(f)
      BY <2>2 DEF TypeOK, Event, Identify
    <2>3. CASE Check(f)
      BY <2>3 DEF TypeOK, Event, Check
    <2>4. CASE HandleEvent(f)
      BY <2>4 DEF TypeOK, Event, HandleEvent
    <2> QED BY <1>5, <2>1, <2>2, <2>3, <2>4
  <1> QED
    BY <1>1, <1>2, <1>3, <1>4, <1>5, NextCases
    DEF vars, Login, Expire, Logout, Reap, Release, ChangeAccess, DisconnectSockets,
        Authorize, Join, OnConnection, Leave, HandleDisconnect, Connect

-----------------------------------------------------------------------------
(* The inductive invariant.                                                *)

\* A socket connects with a session that has been issued.
TokenInv ==
    \A k \in Clients : sock[k].token # None => session[sock[k].token] # "unused"

\* ValidateSession deletes, between its two locks, what had expired.
ReapInv == \A t \in reap : session[t] \in {"expired", "ended"}

\* The history of an event has the identity of now and the owner of now.
HistoryInv ==
    \A e \in Events : event[e].st # "none" =>
        /\ EventUser(e) # None => EventUser(e) \in event[e].ids
        /\ owner # None => owner \in event[e].owners

SocketsInv == TypeOK /\ FromInv /\ TokenInv /\ ReapInv /\ HistoryInv

LEMMA FromStep == TypeOK /\ FromInv /\ [Next]_vars => FromInv'
  <1> SUFFICES ASSUME TypeOK, FromInv, [Next]_vars, NEW e \in Events, event'[e].st # "none"
               PROVE  event'[e].from \in Clients /\ sock'[event'[e].from].st # "new"
    BY DEF FromInv
  <1>1. CASE event[e].st # "none"
    <2>1. event'[e].from = event[e].from /\ event[e].from \in Clients
          /\ sock[event[e].from].st # "new"
      BY <1>1, EventStays DEF FromInv
    <2> QED BY <2>1, ConnectedStays DEF Stays
  <1>2. CASE event[e].st = "none"
    <2>1. ASSUME NEW f \in Events, NEW k \in Clients, Arrive(f, k)
          PROVE  event'[e].from \in Clients /\ sock'[event'[e].from].st # "new"
      BY <1>2, <2>1 DEF TypeOK, Arrive, NoEvent
    <2>2. CASE \/ UNCHANGED event
               \/ \E u \in Users : ChangeGroup(u)
               \/ \E o \in Owners : Register(o)
               \/ \E f \in Events : ReadOwner(f) \/ Identify(f) \/ Check(f) \/ HandleEvent(f)
      BY <1>2, <2>2
      DEF TypeOK, Event, ChangeGroup, Register, ReadOwner, Identify, Check, HandleEvent
    <2> QED
      BY <2>1, <2>2, NextCases
      DEF vars, Login, Expire, Logout, Reap, Release, ChangeAccess, DisconnectSockets,
          Authorize, Join, OnConnection, Leave, HandleDisconnect, Connect
  <1> QED BY <1>1, <1>2

LEMMA TokenStep == TypeOK /\ TokenInv /\ [Next]_vars => TokenInv'
  <1> SUFFICES ASSUME TypeOK, TokenInv, [Next]_vars,
                      NEW k \in Clients, sock'[k].token # None
               PROVE  session'[sock'[k].token] # "unused"
    BY DEF TokenInv
  <1>1. sock[k].token \in Tokens \cup {None}
    BY DEF TypeOK, Socket
  <1>2. CASE sock'[k].token = sock[k].token
    BY <1>1, <1>2, SessionStays DEF TokenInv
  <1>3. ASSUME NEW j \in Clients, NEW t \in Tokens \cup {None}, Connect(j, t),
               sock'[k].token # sock[k].token
        PROVE  session'[sock'[k].token] # "unused"
    BY <1>3 DEF TypeOK, Socket, Connect, authVars
  <1>4. CASE sock[k].st # "new"
    BY <1>2, <1>4, ConnectedStays DEF Stays
  <1>5. CASE sock[k].st = "new" /\ \A j \in Clients, t \in Tokens \cup {None} : ~Connect(j, t)
    <2>1. CASE UNCHANGED sock
      BY <1>2, <2>1
    <2>2. CASE DisconnectSockets
      BY <1>2, <1>5, <2>2 DEF TypeOK, DisconnectSockets, Disconnectable
    <2>3. ASSUME NEW j \in Clients,
                 Authorize(j) \/ Join(j) \/ OnConnection(j) \/ Leave(j) \/ HandleDisconnect(j)
          PROVE  sock'[k].token = sock[k].token
      BY <1>5, <2>3
      DEF TypeOK, Authorize, Join, OnConnection, Leave, HandleDisconnect
    <2> QED
      BY <1>2, <1>5, <2>1, <2>2, <2>3, NextCases
      DEF vars, Login, Expire, Logout, Reap, ChangeGroup, Register, Release, ChangeAccess,
          Arrive, ReadOwner, Identify, Check, HandleEvent
  <1> QED BY <1>2, <1>3, <1>4, <1>5

LEMMA ReapStep == TypeOK /\ FromInv /\ ReapInv /\ [Next]_vars => ReapInv'
  <1> SUFFICES ASSUME TypeOK, FromInv, ReapInv, [Next]_vars, NEW t \in reap'
               PROVE  session'[t] \in {"expired", "ended"}
    BY DEF ReapInv
  <1>1. ASSUME NEW u \in Tokens, Login(u) \/ Expire(u) \/ Logout(u) \/ Reap(u)
        PROVE  session'[t] \in {"expired", "ended"}
    BY <1>1 DEF TypeOK, ReapInv, Login, Expire, Logout, Reap
  <1>2. ASSUME NEW u, Validate(u), UNCHANGED session
        PROVE  session'[t] \in {"expired", "ended"}
    BY <1>2 DEF ReapInv, Validate
  <1>3. ASSUME UNCHANGED <<session, reap>>
        PROVE  session'[t] \in {"expired", "ended"}
    BY <1>3 DEF ReapInv
  <1> QED
    BY <1>1, <1>2, <1>3, NextCases
    DEF vars, authVars, ChangeGroup, Register, Release, ChangeAccess, DisconnectSockets,
        Authorize, Join, OnConnection, Leave, HandleDisconnect, Connect, Arrive, ReadOwner,
        Identify, Check, HandleEvent

\* A session that is live after a step was live before, unless it was issued.
LEMMA LiveStays ==
    ASSUME TypeOK, [Next]_vars, NEW t \in Tokens, session[t] # "unused", session'[t] = "live"
    PROVE  session[t] = "live"
  <1>1. CASE UNCHANGED session
    BY <1>1
  <1>2. ASSUME NEW u \in Tokens, Login(u) \/ Expire(u) \/ Logout(u) \/ Reap(u)
        PROVE  session[t] = "live"
    BY <1>2 DEF TypeOK, Login, Expire, Logout, Reap
  <1> QED
    BY <1>1, <1>2, NextCases
    DEF vars, authVars, ChangeGroup, Register, Release, ChangeAccess, DisconnectSockets,
        Authorize, Join, OnConnection, Leave, HandleDisconnect, Connect, Arrive, ReadOwner,
        Identify, Check, HandleEvent

\* The identities of an event grow with every change of its user's groups.
LEMMA IdentityStep ==
    ASSUME SocketsInv, [Next]_vars, NEW e \in Events, event[e].st # "none",
           EventUser(e)' # None
    PROVE  EventUser(e)' \in event'[e].ids
  <1> DEFINE k == event[e].from
             t == sock[k].token
             u == UserOf[t]
  <1>1. k \in Clients /\ sock[k].st # "new" /\ event'[e].from = k
        /\ event[e].ids \subseteq event'[e].ids
    BY EventStays DEF SocketsInv, FromInv
  <1>2. sock'[k].token = t /\ t \in Tokens \cup {None}
    BY <1>1, ConnectedStays DEF SocketsInv, Stays, TypeOK, Socket
  <1>3. t \in Tokens /\ session'[t] = "live" /\ EventUser(e)' = <<u, u \in members'>>
    BY <1>1, <1>2 DEF EventUser, SessionUser, Live, Identity
  <1>4. session[t] = "live"
    BY <1>1, <1>3, LiveStays, SocketsAssumption DEF SocketsInv, TokenInv
  <1>5. EventUser(e) = <<u, u \in members>>
    BY <1>3, <1>4, SocketsAssumption DEF EventUser, SessionUser, Live, Identity
  <1>6. CASE (u \in members') = (u \in members)
    <2>1. EventUser(e)' = EventUser(e)
      BY <1>3, <1>5, <1>6, Zenon
    <2> QED BY <1>1, <2>1 DEF SocketsInv, HistoryInv
  <1>7. ASSUME NEW v \in Users, ChangeGroup(v), v = u
        PROVE  EventUser(e)' \in event'[e].ids
    <2>1. event'[e] = [event[e] EXCEPT !.ids = @ \cup {<<u, u \notin members>>}]
      <3>1. Live(t)
        BY <1>3, <1>4, SocketsAssumption DEF Live
      <3> QED BY <1>7, <3>1 DEF ChangeGroup
    <2>2. <<u, u \notin members>> \in event'[e].ids
      BY <2>1 DEF SocketsInv, TypeOK, Event
    <2>3. (u \in members') = (u \notin members)
      BY <1>7 DEF ChangeGroup
    <2>4. EventUser(e)' = <<u, u \notin members>>
      BY <1>3, <2>3, Zenon
    <2> QED BY <2>2, <2>4
  <1>8. ASSUME NEW v \in Users, ChangeGroup(v), v # u
        PROVE  (u \in members') = (u \in members)
    BY <1>8 DEF ChangeGroup
  <1>9. CASE UNCHANGED members
    BY <1>6, <1>9
  <1> QED
    BY <1>6, <1>7, <1>8, <1>9, NextCases
    DEF vars, authVars, Login, Expire, Logout, Reap, Register, Release, ChangeAccess,
        DisconnectSockets, Authorize, Join, OnConnection, Leave, HandleDisconnect, Connect,
        Arrive, ReadOwner, Identify, Check, HandleEvent

\* The owners of an event grow with every registration.
LEMMA OwnerStep ==
    ASSUME SocketsInv, [Next]_vars, NEW e \in Events, event[e].st # "none", owner' # None
    PROVE  owner' \in event'[e].owners
  <1>1. event[e].owners \subseteq event'[e].owners
    BY EventStays DEF SocketsInv
  <1>2. CASE UNCHANGED owner
    BY <1>1, <1>2 DEF SocketsInv, HistoryInv
  <1>3. ASSUME NEW o \in Owners, Register(o)
        PROVE  owner' \in event'[e].owners
    BY <1>3 DEF SocketsInv, TypeOK, Event, Register
  <1> QED
    BY <1>2, <1>3, NextCases
    DEF vars, bridgeVars, Login, Expire, Logout, Reap, ChangeGroup, Release, ChangeAccess,
        DisconnectSockets, Authorize, Join, OnConnection, Leave, HandleDisconnect, Connect,
        Arrive, ReadOwner, Identify, Check, HandleEvent

\* An event that arrives has the identity and the owner of that moment.
LEMMA ArriveHistory ==
    ASSUME SocketsInv, NEW e \in Events, NEW k \in Clients, Arrive(e, k)
    PROVE  /\ EventUser(e)' # None => EventUser(e)' \in event'[e].ids
           /\ owner' # None => owner' \in event'[e].owners
  <1>1. event'[e] = [NoEvent EXCEPT !.st = "arrived", !.from = k,
                                    !.ids = {SessionUser(sock[k].token)} \ {None},
                                    !.owners = {owner} \ {None}]
    BY DEF SocketsInv, TypeOK, Arrive
  <1>2. event'[e].from = k /\ event'[e].ids = {SessionUser(sock[k].token)} \ {None}
        /\ event'[e].owners = {owner} \ {None}
    BY <1>1 DEF NoEvent
  <1>3. EventUser(e)' = SessionUser(sock[k].token)
    BY <1>2 DEF Arrive, EventUser, SessionUser, Live, Identity, authVars
  <1>4. owner' = owner
    BY DEF Arrive, bridgeVars
  <1> QED BY <1>2, <1>3, <1>4

\* An event that arrives in a step arrives by Arrive.
LEMMA Arrival ==
    ASSUME TypeOK, [Next]_vars, NEW e \in Events, event[e].st = "none", event'[e].st # "none"
    PROVE  \E k \in Clients : Arrive(e, k)
  <1>1. ASSUME NEW f \in Events, NEW k \in Clients, Arrive(f, k)
        PROVE  f = e
    BY <1>1 DEF TypeOK, Arrive
  <1>2. \/ UNCHANGED event
        \/ \E u \in Users : ChangeGroup(u)
        \/ \E o \in Owners : Register(o)
        \/ \E f \in Events : ReadOwner(f) \/ Identify(f) \/ Check(f) \/ HandleEvent(f)
        => FALSE
    BY DEF TypeOK, Event, ChangeGroup, Register, ReadOwner, Identify, Check, HandleEvent
  <1> QED
    BY <1>1, <1>2, NextCases
    DEF vars, Login, Expire, Logout, Reap, Release, ChangeAccess, DisconnectSockets,
        Authorize, Join, OnConnection, Leave, HandleDisconnect, Connect

\* Which steps leave the user and which the owner an event has been given.
LEMMA EventKeeps ==
    ASSUME TypeOK, NEW e \in Events
    PROVE  /\ (\/ \E u \in Users : ChangeGroup(u)
               \/ \E o \in Owners : Register(o)
               \/ \E f \in Events : ReadOwner(f) \/ Check(f) \/ HandleEvent(f))
              => event'[e].user = event[e].user /\ event[e].ids \subseteq event'[e].ids
           /\ (\/ \E u \in Users : ChangeGroup(u)
               \/ \E o \in Owners : Register(o)
               \/ \E f \in Events : Identify(f) \/ Check(f) \/ HandleEvent(f))
              => event'[e].at = event[e].at /\ event[e].owners \subseteq event'[e].owners
  <1>1. event[e] \in Event
    BY DEF TypeOK
  <1>2. ASSUME NEW u \in Users, ChangeGroup(u)
        PROVE  /\ event'[e].user = event[e].user /\ event[e].ids \subseteq event'[e].ids
               /\ event'[e].at = event[e].at /\ event'[e].owners = event[e].owners
    BY <1>1, <1>2 DEF ChangeGroup, Event
  <1>3. ASSUME NEW o \in Owners, Register(o)
        PROVE  /\ event'[e].user = event[e].user /\ event'[e].ids = event[e].ids
               /\ event'[e].at = event[e].at /\ event[e].owners \subseteq event'[e].owners
    BY <1>1, <1>3 DEF Register, Event
  <1>4. ASSUME NEW f \in Events, ReadOwner(f)
        PROVE  event'[e].user = event[e].user /\ event'[e].ids = event[e].ids
    BY <1>1, <1>4 DEF TypeOK, ReadOwner, Event
  <1>5. ASSUME NEW f \in Events, Identify(f)
        PROVE  event'[e].at = event[e].at /\ event'[e].owners = event[e].owners
    BY <1>1, <1>5 DEF TypeOK, Identify, Event
  <1>6. ASSUME NEW f \in Events, Check(f) \/ HandleEvent(f)
        PROVE  /\ event'[e].user = event[e].user /\ event'[e].ids = event[e].ids
               /\ event'[e].at = event[e].at /\ event'[e].owners = event[e].owners
    BY <1>1, <1>6 DEF TypeOK, Check, HandleEvent, Event
  <1> QED BY <1>2, <1>3, <1>4, <1>5, <1>6

LEMMA HistoryStep == SocketsInv /\ [Next]_vars => HistoryInv'
  <1> SUFFICES ASSUME SocketsInv, [Next]_vars, NEW e \in Events, event'[e].st # "none"
               PROVE  /\ EventUser(e)' # None => EventUser(e)' \in event'[e].ids
                      /\ owner' # None => owner' \in event'[e].owners
    BY DEF HistoryInv
  <1>1. CASE event[e].st # "none"
    BY <1>1, IdentityStep, OwnerStep
  <1>2. CASE event[e].st = "none"
    BY <1>2, Arrival, ArriveHistory DEF SocketsInv
  <1> QED BY <1>1, <1>2

LEMMA InvInduction == Spec => []SocketsInv
  <1>1. Init => SocketsInv
    <2> SUFFICES ASSUME Init
                 PROVE  SocketsInv
      OBVIOUS
    <2>1. NewSocket \in Socket /\ NoEvent \in Event
      BY DEF NewSocket, Socket, NoEvent, Event
    <2>2. TypeOK
      BY <2>1 DEF Init, TypeOK, Allows
    <2>3. FromInv /\ TokenInv /\ ReapInv /\ HistoryInv
      BY DEF Init, FromInv, TokenInv, ReapInv, HistoryInv, NewSocket, NoEvent
    <2> QED BY <2>2, <2>3 DEF SocketsInv
  <1>2. SocketsInv /\ [Next]_vars => SocketsInv'
    BY TypeStep, FromStep, TokenStep, ReapStep, HistoryStep DEF SocketsInv
  <1> QED BY <1>1, <1>2, PTL DEF Spec

-----------------------------------------------------------------------------
(* The properties.                                                         *)

\* Every variable of Sockets keeps its shape; in particular ValidateSession never
\* deletes anything but a token.
THEOREM TypeCorrect == Spec => []TypeOK
  BY InvInduction, PTL DEF SocketsInv

\* An event is handled only as a user the session of its handshake had since the
\* event arrived (bridge.go, handleAny; auth, UserFromSocket).
THEOREM IdentitySafety == Spec => []IdentityIsCurrent
  <1>1. Init => IdentityIsCurrent
    BY DEF Init, IdentityIsCurrent, NoEvent
  <1>2. SocketsInv /\ IdentityIsCurrent /\ [Next]_vars => IdentityIsCurrent'
    <2> SUFFICES ASSUME SocketsInv, IdentityIsCurrent, [Next]_vars,
                        NEW e \in Events, event'[e].user # None
                 PROVE  event'[e].user \in event'[e].ids
      BY DEF IdentityIsCurrent
    <2>1. ASSUME NEW k \in Clients, Arrive(e, k)
          PROVE  event'[e].user = None
      BY <2>1 DEF SocketsInv, TypeOK, Arrive, NoEvent
    <2>2. CASE event'[e].user = event[e].user
               /\ event[e].ids \subseteq event'[e].ids
      BY <2>2 DEF IdentityIsCurrent
    <2>3. ASSUME Identify(e)
          PROVE  event'[e].user \in event'[e].ids
      <3>1. event'[e].user = EventUser(e) /\ event'[e].ids = event[e].ids
            /\ event[e].st # "none"
        BY <2>3 DEF SocketsInv, TypeOK, Event, Identify
      <3> QED BY <3>1 DEF SocketsInv, HistoryInv
    <2>4. ASSUME NEW f \in Events, Identify(f), f # e
          PROVE  event'[e] = event[e]
      BY <2>4 DEF SocketsInv, TypeOK, Identify
    <2>5. ASSUME NEW f \in Events, NEW k \in Clients, Arrive(f, k), f # e
          PROVE  event'[e] = event[e]
      BY <2>5 DEF SocketsInv, TypeOK, Arrive
    <2>6. ASSUME \/ \E u \in Users : ChangeGroup(u)
                 \/ \E o \in Owners : Register(o)
                 \/ \E f \in Events : ReadOwner(f) \/ Check(f) \/ HandleEvent(f)
          PROVE  event'[e].user = event[e].user /\ event[e].ids \subseteq event'[e].ids
      BY <2>6, EventKeeps DEF SocketsInv
    <2> QED
      BY <2>1, <2>2, <2>3, <2>4, <2>5, <2>6, NextCases
      DEF vars, Login, Expire, Logout, Reap, Release, ChangeAccess, DisconnectSockets,
          Authorize, Join, OnConnection, Leave, HandleDisconnect, Connect
  <1> QED BY <1>1, <1>2, InvInduction, PTL DEF Spec

\* An event is handed only to a service that owned the namespace since the event
\* arrived (bridge.go, handleAny).
THEOREM OwnerSafety == Spec => []EventGoesToOwner
  <1>1. Init => EventGoesToOwner
    BY DEF Init, EventGoesToOwner, NoEvent
  <1>2. SocketsInv /\ EventGoesToOwner /\ [Next]_vars => EventGoesToOwner'
    <2> SUFFICES ASSUME SocketsInv, EventGoesToOwner, [Next]_vars,
                        NEW e \in Events, event'[e].at # None
                 PROVE  event'[e].at \in event'[e].owners
      BY DEF EventGoesToOwner
    <2>1. ASSUME NEW k \in Clients, Arrive(e, k)
          PROVE  event'[e].at = None
      BY <2>1 DEF SocketsInv, TypeOK, Arrive, NoEvent
    <2>2. CASE event'[e].at = event[e].at /\ event[e].owners \subseteq event'[e].owners
      BY <2>2 DEF EventGoesToOwner
    <2>3. ASSUME ReadOwner(e)
          PROVE  event'[e].at \in event'[e].owners
      <3>1. event'[e].at = owner /\ event'[e].owners = event[e].owners
            /\ event[e].st # "none"
        BY <2>3 DEF SocketsInv, TypeOK, Event, ReadOwner, Serves
      <3> QED BY <3>1 DEF SocketsInv, HistoryInv
    <2>4. ASSUME NEW f \in Events, ReadOwner(f), f # e
          PROVE  event'[e] = event[e]
      BY <2>4 DEF SocketsInv, TypeOK, ReadOwner
    <2>5. ASSUME NEW f \in Events, NEW k \in Clients, Arrive(f, k), f # e
          PROVE  event'[e] = event[e]
      BY <2>5 DEF SocketsInv, TypeOK, Arrive
    <2>6. ASSUME \/ \E u \in Users : ChangeGroup(u)
                 \/ \E o \in Owners : Register(o)
                 \/ \E f \in Events : Identify(f) \/ Check(f) \/ HandleEvent(f)
          PROVE  event'[e].at = event[e].at /\ event[e].owners \subseteq event'[e].owners
      BY <2>6, EventKeeps DEF SocketsInv
    <2> QED
      BY <2>1, <2>2, <2>3, <2>4, <2>5, <2>6, NextCases
      DEF vars, Login, Expire, Logout, Reap, Release, ChangeAccess, DisconnectSockets,
          Authorize, Join, OnConnection, Leave, HandleDisconnect, Connect
  <1> QED BY <1>1, <1>2, InvInduction, PTL DEF Spec

\* Once a release is over no open socket is bound to the service released
\* (bridge.go, Unregister and RemoveOwner).
THEOREM ReleaseSafety == Spec => []ReleasedSocketsClosed
  <1>1. Init => ReleasedSocketsClosed
    BY DEF Init, ReleasedSocketsClosed, NewSocket
  <1>2. TypeOK /\ ReleasedSocketsClosed /\ [Next]_vars => ReleasedSocketsClosed'
    <2> SUFFICES ASSUME TypeOK, ReleasedSocketsClosed, [Next]_vars,
                        NEW k \in Clients, sock'[k].st = "bound"
                 PROVE  sock'[k].bound \in {owner', releasing', None}
      BY DEF ReleasedSocketsClosed
    <2>1. CASE UNCHANGED <<sock, owner, releasing>>
      BY <2>1 DEF ReleasedSocketsClosed
    <2>2. ASSUME NEW o \in Owners, Register(o) \/ Release(o)
          PROVE  sock'[k].bound \in {owner', releasing', None}
      BY <2>2 DEF ReleasedSocketsClosed, Register, Release
    <2>3. CASE DisconnectSockets
      BY <2>3 DEF TypeOK, Socket, DisconnectSockets, Disconnectable, Close
    <2>4. ASSUME NEW j \in Clients, OnConnection(j)
          PROVE  sock'[k].bound \in {owner', releasing', None}
      BY <2>4 DEF ReleasedSocketsClosed, TypeOK, Socket, OnConnection, Binds, bridgeVars
    <2>5. ASSUME NEW j \in Clients,
                 \/ Authorize(j) \/ Join(j) \/ Leave(j) \/ HandleDisconnect(j)
                 \/ \E t \in Tokens \cup {None} : Connect(j, t)
          PROVE  sock'[k].bound \in {owner', releasing', None}
      <3>1. sock[k].st = "bound" /\ sock'[k].bound = sock[k].bound
        BY <2>5, ZenonT(40)
        DEF TypeOK, Socket, Authorize, Join, Leave, HandleDisconnect, Connect, Close
      <3>2. UNCHANGED <<owner, releasing>>
        BY <2>5 DEF Authorize, Join, Leave, HandleDisconnect, Connect, bridgeVars
      <3> QED BY <3>1, <3>2 DEF ReleasedSocketsClosed
    <2> QED
      BY <2>1, <2>2, <2>3, <2>4, <2>5, NextCases
      DEF vars, bridgeVars, Login, Expire, Logout, Reap, ChangeGroup, ChangeAccess, Arrive,
          ReadOwner, Identify, Check, HandleEvent
  <1> QED BY <1>1, <1>2, TypeCorrect, PTL DEF Spec

\* A live session ends by a logout only: the deletion of ValidateSession, between
\* its two locks, never hits a session that is still valid (manager.go).
THEOREM SessionSafety == Spec => LiveEndsByLogout
  <1>1. ReapInv /\ TypeOK /\ [Next]_vars =>
            [\A t \in Tokens :
               session[t] = "live" /\ session'[t] = "ended" => Logout(t)]_vars
    <2> SUFFICES ASSUME ReapInv, TypeOK, Next, NEW t \in Tokens,
                        session[t] = "live", session'[t] = "ended"
                 PROVE  Logout(t)
      OBVIOUS
    <2>1. ASSUME NEW u \in Tokens, Login(u) \/ Expire(u) \/ Logout(u) \/ Reap(u)
          PROVE  Logout(t)
      <3>1. ~(Login(u) \/ Expire(u))
        BY DEF TypeOK, Login, Expire
      <3>2. ~Reap(u)
        BY DEF TypeOK, ReapInv, Reap
      <3>3. Logout(u) => u = t
        BY DEF TypeOK, Logout
      <3> QED BY <2>1, <3>1, <3>2, <3>3
    <2>2. session' # session
      OBVIOUS
    <2> QED
      BY <2>1, <2>2, NextCases
      DEF authVars, ChangeGroup, Register, Release, ChangeAccess, DisconnectSockets,
          Authorize, Join, OnConnection, Leave, HandleDisconnect, Connect, Arrive, ReadOwner,
          Identify, Check, HandleEvent
  <1> QED BY <1>1, InvInduction, PTL DEF Spec, SocketsInv, LiveEndsByLogout

=============================================================================
