------------------------------- MODULE Sockets -------------------------------
(***************************************************************************)
(* Login sessions and the Socket.IO bridge: sockets connect to a namespace *)
(* whose owner changes, their events are checked against the session their *)
(* handshake names and handed to the owner, and their disconnection is     *)
(* reported to the service they were bound to.                             *)
(*                                                                         *)
(* The bridge keeps nothing that relates two namespaces, so the model has  *)
(* one.  Bridge.mu is held for single reads and writes of the owner; the   *)
(* steps below are what happens between them.  The Socket.IO library is    *)
(* external: after the middleware let a socket pass it is added to the     *)
(* namespace, then the connection listener runs, and DisconnectSockets     *)
(* closes the sockets that have been added.                                *)
(*                                                                         *)
(* A policy is "public", "auth" or "group" (AccessPolicy with neither,     *)
(* with RequireAuth, with Groups).  Fields with a comment "history" are    *)
(* not in the code; the properties use them.                               *)
(***************************************************************************)

CONSTANTS
    Owners,      \* running services that declare a route for the namespace
    Clients,     \* sockets
    Tokens,      \* session tokens; a token is issued once
    Events,      \* events the sockets send
    UserOf,      \* the user that logs in with each token
    RoutePolicy, \* the access policy of each owner's route
    EventPolicy, \* and the one of the event, "public" if it has none
    Handles,     \* the events each owner declared: "event", "disconnect"
    None         \* nil

Policies == {"public", "auth", "group"}
Allows == {"public", "group"} \* a service's allow is a list of groups, or empty
Users == {UserOf[t] : t \in Tokens}
Identities == Users \X BOOLEAN  \* auth.User: the name, and if it is in the group

ASSUME SocketsAssumption ==
    /\ None \notin Owners \cup Clients \cup Tokens \cup Users
    /\ UserOf \in [Tokens -> Users]
    /\ RoutePolicy \in [Owners -> Policies] /\ EventPolicy \in [Owners -> Policies]
    /\ Handles \in [Owners -> SUBSET {"event", "disconnect"}]

VARIABLES
    session,   \* auth.Sessions: "unused", "live", "expired" or "ended" (deleted)
    reap,      \* tokens ValidateSession found expired and is about to delete
    members,   \* the users in the group the policies name (configuration)
    allow,     \* the access policy the configuration gives each service
    owner,     \* Bridge.owners
    installed, \* whether the namespace has its listeners (Bridge.registered)
    releasing, \* the owner whose release has yet to disconnect the sockets
    sock,      \* the sockets
    event      \* the events

authVars == <<session, reap, members, allow>>
bridgeVars == <<owner, installed, releasing>>
vars == <<authVars, bridgeVars, sock, event>>

Socket == [st : {"new", "asked", "admitted", "joined", "bound", "closed"},
           token : Tokens \cup {None}, \* of the handshake
           asked : Owners \cup {None}, \* the owner the middleware asked
           bound : Owners \cup {None}, \* the owner captured by OnConnection
           user : Identities \cup {None}, \* and the user
           told : Owners \cup {None}]  \* history: who handled its disconnect

NewSocket == [st |-> "new", token |-> None, asked |-> None, bound |-> None,
              user |-> None, told |-> None]

Event == [st : {"none", "arrived", "owned", "known", "allowed", "served", "dropped"},
          from : Clients \cup {None},
          at : Owners \cup {None},
          user : Identities \cup {None},
          ids : SUBSET Identities,  \* history: the identities since its arrival
          owners : SUBSET Owners]   \* history: the owners since its arrival

NoEvent == [st |-> "none", from |-> None, at |-> None, user |-> None,
            ids |-> {}, owners |-> {}]

-----------------------------------------------------------------------------
(* Sessions (auth/manager.go).                                             *)

Live(t) == t # None /\ session[t] = "live"

Identity(u) == <<u, u \in members>>

\* UserFromSocket: the user of the token's session with the groups the
\* configuration gives that user now, nil if the token is not valid.  The two
\* reads, one after the other in one function, are one step.
SessionUser(t) == IF Live(t) THEN Identity(UserOf[t]) ELSE None

\* A request without a token has one deleted too.
MutantValidate(t) ==
    reap' = IF t = None \/ session[t] = "expired" THEN reap \cup {t} ELSE reap

\* ValidateSession gives the read lock back to delete an expired session.
Validate(t) ==
    reap' = IF t # None /\ session[t] = "expired" THEN reap \cup {t} ELSE reap

\* AccessPolicy.Check.
Allowed(policy, user) ==
    \/ policy = "public"
    \/ policy = "auth" /\ user # None
    \/ policy = "group" /\ user # None /\ user[2]

Login(t) ==
    /\ session[t] = "unused"
    /\ session' = [session EXCEPT ![t] = "live"]
    /\ UNCHANGED <<reap, members, allow, bridgeVars, sock, event>>

Expire(t) ==
    /\ session[t] = "live"
    /\ session' = [session EXCEPT ![t] = "expired"]
    /\ UNCHANGED <<reap, members, allow, bridgeVars, sock, event>>

Logout(t) ==
    /\ session[t] \in {"live", "expired"}
    /\ session' = [session EXCEPT ![t] = "ended"]
    /\ UNCHANGED <<reap, members, allow, bridgeVars, sock, event>>

\* Every session of the user is deleted.
MutantReap(t) ==
    /\ t \in reap
    /\ reap' = reap \ {t}
    /\ session' = [u \in Tokens |->
                     IF UserOf[u] = UserOf[t] /\ session[u] # "unused" THEN "ended"
                     ELSE session[u]]
    /\ UNCHANGED <<members, allow, bridgeVars, sock, event>>

\* The write lock of ValidateSession: the token is deleted without a second look.
Reap(t) ==
    /\ t \in reap
    /\ reap' = reap \ {t}
    /\ session' = [session EXCEPT ![t] = "ended"]
    /\ UNCHANGED <<members, allow, bridgeVars, sock, event>>

\* An update of the configuration moves a user or changes a service's access.
ChangeGroup(u) ==
    /\ members' = IF u \in members THEN members \ {u} ELSE members \cup {u}
    /\ event' = [e \in Events |->
                   IF event[e].st # "none" /\ Live(sock[event[e].from].token)
                      /\ UserOf[sock[event[e].from].token] = u
                   THEN [event[e] EXCEPT !.ids = @ \cup {<<u, u \notin members>>}]
                   ELSE event[e]]
    /\ UNCHANGED <<session, reap, allow, bridgeVars, sock>>

ChangeAccess(o, policy) ==
    /\ allow[o] # policy
    /\ allow' = [allow EXCEPT ![o] = policy]
    /\ UNCHANGED <<session, reap, members, bridgeVars, sock, event>>

-----------------------------------------------------------------------------
(* Ownership of the namespace.  Register, Unregister and RemoveOwner are   *)
(* called with the locks of the controller and the route registry held.    *)

\* The listeners are installed with the first registration and stay.
Register(o) ==
    /\ releasing = None
    /\ owner = None
    /\ owner' = o
    /\ installed' = TRUE
    /\ event' = [e \in Events |->
                   IF event[e].st = "none" THEN event[e]
                   ELSE [event[e] EXCEPT !.owners = @ \cup {o}]]
    /\ UNCHANGED <<releasing, authVars, sock>>

\* The critical section of Unregister and RemoveOwner.
Release(o) ==
    /\ releasing = None
    /\ owner = o
    /\ owner' = None
    /\ releasing' = o
    /\ UNCHANGED <<installed, authVars, sock, event>>

Close(k) == [sock[k] EXCEPT !.st = "closed"]

\* The sockets the library has added to the namespace.
Disconnectable(k) == sock[k].st \in {"joined", "bound"}

\* DisconnectSockets, after Bridge.mu is released.
DisconnectSockets ==
    /\ releasing # None
    /\ releasing' = None
    /\ sock' = [k \in Clients |-> IF Disconnectable(k) THEN Close(k) ELSE sock[k]]
    /\ UNCHANGED <<owner, installed, authVars, event>>

-----------------------------------------------------------------------------
(* The life of a socket.                                                   *)

\* A client connects with the cookie or header of a session, or with none; the
\* middleware reads the owner and refuses a namespace without one.
Connect(k, t) ==
    /\ sock[k].st = "new" /\ installed
    /\ t # None => session[t] # "unused"
    /\ sock' = [sock EXCEPT ![k] = [@ EXCEPT !.st = IF owner = None THEN "closed" ELSE "asked",
                                             !.token = t, !.asked = owner]]
    /\ UNCHANGED <<authVars, bridgeVars, event>>

\* authorizeNamespace: the service's policy, then the route's.
Authorize(k) ==
    /\ sock[k].st = "asked"
    /\ LET o == sock[k].asked
           user == SessionUser(sock[k].token)
           ok == Allowed(allow[o], user) /\ Allowed(RoutePolicy[o], user)
       IN sock' = [sock EXCEPT ![k].st = IF ok THEN "admitted" ELSE "closed"]
    /\ Validate(sock[k].token)
    /\ UNCHANGED <<session, members, allow, bridgeVars, event>>

\* External: the library adds the socket to the namespace.
Join(k) ==
    /\ sock[k].st = "admitted"
    /\ sock' = [sock EXCEPT ![k].st = "joined"]
    /\ UNCHANGED <<authVars, bridgeVars, event>>

\* The socket is bound to the service the middleware asked.
MutantBinds(k) == sock[k].asked

Binds(k) == owner

\* OnConnection: the owner and the user of now are captured for the disconnect.
OnConnection(k) ==
    /\ sock[k].st = "joined"
    /\ sock' = [sock EXCEPT ![k] = [@ EXCEPT !.st = "bound", !.bound = Binds(k),
                                             !.user = SessionUser(sock[k].token)]]
    /\ Validate(sock[k].token)
    /\ UNCHANGED <<session, members, allow, bridgeVars, event>>

Leave(k) ==
    /\ sock[k].st \in {"joined", "bound"}
    /\ sock' = [sock EXCEPT ![k] = Close(k)]
    /\ UNCHANGED <<authVars, bridgeVars, event>>

\* The disconnect goes to whoever owns the namespace now.
MutantDisconnectTo(k) == owner

\* The service a disconnect is reported to: the one captured by OnConnection,
\* with the user captured there and without any check.
DisconnectTo(k) == sock[k].bound

HandleDisconnect(k) ==
    /\ sock[k].st = "closed" /\ sock[k].told = None
    /\ DisconnectTo(k) # None /\ "disconnect" \in Handles[DisconnectTo(k)]
    /\ sock' = [sock EXCEPT ![k].told = DisconnectTo(k)]
    /\ UNCHANGED <<authVars, bridgeVars, event>>

-----------------------------------------------------------------------------
(* An event: handleAny reads the owner, then the user, then the policies,  *)
(* and calls the owner it read.                                            *)

Arrive(e, k) ==
    /\ event[e].st = "none" /\ sock[k].st = "bound"
    /\ event' = [event EXCEPT ![e] =
                   [NoEvent EXCEPT !.st = "arrived", !.from = k,
                                   !.ids = {SessionUser(sock[k].token)} \ {None},
                                   !.owners = {owner} \ {None}]]
    /\ UNCHANGED <<authVars, bridgeVars, sock>>

\* Events go to the service the socket was bound to.
MutantServes(e) == sock[event[e].from].bound

Serves(e) == owner

Handled(o) == o # None /\ "event" \in Handles[o]

ReadOwner(e) ==
    /\ event[e].st = "arrived"
    /\ event' = [event EXCEPT ![e] =
                   [@ EXCEPT !.st = IF Handled(Serves(e)) THEN "owned" ELSE "dropped",
                             !.at = Serves(e)]]
    /\ UNCHANGED <<authVars, bridgeVars, sock>>

\* The user captured when the socket connected is used.
MutantEventUser(e) == sock[event[e].from].user

\* UserFromSocket validates the handshake's token again for every event.
EventUser(e) == SessionUser(sock[event[e].from].token)

Identify(e) ==
    /\ event[e].st = "owned"
    /\ event' = [event EXCEPT ![e].st = "known", ![e].user = EventUser(e)]
    /\ Validate(sock[event[e].from].token)
    /\ UNCHANGED <<session, members, allow, bridgeVars, sock>>

\* The service's policy, the route's and the event's.
Check(e) ==
    /\ event[e].st = "known"
    /\ LET o == event[e].at
           ok == \A policy \in {allow[o], RoutePolicy[o], EventPolicy[o]} :
                    Allowed(policy, event[e].user)
       IN event' = [event EXCEPT ![e].st = IF ok THEN "allowed" ELSE "dropped"]
    /\ UNCHANGED <<authVars, bridgeVars, sock>>

HandleEvent(e) ==
    /\ event[e].st = "allowed"
    /\ event' = [event EXCEPT ![e].st = "served"]
    /\ UNCHANGED <<authVars, bridgeVars, sock>>

-----------------------------------------------------------------------------
Init ==
    /\ session = [t \in Tokens |-> "unused"]
    /\ reap = {} /\ members \in SUBSET Users
    /\ allow = [o \in Owners |-> "public"]
    /\ owner = None /\ installed = FALSE /\ releasing = None
    /\ sock = [k \in Clients |-> NewSocket]
    /\ event = [e \in Events |-> NoEvent]

Next ==
    \/ \E t \in Tokens : Login(t) \/ Expire(t) \/ Logout(t) \/ Reap(t)
    \/ \E u \in Users : ChangeGroup(u)
    \/ \E o \in Owners : Register(o) \/ Release(o)
    \/ \E o \in Owners, policy \in Allows : ChangeAccess(o, policy)
    \/ DisconnectSockets
    \/ \E k \in Clients :
          \/ Authorize(k) \/ Join(k) \/ OnConnection(k) \/ Leave(k) \/ HandleDisconnect(k)
          \/ \E t \in Tokens \cup {None} : Connect(k, t)
          \/ \E e \in Events : Arrive(e, k)
    \/ \E e \in Events :
          ReadOwner(e) \/ Identify(e) \/ Check(e) \/ HandleEvent(e)

Spec == Init /\ [][Next]_vars

\* The goroutine of a socket runs its listeners.
FairSpec == Spec /\ \A k \in Clients : WF_vars(HandleDisconnect(k))

-----------------------------------------------------------------------------
(* Properties.                                                             *)

TypeOK ==
    /\ session \in [Tokens -> {"unused", "live", "expired", "ended"}]
    /\ reap \subseteq Tokens /\ members \subseteq Users
    /\ allow \in [Owners -> Allows]
    /\ owner \in Owners \cup {None} /\ releasing \in Owners \cup {None}
    /\ installed \in BOOLEAN
    /\ sock \in [Clients -> Socket]
    /\ event \in [Events -> Event]

\* An event is handled as a user only if the session of the handshake had that
\* user, in or out of the group, at some moment since the event arrived: a login
\* that has ended, or a group that has been left, is not used again.
IdentityIsCurrent ==
    \A e \in Events : event[e].user # None => event[e].user \in event[e].ids

\* An event is handed only to a service that has owned the namespace since the
\* event arrived, never to the one its socket was bound to before a release.
EventGoesToOwner ==
    \A e \in Events : event[e].at # None => event[e].at \in event[e].owners

\* Once a release is over no open socket is bound to the service released: a
\* socket that was let in before and connects later is bound to no one, or to
\* the next owner.
ReleasedSocketsClosed ==
    \A k \in Clients : sock[k].st = "bound" =>
        sock[k].bound \in {owner, releasing, None}

\* A live session ends by a logout or by its expiry: the deletion ValidateSession
\* does between two locks hits nothing but the expired session it looked at.
LiveEndsByLogout ==
    [][\A t \in Tokens :
         session[t] = "live" /\ session'[t] = "ended" => Logout(t)]_vars

\* The service a socket was bound to is told of its end, if it declared the
\* event, even if it has released the namespace meanwhile.
DisconnectIsTold ==
    \A k \in Clients, o \in {p \in Owners : "disconnect" \in Handles[p]} :
        (sock[k].st = "closed" /\ sock[k].bound = o) ~> (sock[k].told = o)

=============================================================================
