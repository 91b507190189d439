------------------------------ MODULE Channels ------------------------------
(***************************************************************************)
(* Calls into services and the locks and contexts they run under: HTTP     *)
(* requests on RPC routes, Socket.IO events, messages between services and *)
(* the Register call of a start, while instances are started and stopped.  *)
(*                                                                         *)
(* A call finds its instance under a lock (the route table, the bridge's   *)
(* owners, the supervisor's entries), releases the lock, and enters the    *)
(* instance later.  A gRPC connection takes any number of calls at once    *)
(* and gives a call up when its context is cancelled.  A WASM connection   *)
(* has a mutex that is held during the call; neither the wait for it nor   *)
(* the running module looks at the context.                                *)
(*                                                                         *)
(* A handler that changes its bindings takes Controller.mu for the change. *)
(* Removing a Socket.IO route, by the service or by Detach, disconnects    *)
(* the sockets of the namespace with that lock held, and the listeners the *)
(* library runs then call the service with the event "disconnect".  The    *)
(* slot Disconnect is that call; Controller.mu is held across steps only   *)
(* while it is in progress.                                                *)
(*                                                                         *)
(* The code of a service is external: inside a call it may send messages,  *)
(* wait for their answers, change its bindings, and return; a service in   *)
(* Hanging need never return.  What a service does is given by constants.  *)
(***************************************************************************)
EXTENDS Naturals, FiniteSets

CONSTANTS
    Services,  \* service names
    Wasm,      \* the services that are WASM modules; the others speak gRPC
    Hanging,   \* the services whose handlers need not return
    Sends,     \* pairs of a service and one it may send messages to
    Rebinds,   \* the services whose handlers register and unregister bindings
    Watches,   \* the services with sockets connected that declare "disconnect"
    MaxCalls,  \* bound on the calls in progress
    MaxSends,  \* bound on the messages one handler sends
    MaxStarts, \* bound on the starts of each service
    None       \* nil

\* The methods of spec.Conn, and the two events the kernel tells apart.
Kinds == {"register", "http", "event", "message", "disconnect"}

ASSUME ChannelsAssumption ==
    /\ Wasm \subseteq Services /\ Hanging \subseteq Services
    /\ Rebinds \subseteq Services /\ Watches \subseteq Services
    /\ Sends \subseteq Services \X Services
    /\ MaxCalls \in Nat \ {0} /\ MaxSends \in Nat /\ MaxStarts \in [Services -> Nat \ {0}]
    /\ None \notin Services \X Nat /\ None \notin Nat /\ None \notin Kinds

Disconnect == 0
Calls == 0 .. MaxCalls
Instances == UNION {{s} \X (1 .. MaxStarts[s]) : s \in Services}
IsWasm(i) == i[1] \in Wasm

\* What cancels a context: the instance's lifecycle, the end of the process that
\* asked, and whoever waits for the answer (the HTTP client, the timer of
\* Register, a gRPC service that gives its message up).
Life(i) == <<"lifecycle", i>>
Proc(i) == <<"process", i>>
Client(c) == <<"client", c>>
Sources == {Life(i) : i \in Instances} \cup {Proc(i) : i \in Instances}
              \cup {Client(c) : c \in Calls}

VARIABLES
    phase,  \* the next step of an instance's start or cleanup
    loaded, \* serviceEntry.loaded
    call,   \* the calls in progress
    holder, \* the call that holds Conn.mu of a WASM instance
    dead    \* the sources that have been cancelled

vars == <<phase, loaded, call, holder, dead>>

Phases == {"new", "register", "finish", "up", "cancel", "detach", "detaching", "drop",
           "dropping", "cancel_dropped", "close", "closed"}

Call == [st : {"free", "found", "lock", "run", "send", "bind"}, at : Instances \cup {None},
         kind : Kinds \cup {None}, by : Calls \cup {None}, ctx : SUBSET Sources,
         left : 0 .. MaxSends]

NoCall == [st |-> "free", at |-> None, kind |-> None, by |-> None, ctx |-> {}, left |-> 0]

\* A call that has found its instance and not entered it yet.
Found(i, kind, by, ctx) ==
    [st |-> "found", at |-> i, kind |-> kind, by |-> by, ctx |-> ctx, left |-> MaxSends]

FreeSlots == {c \in Calls \ {Disconnect} : call[c].st = "free"}
IsSlot(c) == c \in FreeSlots /\ \A d \in FreeSlots : c <= d

Cancelled(c) == call[c].ctx \cap dead # {}

\* The controller has a session for the instance, so its routes can be found.
Attached(i) == phase[i] \in {"register", "finish", "up", "cancel", "detach", "drop"}

ControllerUnlocked == call[Disconnect].st = "free"
Running(i) == phase[i] \notin {"new", "closed"}

-----------------------------------------------------------------------------
(* The instance's side: Loader.Load, Supervisor.Stop and cleanupLoaded.    *)

\* The backend runs, the session is attached and conn.Register is called with
\* a context that only the timer of registerContext cancels.  A service has one
\* instance at a time (OneBackendPerService of module Lifecycle).
Start(i, c) ==
    /\ phase[i] = "new" /\ IsSlot(c)
    /\ \A n \in 1 .. MaxStarts[i[1]] : n < i[2] => phase[<<i[1], n>>] = "closed"
    /\ phase' = [phase EXCEPT ![i] = "register"]
    /\ call' = [call EXCEPT ![c] = Found(i, "register", None, {Client(c)})]
    /\ UNCHANGED <<loaded, holder, dead>>

\* Messages find the service from here on.
FinishStart(i) ==
    /\ phase[i] = "finish"
    /\ phase' = [phase EXCEPT ![i] = "up"]
    /\ loaded' = [loaded EXCEPT ![i[1]] = i]
    /\ UNCHANGED <<call, holder, dead>>

Stop(i) ==
    /\ phase[i] = "up"
    /\ phase' = [phase EXCEPT ![i] = "cancel"]
    /\ loaded' = [loaded EXCEPT ![i[1]] = None]
    /\ UNCHANGED <<call, holder, dead>>

\* Where an instance's cleanup goes on once Detach has returned.
AfterDetach(ph) == IF ph \in {"detach", "detaching"} THEN "close" ELSE "cancel_dropped"

\* cleanupLoaded cancels first; the failure paths of Load detach first.
Cancel(i) ==
    /\ phase[i] \in {"cancel", "cancel_dropped"}
    /\ dead' = dead \cup {Life(i)}
    /\ phase' = [phase EXCEPT ![i] = IF @ = "cancel" THEN "detach" ELSE "close"]
    /\ UNCHANGED <<loaded, call, holder>>

\* Controller.Detach, with sockets to disconnect or without.
Detach(i) ==
    /\ phase[i] \in {"detach", "drop"} /\ ControllerUnlocked
    /\ \/ /\ i[1] \in Watches
          /\ call' = [call EXCEPT ![Disconnect] = Found(i, "disconnect", None, {})]
          /\ phase' = [phase EXCEPT ![i] = IF @ = "detach" THEN "detaching" ELSE "dropping"]
       \/ /\ phase' = [phase EXCEPT ![i] = AfterDetach(@)]
          /\ UNCHANGED call
    /\ UNCHANGED <<loaded, holder, dead>>

\* The backend is closed under the calls that are still inside.
Close(i) ==
    /\ phase[i] = "close"
    /\ phase' = [phase EXCEPT ![i] = "closed"]
    /\ dead' = dead \cup {Proc(i)}
    /\ UNCHANGED <<loaded, call, holder>>

-----------------------------------------------------------------------------
(* A call finds its instance.                                              *)

\* An HTTP request matches an RPC route, or an event the owner of its namespace.
\* The context of the request is cancelled when the client leaves; an event's
\* derives from context.Background().
Request(i, kind, c) ==
    /\ Attached(i) /\ IsSlot(c)
    /\ call' = [call EXCEPT ![c] =
                  Found(i, kind, None, IF kind = "http" THEN {Client(c)} ELSE {})]
    /\ UNCHANGED <<phase, loaded, holder, dead>>

\* The target of a message is looked up among the attached sessions.
MutantTarget(s) ==
    IF \E i \in Instances : i[1] = s /\ Attached(i)
    THEN CHOOSE i \in Instances : i[1] = s /\ Attached(i) ELSE None

\* The instance DispatchServiceMessage finds for a target, nil if there is none.
Target(s) == loaded[s]

\* A handler sends a message and waits for the answer.  A WASM module passes on
\* the context of the call it runs in; a gRPC service opens a stream of its own.
SendMessage(c, t, d) ==
    /\ call[c].st = "run" /\ call[c].left > 0 /\ IsSlot(d)
    /\ Running(call[c].at) \/ IsWasm(call[c].at)
    /\ <<call[c].at[1], t>> \in Sends
    /\ Target(t) # None
    /\ call' = [call EXCEPT
                  ![c].st = "send", ![c].left = @ - 1,
                  ![d] = Found(Target(t), "message", c,
                               IF IsWasm(call[c].at) THEN call[c].ctx
                               ELSE {Client(d), Proc(call[c].at)})]
    /\ UNCHANGED <<phase, loaded, holder, dead>>

\* A gRPC service also sends from goroutines of its own, until its process ends.
SendFreely(i, t, d) ==
    /\ ~IsWasm(i) /\ Running(i) /\ IsSlot(d)
    /\ <<i[1], t>> \in Sends
    /\ Target(t) # None
    /\ call' = [call EXCEPT ![d] =
                  Found(Target(t), "message", None, {Client(d), Proc(i)})]
    /\ UNCHANGED <<phase, loaded, holder, dead>>

\* A handler calls Host.RegisterRoutes or one of its siblings.
HostCall(c) ==
    /\ call[c].st = "run" /\ call[c].at[1] \in Rebinds
    /\ call' = [call EXCEPT ![c].st = "bind"]
    /\ UNCHANGED <<phase, loaded, holder, dead>>

\* The controller serves it.  Removing a Socket.IO route disconnects its sockets.
Bind(c) ==
    /\ call[c].st = "bind" /\ ControllerUnlocked
    /\ \/ call' = [call EXCEPT ![c].st = "run"]
       \/ /\ call[c].at[1] \in Watches
          /\ call' = [call EXCEPT ![c].st = "send",
                                  ![Disconnect] = Found(call[c].at, "disconnect", c, {})]
    /\ UNCHANGED <<phase, loaded, holder, dead>>

-----------------------------------------------------------------------------
(* A call ends: its slot is free, its mutex released, its caller goes on.  *)

Ended(c) ==
    [d \in Calls |->
       IF d = c THEN NoCall
       ELSE [call[d] EXCEPT !.st = IF d = call[c].by THEN "run" ELSE @,
                            !.by = IF @ = c THEN None ELSE @]]

\* The mutex stays locked when a call ends.
MutantRelease(c) == holder

Release(c) == [i \in Instances |-> IF holder[i] = c THEN None ELSE holder[i]]

\* A failed Register call leaves the start in a state nobody goes on from.
MutantAfterCall(c, ok) ==
    IF call[c].kind = "register"
    THEN [phase EXCEPT ![call[c].at] = IF ok THEN "finish" ELSE "failed"]
    ELSE phase

\* What the end of a call means for the start or the cleanup that waits for it.
AfterCall(c, ok) ==
    LET i == call[c].at
    IN CASE call[c].kind = "register" ->
              [phase EXCEPT ![i] = IF ok THEN "finish" ELSE "drop"]
         [] call[c].kind = "disconnect" /\ phase[i] \in {"detaching", "dropping"} ->
              [phase EXCEPT ![i] = AfterDetach(@)]
         [] OTHER -> phase

End(c, ok) ==
    /\ call' = Ended(c)
    /\ holder' = Release(c)
    /\ phase' = AfterCall(c, ok)
    /\ dead' = dead \ {Client(c)}
    /\ UNCHANGED loaded

-----------------------------------------------------------------------------
(* A call enters and leaves the instance.                                  *)

\* The instance's lifecycle is not merged into the context of a call.
MutantCallContext(c) == call[c].ctx

\* Instance.CallContext and EventContext: the caller's context merged with the
\* instance's lifecycle.
CallContext(c) ==
    IF call[c].kind = "register" THEN call[c].ctx
    ELSE call[c].ctx \cup {Life(call[c].at)}

\* HandleServiceMessage does not take the lock.
MutantTakesLock(c) == IsWasm(call[c].at) /\ call[c].kind # "message"

\* All four methods of the WASM Conn begin with c.mu.Lock(), those of the gRPC
\* Conn take no lock.
TakesLock(c) == IsWasm(call[c].at)

\* The method of spec.Conn is called.  A gRPC client refuses a cancelled context
\* and a closed connection.
Enter(c) ==
    /\ call[c].st = "found"
    /\ LET i == call[c].at
           ctx == CallContext(c)
       IN IF TakesLock(c)
          THEN /\ call' = [call EXCEPT ![c].st = "lock", ![c].ctx = ctx]
               /\ UNCHANGED <<phase, loaded, holder, dead>>
          ELSE IF ctx \cap dead # {} \/ phase[i] = "closed"
          THEN End(c, FALSE)
          ELSE /\ call' = [call EXCEPT ![c].st = "run", ![c].ctx = ctx]
               /\ UNCHANGED <<phase, loaded, holder, dead>>

\* c.mu.Lock(), then the module's function, which fails in a closed runtime.
Acquire(c) ==
    /\ call[c].st = "lock"
    /\ LET i == call[c].at
       IN /\ holder[i] = None
          /\ IF phase[i] = "closed"
             THEN End(c, FALSE)
             ELSE /\ call' = [call EXCEPT ![c].st = "run"]
                  /\ holder' = [holder EXCEPT ![i] = c]
                  /\ UNCHANGED <<phase, loaded, dead>>

\* The handler returns, with or without an error.
Return(c) ==
    /\ call[c].st = "run"
    /\ \E ok \in BOOLEAN : End(c, ok)

\* A call gives up only when its process has ended.
MutantAbort(c) ==
    /\ call[c].st \in {"run", "send", "bind"}
    /\ ~IsWasm(call[c].at)
    /\ phase[call[c].at] = "closed"
    /\ End(c, FALSE)

\* A gRPC call whose context is cancelled or whose process has ended returns an
\* error at once, whatever the service does.
Abort(c) ==
    /\ call[c].st \in {"run", "send", "bind"}
    /\ ~IsWasm(call[c].at)
    /\ Cancelled(c) \/ phase[call[c].at] = "closed"
    /\ End(c, FALSE)

\* Whoever waits for the answer stops waiting: the client of a request, the
\* timer of Register, or a gRPC service, which then goes on in its handler.
Hangup(c) ==
    /\ call[c].st # "free"
    /\ Client(c) \in call[c].ctx \ dead
    /\ dead' = dead \cup {Client(c)}
    /\ call' = [d \in Calls |->
                  IF d = c THEN [call[d] EXCEPT !.by = None]
                  ELSE IF d = call[c].by THEN [call[d] EXCEPT !.st = "run"]
                  ELSE call[d]]
    /\ UNCHANGED <<phase, loaded, holder>>

-----------------------------------------------------------------------------
Init ==
    /\ phase = [i \in Instances |-> "new"]
    /\ loaded = [s \in Services |-> None]
    /\ call = [c \in Calls |-> NoCall]
    /\ holder = [i \in Instances |-> None]
    /\ dead = {}

Next ==
    \/ \E i \in Instances :
          \/ FinishStart(i) \/ Stop(i) \/ Cancel(i) \/ Detach(i) \/ Close(i)
          \/ \E c \in Calls : Start(i, c)
          \/ \E c \in Calls, kind \in {"http", "event"} : Request(i, kind, c)
          \/ \E d \in Calls, t \in Services : SendFreely(i, t, d)
    \/ \E c \in Calls :
          \/ Enter(c) \/ Acquire(c) \/ Return(c) \/ Abort(c) \/ Hangup(c)
          \/ HostCall(c) \/ Bind(c)
          \/ \E d \in Calls, t \in Services : SendMessage(c, t, d)

Spec == Init /\ [][Next]_vars

\* The goroutines of the kernel run, the timer of Register fires, a mutex that
\* is released again and again reaches every waiter (the starvation mode of
\* sync.Mutex), and the handlers of the services outside Hanging return.
Fairness ==
    /\ \A i \in Instances :
          WF_vars(FinishStart(i)) /\ WF_vars(Cancel(i)) /\ WF_vars(Close(i))
          /\ WF_vars(Detach(i))
    /\ \A c \in Calls :
          /\ WF_vars(Enter(c)) /\ WF_vars(Abort(c))
          /\ SF_vars(Acquire(c))
          /\ WF_vars(Hangup(c) /\ call[c].kind = "register")
          /\ WF_vars(Return(c) /\ call[c].at[1] \notin Hanging)

FairSpec == Spec /\ Fairness

-----------------------------------------------------------------------------
(* Properties.                                                             *)

TypeOK ==
    /\ phase \in [Instances -> Phases]
    /\ loaded \in [Services -> Instances \cup {None}]
    /\ call \in [Calls -> Call]
    /\ holder \in [Instances -> Calls \cup {None}]
    /\ dead \subseteq Sources

Inside(i) == {c \in Calls : call[c].at = i /\ call[c].st \in {"run", "send", "bind"}}

\* A WASM instance is never entered while a call is inside, also when that call
\* waits for the answer to a message or is the Register call of the start: "a
\* WASM service instance is not reentrant" (wasm/adapter.go).
ModuleNotReentered ==
    \A i \in Instances : IsWasm(i) => \A c, d \in Inside(i) : c = d

\* No message is on its way to a service whose Register call has not returned:
\* DispatchServiceMessage refuses it, so that the call of a starting WASM module
\* never waits for itself, and a service answers only once it has its parameters.
NoMessageWhileStarting ==
    \A c \in Calls : call[c].kind = "message" =>
        phase[call[c].at] \notin {"new", "register", "finish"}

\* No call enters a gRPC instance after Cancel, even one that found its route or
\* its target before: CallContext merges the lifecycle when the call is made.
NoEntryAfterCancel ==
    [][\A c \in Calls :
         /\ call[c].st = "found" /\ call'[c].st = "run"
         => Life(call[c].at) \notin dead]_vars

\* The services all of whose calls end: they and the services they send to, in
\* any number of steps, return from their handlers and leave their bindings
\* alone, and a chain of messages that leaves a WASM module does not come back.
Patient(s) ==
    \E P \in SUBSET (Services \ (Hanging \cup Rebinds)) :
        /\ s \in P
        /\ \E rank \in [P -> 0 .. Cardinality(Services)] :
              \A p \in P, t \in Services : <<p, t>> \in Sends =>
                  /\ t \in P /\ rank[t] <= rank[p]
                  /\ p \in Wasm => rank[t] < rank[p]

PatientServices == {s \in Services : Patient(s)}

\* Every call into such a service ends, its wait for the mutex included, whatever
\* starts, stops and hanging callers do meanwhile.  Without the condition the
\* mutex of wasm/adapter.go can be waited for forever.
EveryCallEnds ==
    \A c \in Calls :
        (call[c].st # "free" /\ call[c].at[1] \in PatientServices)
            ~> (call[c].st = "free")

\* A gRPC call whose context is cancelled (the client left, the instance or the
\* sender was stopped, Register timed out) ends although the handler hangs.
CancelledCallsEnd ==
    \A c \in Calls :
        (call[c].st # "free" /\ ~IsWasm(call[c].at) /\ Cancelled(c))
            ~> (call[c].st = "free")

\* Stopping a service detaches it and closes its backend also when calls hang
\* inside it: of the locks of the calls cleanupLoaded needs only Controller.mu,
\* which is held during a call of a "disconnect" handler.
StopCloses ==
    Watches \subseteq PatientServices =>
        \A i \in Instances : (phase[i] = "cancel") ~> (phase[i] = "closed")

\* "When a service session exits, the kernel forcibly removes all of its routes
\* and transports so dead bindings cannot remain" (service-architecture.md).
ExitRemovesBindings ==
    \A i \in Instances : (phase[i] = "cancel") ~> (phase[i] \in {"close", "closed"})

=============================================================================
