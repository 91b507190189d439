--------------------------- MODULE ChannelsProofs ---------------------------
(***************************************************************************)
(* Proofs about Channels, for every set of services, whatever they send to *)
(* whom and how often, and every number of calls and starts.               *)
(***************************************************************************)
EXTENDS Channels, TLAPS

\* What cancels a context is a source of its kind and of nothing else.
LEMMA SourceFacts ==
    /\ \A i \in Instances : Life(i) \in Sources /\ Proc(i) \in Sources
    /\ \A c \in Calls : Client(c) \in Sources
    /\ \A i, j : Life(i) = Life(j) => i = j
    /\ \A i, j : Life(i) # Proc(j) /\ Life(i) # Client(j)
  BY DEF Sources, Life, Proc, Client

\* An instance is a service and the number of its start, and not nil.
LEMMA InstanceFacts ==
    /\ \A i \in Instances : i[1] \in Services
    /\ None \notin Instances /\ None \notin Calls /\ None \notin Kinds
    /\ Disconnect \in Calls
  <1>1. ASSUME NEW i \in Instances
        PROVE  i \in Services \X Nat
    <2>1. PICK s \in Services : i \in {s} \X (1 .. MaxStarts[s])
      BY DEF Instances
    <2>2. 1 .. MaxStarts[s] \subseteq Nat
      BY ChannelsAssumption
    <2> QED BY <2>1, <2>2
  <1>2. None \notin Instances
    BY <1>1, ChannelsAssumption
  <1>3. None \notin Calls /\ None \notin Kinds /\ Disconnect \in Calls
    BY ChannelsAssumption DEF Calls, Disconnect
  <1> QED BY <1>1, <1>2, <1>3

-----------------------------------------------------------------------------
(* What a step does to the calls in progress and to the mutexes.           *)

\* Only a start calls Register, and a message goes to an instance that is loaded.
Finds(i, kind) ==
    /\ kind = "register" => phase[i] = "new" /\ phase' = [phase EXCEPT ![i] = "register"]
    /\ kind = "message" => UNCHANGED phase /\ \E t \in Services : loaded[t] = i

\* A call begins that nobody inside a service waits for.
Opens(c, i, kind, ctx) ==
    /\ call[c].st = "free" /\ Finds(i, kind)
    /\ call' = [call EXCEPT ![c] = Found(i, kind, None, ctx)]
    /\ UNCHANGED holder

\* A handler makes a call and waits for it.
Passes(c, d, i, kind, ctx, left) ==
    /\ call[c].st \in {"run", "bind"} /\ call[d].st = "free"
    /\ kind # "register" /\ Finds(i, kind)
    /\ call' = [call EXCEPT ![c] = [call[c] EXCEPT !.st = "send", !.left = left],
                            ![d] = Found(i, kind, c, ctx)]
    /\ UNCHANGED holder

\* A call gets on, inside its instance or on its way in: through the mutex of a
\* module, or into a gRPC connection with a context that has not been cancelled.
Moves(c, st, ctx) ==
    /\ \/ call[c].st = "found" /\ st = "lock" /\ UNCHANGED holder
       \/ /\ call[c].st = "found" /\ st = "run" /\ ~IsWasm(call[c].at)
          /\ ctx = CallContext(c) /\ ctx \cap dead = {}
          /\ UNCHANGED holder
       \/ /\ call[c].st = "lock" /\ st = "run"
          /\ holder[call[c].at] = None
          /\ holder' = [holder EXCEPT ![call[c].at] = c]
       \/ call[c].st = "run" /\ st = "bind" /\ UNCHANGED holder
       \/ call[c].st = "bind" /\ st = "run" /\ UNCHANGED holder
    /\ call' = [call EXCEPT ![c] = [call[c] EXCEPT !.st = st, !.ctx = ctx]]

\* A call in progress is at an instance, for a reason; a free slot is blank.
CallInv ==
    \A c \in Calls :
        IF call[c].st = "free" THEN call[c].kind = None /\ call[c].by = None
        ELSE call[c].at \in Instances /\ call[c].kind \in Kinds

\* The messages a service may send reach the instance DispatchServiceMessage
\* finds, which is one of the target's.
LEMMA TargetType ==
    ASSUME TypeOK, NEW t \in Services, Target(t) # None
    PROVE  Target(t) \in Instances
  BY DEF TypeOK, Target

\* The actions, by what they do to the calls.
LEMMA CallCases ==
    ASSUME TypeOK, CallInv, [Next]_vars
    PROVE  \/ UNCHANGED <<call, holder>>
           \/ \E c \in Calls, i \in Instances, kind \in Kinds, ctx \in SUBSET Sources :
                 Opens(c, i, kind, ctx)
           \/ \E c, d \in Calls, i \in Instances, kind \in Kinds,
                 ctx \in SUBSET Sources, left \in 0 .. MaxSends :
                 Passes(c, d, i, kind, ctx, left)
           \/ \E c \in Calls, st \in {"lock", "run", "bind"}, ctx \in SUBSET Sources :
                 Moves(c, st, ctx)
           \/ \E c \in Calls, ok \in BOOLEAN : call[c].st # "free" /\ End(c, ok)
           \/ \E c \in Calls : Hangup(c)
  <1> DEFINE Goal ==
           \/ UNCHANGED <<call, holder>>
           \/ \E c \in Calls, i \in Instances, kind \in Kinds, ctx \in SUBSET Sources :
                 Opens(c, i, kind, ctx)
           \/ \E c, d \in Calls, i \in Instances, kind \in Kinds,
                 ctx \in SUBSET Sources, left \in 0 .. MaxSends :
                 Passes(c, d, i, kind, ctx, left)
           \/ \E c \in Calls, st \in {"lock", "run", "bind"}, ctx \in SUBSET Sources :
                 Moves(c, st, ctx)
           \/ \E c \in Calls, ok \in BOOLEAN : call[c].st # "free" /\ End(c, ok)
           \/ \E c \in Calls : Hangup(c)
  <1> USE SourceFacts, InstanceFacts
  <1>0. \A c \in Calls : /\ call[c] \in Call
                         /\ call[c].st # "free" => call[c].at \in Instances
    BY DEF TypeOK, CallInv
  <1>1. CASE UNCHANGED vars
    BY <1>1 DEF vars
  <1>2. ASSUME NEW i \in Instances, FinishStart(i) \/ Stop(i) \/ Cancel(i) \/ Close(i)
        PROVE  Goal
    BY <1>2 DEF FinishStart, Stop, Cancel, Close
  <1>3. ASSUME NEW i \in Instances, Detach(i)
        PROVE  Goal
    <2>1. CASE UNCHANGED call
      BY <1>3, <2>1 DEF Detach
    <2>2. CASE call' = [call EXCEPT ![Disconnect] = Found(i, "disconnect", None, {})]
      <3>1. Opens(Disconnect, i, "disconnect", {})
        BY <1>3, <2>2 DEF Detach, ControllerUnlocked, Opens, Finds
      <3> QED BY <3>1 DEF Kinds
    <2> QED BY <1>3, <2>1, <2>2 DEF Detach
  <1>4. ASSUME NEW i \in Instances, NEW c \in Calls, Start(i, c)
        PROVE  Goal
    <2>1. Opens(c, i, "register", {Client(c)})
      BY <1>4 DEF Start, Opens, Finds, IsSlot, FreeSlots
    <2> QED BY <2>1 DEF Kinds
  <1>5. ASSUME NEW i \in Instances, NEW c \in Calls, NEW kind \in {"http", "event"},
               Request(i, kind, c)
        PROVE  Goal
    <2>1. Opens(c, i, kind, IF kind = "http" THEN {Client(c)} ELSE {})
      BY <1>5 DEF Request, Opens, Finds, IsSlot, FreeSlots
    <2> QED BY <2>1 DEF Kinds
  <1>6. ASSUME NEW i \in Instances, NEW d \in Calls, NEW t \in Services,
               SendFreely(i, t, d)
        PROVE  Goal
    <2>1. Opens(d, Target(t), "message", {Client(d), Proc(i)})
      BY <1>6 DEF SendFreely, Opens, Finds, Target, IsSlot, FreeSlots
    <2>2. Target(t) \in Instances
      BY <1>6, TargetType DEF SendFreely
    <2> QED BY <2>1, <2>2 DEF Kinds
  <1>7. ASSUME NEW c \in Calls, NEW d \in Calls, NEW t \in Services, SendMessage(c, t, d)
        PROVE  Goal
    <2> DEFINE ctx == IF IsWasm(call[c].at) THEN call[c].ctx
                      ELSE {Client(d), Proc(call[c].at)}
    <2>1. Target(t) \in Instances
      BY <1>7, TargetType DEF SendMessage
    <2>2. ctx \in SUBSET Sources
      BY <1>0, <1>7 DEF SendMessage, Call
    <2>3. call[c].left - 1 \in 0 .. MaxSends
      <3>1. call[c].left \in 0 .. MaxSends /\ call[c].left > 0
        BY <1>0, <1>7 DEF SendMessage, Call
      <3> QED BY <3>1, ChannelsAssumption
    <2>4. Passes(c, d, Target(t), "message", ctx, call[c].left - 1)
      BY <1>0, <1>7 DEF SendMessage, Passes, Finds, Target, IsSlot, FreeSlots, TypeOK, Call
    <2> QED BY <2>1, <2>2, <2>3, <2>4 DEF Kinds
  <1>8. ASSUME NEW c \in Calls, HostCall(c)
        PROVE  Goal
    <2>1. Moves(c, "bind", call[c].ctx) /\ call[c].ctx \in SUBSET Sources
      BY <1>0, <1>8 DEF HostCall, Moves, TypeOK, Call
    <2> QED BY <2>1
  <1>9. ASSUME NEW c \in Calls, Bind(c)
        PROVE  Goal
    <2>1. CASE call' = [call EXCEPT ![c].st = "run"]
      <3>1. Moves(c, "run", call[c].ctx) /\ call[c].ctx \in SUBSET Sources
        BY <1>0, <1>9, <2>1 DEF Bind, Moves, TypeOK, Call
      <3> QED BY <3>1
    <2>2. CASE call' = [call EXCEPT ![c].st = "send",
                                    ![Disconnect] = Found(call[c].at, "disconnect", c, {})]
      <3>1. Passes(c, Disconnect, call[c].at, "disconnect", {}, call[c].left)
        BY <1>0, <1>9, <2>2 DEF Bind, Passes, Finds, ControllerUnlocked, TypeOK, Call
      <3>2. call[c].at \in Instances /\ call[c].left \in 0 .. MaxSends
        BY <1>0, <1>9 DEF Bind, Call
      <3> QED BY <3>1, <3>2 DEF Kinds
    <2> QED BY <1>9, <2>1, <2>2 DEF Bind
  <1>10. ASSUME NEW c \in Calls, Enter(c)
         PROVE  Goal
    <2>1. CallContext(c) \in SUBSET Sources
      BY <1>0, <1>10 DEF Enter, CallContext, Call
    <2>2. CASE /\ call' = [call EXCEPT ![c].st = "lock", ![c].ctx = CallContext(c)]
               /\ UNCHANGED holder
      <3>1. Moves(c, "lock", CallContext(c))
        BY <1>0, <1>10, <2>2 DEF Enter, Moves, TypeOK, Call
      <3> QED BY <2>1, <3>1
    <2>3. CASE /\ call' = [call EXCEPT ![c].st = "run", ![c].ctx = CallContext(c)]
               /\ ~TakesLock(c) /\ CallContext(c) \cap dead = {}
               /\ UNCHANGED holder
      <3>1. Moves(c, "run", CallContext(c))
        BY <1>0, <1>10, <2>3 DEF Enter, Moves, TakesLock, TypeOK, Call
      <3> QED BY <2>1, <3>1
    <2>4. CASE End(c, FALSE)
      BY <1>10, <2>4 DEF Enter
    <2> QED BY <1>10, <2>2, <2>3, <2>4 DEF Enter
  <1>11. ASSUME NEW c \in Calls, Acquire(c)
         PROVE  Goal
    <2>1. CASE /\ call' = [call EXCEPT ![c].st = "run"]
               /\ holder' = [holder EXCEPT ![call[c].at] = c]
      <3>1. Moves(c, "run", call[c].ctx) /\ call[c].ctx \in SUBSET Sources
        BY <1>0, <1>11, <2>1 DEF Acquire, Moves, TypeOK, Call
      <3> QED BY <3>1
    <2>2. CASE End(c, FALSE)
      BY <1>11, <2>2 DEF Acquire
    <2> QED BY <1>11, <2>1, <2>2 DEF Acquire
  <1>12. ASSUME NEW c \in Calls, Return(c) \/ Abort(c)
         PROVE  Goal
    BY <1>12 DEF Return, Abort
  <1>13. ASSUME NEW c \in Calls, Hangup(c)
         PROVE  Goal
    BY <1>13
  <1> QED
    BY <1>1, <1>2, <1>3, <1>4, <1>5, <1>6, <1>7, <1>8, <1>9, <1>10, <1>11, <1>12, <1>13
    DEF Next

-----------------------------------------------------------------------------
(* Who waits for whom.                                                     *)

\* A caller that is waited for is inside "send", and waits for one call.
ByInv ==
    /\ \A c \in Calls : call[c].by # None => call[call[c].by].st = "send"
    /\ \A c, d \in Calls : call[c].by # None /\ call[c].by = call[d].by => c = d

\* A call is found with the bound of messages left.
LEMMA FoundType ==
    ASSUME NEW i \in Instances, NEW kind \in Kinds, NEW by \in Calls \cup {None},
           NEW ctx \in SUBSET Sources
    PROVE  /\ Found(i, kind, by, ctx) \in Call
           /\ Found(i, kind, by, ctx).st = "found" /\ Found(i, kind, by, ctx).at = i
           /\ Found(i, kind, by, ctx).kind = kind /\ Found(i, kind, by, ctx).by = by
           /\ Found(i, kind, by, ctx).ctx = ctx
  BY ChannelsAssumption DEF Found, Call

\* What the end of a call leaves of the others: a caller that waited for it runs.
LEMMA EndedFacts ==
    ASSUME TypeOK, NEW c \in Calls, call' = Ended(c)
    PROVE  /\ call' \in [Calls -> Call]
           /\ call'[c] = NoCall
           /\ \A d \in Calls \ {c} :
                 /\ call'[d].at = call[d].at /\ call'[d].kind = call[d].kind
                 /\ call'[d].ctx = call[d].ctx
                 /\ call'[d].st = IF d = call[c].by THEN "run" ELSE call[d].st
                 /\ call'[d].by = IF call[d].by = c THEN None ELSE call[d].by
  <1>1. \A d \in Calls : call[d] \in Call
    BY DEF TypeOK
  <1>2. NoCall \in Call
    BY ChannelsAssumption DEF NoCall, Call
  <1>3. \A d \in Calls \ {c} :
           call'[d] = [call[d] EXCEPT !.st = IF d = call[c].by THEN "run" ELSE @,
                                      !.by = IF @ = c THEN None ELSE @]
    BY DEF Ended
  <1>4. \A d \in Calls \ {c} :
           /\ call'[d] \in Call
           /\ call'[d].at = call[d].at /\ call'[d].kind = call[d].kind
           /\ call'[d].ctx = call[d].ctx
           /\ call'[d].st = IF d = call[c].by THEN "run" ELSE call[d].st
           /\ call'[d].by = IF call[d].by = c THEN None ELSE call[d].by
    <2> TAKE d \in Calls \ {c}
    <2> DEFINE st == IF d = call[c].by THEN "run" ELSE call[d].st
               by == IF call[d].by = c THEN None ELSE call[d].by
    <2>1. call[d] \in Call /\ by \in Calls \cup {None}
          /\ st \in {"free", "found", "lock", "run", "send", "bind"}
      BY <1>1 DEF Call
    <2>2. call'[d] = [call[d] EXCEPT !.st = st, !.by = by]
      BY <1>3
    <2> HIDE DEF st, by
    <2>3. /\ call'[d] \in Call /\ call'[d].st = st /\ call'[d].by = by
          /\ call'[d].at = call[d].at /\ call'[d].kind = call[d].kind
          /\ call'[d].ctx = call[d].ctx
      BY <2>1, <2>2 DEF Call
    <2> QED BY <2>3 DEF st, by
  <1>5. call'[c] = NoCall /\ DOMAIN call' = Calls /\ call' = [d \in Calls |-> call'[d]]
    BY DEF Ended
  <1> QED BY <1>2, <1>4, <1>5

\* The same for a caller that stops waiting.
LEMMA HangupFacts ==
    ASSUME TypeOK, NEW c \in Calls, Hangup(c)
    PROVE  /\ call' \in [Calls -> Call]
           /\ \A d \in Calls :
                 /\ call'[d].at = call[d].at /\ call'[d].kind = call[d].kind
                 /\ call'[d].ctx = call[d].ctx
                 /\ call'[d].st = IF d = call[c].by /\ d # c THEN "run" ELSE call[d].st
                 /\ call'[d].by = IF d = c THEN None ELSE call[d].by
  <1>1. \A d \in Calls : call[d] \in Call
    BY DEF TypeOK
  <1>2. \A d \in Calls :
           call'[d] = IF d = c THEN [call[d] EXCEPT !.by = None]
                      ELSE IF d = call[c].by THEN [call[d] EXCEPT !.st = "run"]
                      ELSE call[d]
    BY DEF Hangup
  <1>3. \A d \in Calls :
           /\ call'[d] \in Call
           /\ call'[d].at = call[d].at /\ call'[d].kind = call[d].kind
           /\ call'[d].ctx = call[d].ctx
           /\ call'[d].st = IF d = call[c].by /\ d # c THEN "run" ELSE call[d].st
           /\ call'[d].by = IF d = c THEN None ELSE call[d].by
    <2> TAKE d \in Calls
    <2>1. CASE d = c
      BY <1>1, <1>2, <2>1, ZenonT(40) DEF Call
    <2>2. CASE d # c /\ d = call[c].by
      <3>1. call[d] \in Call /\ call'[d] = [call[d] EXCEPT !.st = "run"]
        BY <1>1, <1>2, <2>2
      <3> QED BY <2>2, <3>1 DEF Call
    <2>3. CASE d # c /\ d # call[c].by
      BY <1>1, <1>2, <2>3
    <2> QED BY <2>1, <2>2, <2>3
  <1>4. call' = [d \in Calls |-> call'[d]]
    BY DEF Hangup
  <1> QED BY <1>3, <1>4

LEMMA CallStep ==
    ASSUME TypeOK, CallInv, ByInv, [Next]_vars
    PROVE  call' \in [Calls -> Call] /\ CallInv' /\ ByInv'
  <1> DEFINE Goal == call' \in [Calls -> Call] /\ CallInv' /\ ByInv'
  <1> USE InstanceFacts
  <1>0. call \in [Calls -> Call] /\ \A c \in Calls : call[c] \in Call
    BY DEF TypeOK
  <1>1. CASE UNCHANGED call
    BY <1>0, <1>1 DEF CallInv, ByInv
  <1>2. ASSUME NEW c \in Calls, NEW i \in Instances, NEW kind \in Kinds,
               NEW ctx \in SUBSET Sources, Opens(c, i, kind, ctx)
        PROVE  Goal
    <2>1. call'[c] = Found(i, kind, None, ctx) /\ \A d \in Calls \ {c} : call'[d] = call[d]
      BY <1>0, <1>2 DEF Opens
    <2>2. call' \in [Calls -> Call]
      BY <1>0, <1>2, FoundType DEF Opens
    <2> QED BY <1>2, <2>1, <2>2, FoundType DEF Opens, CallInv, ByInv
  <1>3. ASSUME NEW c \in Calls, NEW d \in Calls, NEW i \in Instances, NEW kind \in Kinds,
               NEW ctx \in SUBSET Sources, NEW left \in 0 .. MaxSends,
               Passes(c, d, i, kind, ctx, left)
        PROVE  Goal
    <2> DEFINE caller == [call[c] EXCEPT !.st = "send", !.left = left]
    <2>1. /\ caller \in Call /\ caller.st = "send" /\ caller.at = call[c].at
          /\ caller.kind = call[c].kind /\ caller.by = call[c].by
      BY <1>0 DEF Call
    <2>2. c # d /\ call'[d] = Found(i, kind, c, ctx) /\ call'[c] = caller
          /\ \A e \in Calls \ {c, d} : call'[e] = call[e]
      BY <1>0, <1>3 DEF Passes
    <2>3. call' \in [Calls -> Call]
      BY <1>0, <1>3, <2>1, FoundType DEF Passes
    <2> HIDE DEF caller
    <2>4. /\ call'[d].st = "found" /\ call'[d].at = i /\ call'[d].kind = kind
          /\ call'[d].by = c
      BY <2>2, FoundType
    <2>5. /\ call'[c].st = "send" /\ call'[c].at = call[c].at
          /\ call'[c].kind = call[c].kind /\ call'[c].by = call[c].by
      BY <2>1, <2>2
    <2>6. CallInv'
      BY <1>3, <2>2, <2>4, <2>5 DEF CallInv, Passes
    <2>7. \A e \in Calls : call[e].by # None => call[e].by \in Calls \ {c, d} /\ e # d
      <3>1. call[c].st # "send" /\ call[d].st = "free"
        BY <1>3 DEF Passes
      <3> QED BY <1>0, <3>1 DEF CallInv, ByInv, Call
    <2>8. ByInv'
      BY <2>2, <2>4, <2>5, <2>7 DEF ByInv
    <2> QED BY <2>3, <2>6, <2>8
  <1>4. ASSUME NEW c \in Calls, NEW st \in {"lock", "run", "bind"},
               NEW ctx \in SUBSET Sources, Moves(c, st, ctx)
        PROVE  Goal
    <2> DEFINE new == [call[c] EXCEPT !.st = st, !.ctx = ctx]
    <2>1. /\ new \in Call /\ new.st = st /\ new.at = call[c].at
          /\ new.kind = call[c].kind /\ new.by = call[c].by
      BY <1>0 DEF Call
    <2>2. call'[c] = new /\ \A e \in Calls \ {c} : call'[e] = call[e]
      BY <1>0, <1>4 DEF Moves
    <2>3. call' \in [Calls -> Call]
      BY <1>0, <1>4, <2>1 DEF Moves
    <2> HIDE DEF new
    <2> QED BY <1>4, <2>1, <2>2, <2>3 DEF CallInv, ByInv, Moves
  <1>5. ASSUME NEW c \in Calls, call[c].st # "free", call' = Ended(c)
        PROVE  Goal
    <2>1. NoCall.st = "free" /\ NoCall.kind = None /\ NoCall.by = None
      BY DEF NoCall
    <2>2. CallInv'
      BY <1>5, <2>1, EndedFacts DEF CallInv, ByInv
    <2>3. ByInv'
      BY <1>0, <1>5, <2>1, EndedFacts DEF ByInv, Call
    <2> QED BY <1>5, <2>2, <2>3, EndedFacts
  <1>6. ASSUME NEW c \in Calls, Hangup(c)
        PROVE  Goal
    <2>1. CallInv'
      BY <1>6, HangupFacts DEF CallInv, ByInv, Hangup
    <2>2. ByInv'
      BY <1>0, <1>6, HangupFacts DEF ByInv, Call
    <2> QED BY <1>6, <2>1, <2>2, HangupFacts
  <1> QED BY <1>1, <1>2, <1>3, <1>4, <1>5, <1>6, CallCases DEF End

-----------------------------------------------------------------------------
(* What a step does to the instances.                                      *)

\* The actions, by what they do to the phases.
LEMMA PhaseCases ==
    ASSUME [Next]_vars
    PROVE  \/ UNCHANGED <<phase, loaded, dead>>
           \/ \E i \in Instances : FinishStart(i)
           \/ \E i \in Instances : Stop(i)
           \/ \E i \in Instances : Cancel(i)
           \/ \E i \in Instances : Detach(i)
           \/ \E i \in Instances : Close(i)
           \/ \E i \in Instances, c \in Calls : Start(i, c)
           \/ \E c \in Calls, ok \in BOOLEAN : call[c].st # "free" /\ End(c, ok)
           \/ \E c \in Calls : Hangup(c)
  <1>1. ASSUME NEW c \in Calls, Enter(c)
        PROVE  UNCHANGED <<phase, loaded, dead>> \/ (call[c].st # "free" /\ End(c, FALSE))
    BY <1>1 DEF Enter
  <1>2. ASSUME NEW c \in Calls, Acquire(c)
        PROVE  UNCHANGED <<phase, loaded, dead>> \/ (call[c].st # "free" /\ End(c, FALSE))
    BY <1>2 DEF Acquire
  <1>3. ASSUME NEW c \in Calls, Return(c) \/ Abort(c)
        PROVE  \E ok \in BOOLEAN : call[c].st # "free" /\ End(c, ok)
    BY <1>3 DEF Return, Abort
  <1>4. ASSUME NEW c \in Calls, HostCall(c) \/ Bind(c)
        PROVE  UNCHANGED <<phase, loaded, dead>>
    BY <1>4 DEF HostCall, Bind
  <1>5. ASSUME NEW i, NEW c, NEW d, NEW t, NEW kind,
               Request(i, kind, c) \/ SendFreely(i, t, d) \/ SendMessage(c, t, d)
        PROVE  UNCHANGED <<phase, loaded, dead>>
    BY <1>5 DEF Request, SendFreely, SendMessage
  <1>6. CASE UNCHANGED vars
    BY <1>6 DEF vars
  <1> QED BY <1>1, <1>2, <1>3, <1>4, <1>5, <1>6 DEF Next

\* The end of a call concerns the start or the cleanup of its own instance.
LEMMA AfterCallFacts ==
    ASSUME TypeOK, CallInv, NEW c \in Calls, NEW ok \in BOOLEAN,
           call[c].st # "free", phase' = AfterCall(c, ok)
    PROVE  /\ phase' \in [Instances -> Phases]
           /\ \A i \in Instances :
                 \/ phase'[i] = phase[i] /\ ~(call[c].kind = "register" /\ i = call[c].at)
                 \/ /\ i = call[c].at /\ call[c].kind = "register"
                    /\ phase'[i] \in {"finish", "drop"}
                 \/ phase[i] = "detaching" /\ phase'[i] = "close"
                 \/ phase[i] = "dropping" /\ phase'[i] = "cancel_dropped"
  <1> DEFINE j == call[c].at
  <1>0. j \in Instances /\ phase \in [Instances -> Phases]
    BY DEF TypeOK, CallInv
  <1>1. CASE call[c].kind = "register"
    <2>1. phase' = [phase EXCEPT ![j] = IF ok THEN "finish" ELSE "drop"]
      BY <1>1 DEF AfterCall
    <2> QED BY <1>0, <1>1, <2>1 DEF Phases
  <1>2. CASE call[c].kind = "disconnect" /\ phase[j] \in {"detaching", "dropping"}
    <2>1. phase' = [phase EXCEPT ![j] = AfterDetach(phase[j])]
      BY <1>2 DEF AfterCall
    <2> QED BY <1>0, <1>2, <2>1 DEF AfterDetach, Phases
  <1>3. CASE call[c].kind # "register"
             /\ ~(call[c].kind = "disconnect" /\ phase[j] \in {"detaching", "dropping"})
    <2>1. phase' = phase
      BY <1>3 DEF AfterCall
    <2> QED BY <1>0, <1>3, <2>1
  <1> QED BY <1>1, <1>2, <1>3

LEMMA TypeStep == TypeOK /\ CallInv /\ ByInv /\ [Next]_vars => TypeOK'
  <1> SUFFICES ASSUME TypeOK, CallInv, ByInv, [Next]_vars
               PROVE  TypeOK'
    OBVIOUS
  <1> USE SourceFacts, InstanceFacts
  <1>1. call' \in [Calls -> Call]
    BY CallStep
  <1>2. phase' \in [Instances -> Phases] /\ loaded' \in [Services -> Instances \cup {None}]
        /\ dead' \subseteq Sources
    <2> DEFINE Goal == /\ phase' \in [Instances -> Phases]
                       /\ loaded' \in [Services -> Instances \cup {None}]
                       /\ dead' \subseteq Sources
    <2>1. CASE UNCHANGED <<phase, loaded, dead>>
      BY <2>1 DEF TypeOK
    <2>2. ASSUME NEW i \in Instances,
                 FinishStart(i) \/ Stop(i) \/ Cancel(i) \/ Close(i) \/ \E c \in Calls : Start(i, c)
          PROVE  Goal
      <3>1. CASE FinishStart(i) \/ Stop(i)
        <4>1. /\ phase' = [phase EXCEPT ![i] = "up"] \/ phase' = [phase EXCEPT ![i] = "cancel"]
              /\ loaded' = [loaded EXCEPT ![i[1]] = i] \/ loaded' = [loaded EXCEPT ![i[1]] = None]
              /\ dead' = dead
          BY <3>1 DEF FinishStart, Stop
        <4> QED BY <4>1 DEF TypeOK, Phases
      <3>2. CASE Cancel(i)
        <4>1. phase' = [phase EXCEPT ![i] = IF phase[i] = "cancel" THEN "detach" ELSE "close"]
          BY <3>2 DEF Cancel
        <4>2. dead' = dead \cup {Life(i)} /\ loaded' = loaded
          BY <3>2 DEF Cancel
        <4> QED BY <4>1, <4>2 DEF TypeOK, Phases
      <3>4. CASE Close(i)
        <4>1. phase' = [phase EXCEPT ![i] = "closed"]
          BY <3>4 DEF Close
        <4>2. dead' = dead \cup {Proc(i)} /\ loaded' = loaded
          BY <3>4 DEF Close
        <4> QED BY <4>1, <4>2 DEF TypeOK, Phases
      <3>3. CASE \E c \in Calls : Start(i, c)
        BY <3>3 DEF TypeOK, Start, Phases
      <3> QED BY <2>2, <3>1, <3>2, <3>3, <3>4
    <2>3. ASSUME NEW i \in Instances, Detach(i)
          PROVE  Goal
      BY <2>3 DEF TypeOK, Detach, AfterDetach, Phases
    <2>4. ASSUME NEW c \in Calls, NEW ok \in BOOLEAN, call[c].st # "free", End(c, ok)
          PROVE  Goal
      BY <2>4, AfterCallFacts DEF TypeOK, End
    <2>5. ASSUME NEW c \in Calls, Hangup(c)
          PROVE  Goal
      BY <2>5 DEF TypeOK, Hangup
    <2> QED BY <2>1, <2>2, <2>3, <2>4, <2>5, PhaseCases
  <1>3. holder' \in [Instances -> Calls \cup {None}]
    BY CallCases DEF TypeOK, Opens, Passes, Moves, End, Release, Hangup, CallInv
  <1> QED BY <1>1, <1>2, <1>3 DEF TypeOK

-----------------------------------------------------------------------------
(* The mutex of a WASM connection.                                         *)

\* Whoever is inside a module holds its mutex.
HolderInv ==
    \A c \in Calls :
        call[c].st \in {"run", "send", "bind"} /\ IsWasm(call[c].at) => holder[call[c].at] = c

LEMMA HolderImplies == TypeOK /\ HolderInv => ModuleNotReentered
  BY DEF HolderInv, ModuleNotReentered, Inside

\* A call is inside after a step if it was before, or gets in through Moves.
LEMMA InsideStep ==
    ASSUME TypeOK, CallInv, ByInv, [Next]_vars, NEW c \in Calls,
           call'[c].st \in {"run", "send", "bind"}
    PROVE  /\ call'[c].at = call[c].at
           /\ \/ call[c].st \in {"run", "send", "bind"}
              \/ \E ctx \in SUBSET Sources : Moves(c, "run", ctx)
  <1> DEFINE Goal == /\ call'[c].at = call[c].at
                     /\ \/ call[c].st \in {"run", "send", "bind"}
                        \/ \E ctx \in SUBSET Sources : Moves(c, "run", ctx)
  <1>0. call \in [Calls -> Call] /\ \A d \in Calls : call[d] \in Call
    BY DEF TypeOK
  <1> USE InstanceFacts
  <1>1. CASE UNCHANGED call
    BY <1>1
  <1>2. ASSUME NEW d \in Calls, NEW i \in Instances, NEW kind \in Kinds,
               NEW ctx \in SUBSET Sources, Opens(d, i, kind, ctx)
        PROVE  Goal
    BY <1>0, <1>2, FoundType DEF Opens
  <1>3. ASSUME NEW b \in Calls, NEW d \in Calls, NEW i \in Instances, NEW kind \in Kinds,
               NEW ctx \in SUBSET Sources, NEW left \in 0 .. MaxSends,
               Passes(b, d, i, kind, ctx, left)
        PROVE  Goal
    <2>1. c # d
      <3>1. call'[d] = Found(i, kind, b, ctx)
        BY <1>0, <1>3 DEF Passes
      <3> QED BY <3>1, FoundType
    <2>2. CASE c = b
      <3>1. call'[c] = [call[c] EXCEPT !.st = "send", !.left = left]
        BY <1>0, <1>3, <2>1, <2>2 DEF Passes
      <3> QED BY <1>0, <1>3, <2>2, <3>1, ZenonT(40) DEF Passes, Call
    <2>3. CASE c # b
      BY <1>0, <1>3, <2>1, <2>3 DEF Passes
    <2> QED BY <2>2, <2>3
  <1>4. ASSUME NEW d \in Calls, NEW st \in {"lock", "run", "bind"},
               NEW ctx \in SUBSET Sources, Moves(d, st, ctx)
        PROVE  Goal
    <2>1. CASE c # d
      BY <1>0, <1>4, <2>1 DEF Moves
    <2>2. CASE c = d
      <3>1. call'[c].at = call[c].at /\ call'[c].st = st
        BY <1>0, <1>4, <2>2 DEF Moves, Call
      <3> QED BY <1>4, <2>2, <3>1 DEF Moves
    <2> QED BY <2>1, <2>2
  <1>5. ASSUME NEW d \in Calls, call' = Ended(d)
        PROVE  Goal
    <2>1. c # d
      BY <1>5, EndedFacts DEF NoCall
    <2> QED BY <1>5, <2>1, EndedFacts DEF ByInv
  <1>6. ASSUME NEW d \in Calls, Hangup(d)
        PROVE  Goal
    BY <1>6, HangupFacts DEF ByInv
  <1> QED BY <1>1, <1>2, <1>3, <1>4, <1>5, <1>6, CallCases DEF End

LEMMA HolderStep == TypeOK /\ CallInv /\ ByInv /\ HolderInv /\ [Next]_vars => HolderInv'
  <1> SUFFICES ASSUME TypeOK, CallInv, ByInv, HolderInv, [Next]_vars, NEW c \in Calls,
                      call'[c].st \in {"run", "send", "bind"}, IsWasm(call'[c].at)
               PROVE  holder'[call'[c].at] = c
    BY DEF HolderInv, IsWasm
  <1> DEFINE i == call[c].at
  <1>1. call'[c].at = i
    BY InsideStep
  <1>2. ASSUME NEW ctx, Moves(c, "run", ctx), call[c].st \notin {"run", "send", "bind"}
        PROVE  holder'[i] = c
    <2>1. i \in Instances
      BY <1>2 DEF Moves, CallInv
    <2> QED BY <1>1, <1>2, <2>1 DEF Moves, TypeOK
  <1>3. CASE call[c].st \in {"run", "send", "bind"}
    <2>1. holder[i] = c /\ i \in Instances
      BY <1>1, <1>3 DEF HolderInv, CallInv
    <2>2. ASSUME NEW d \in Calls, NEW st, NEW ctx, Moves(d, st, ctx)
          PROVE  holder'[i] = c
      <3>1. CASE call[d].st = "lock"
        <4>1. holder[call[d].at] = None /\ holder' = [holder EXCEPT ![call[d].at] = d]
          BY <2>2, <3>1 DEF Moves
        <4>2. i # call[d].at
          BY <2>1, <4>1, InstanceFacts
        <4> QED BY <2>1, <4>1, <4>2 DEF TypeOK
      <3>2. CASE call[d].st # "lock"
        <4>1. holder' = holder
          BY <2>2, <3>2 DEF Moves
        <4> QED BY <2>1, <4>1
      <3> QED BY <3>1, <3>2
    <2>3. ASSUME NEW d \in Calls, NEW ok, End(d, ok)
          PROVE  holder'[i] = c
      <3>1. c # d
        BY <2>3, EndedFacts DEF End, NoCall
      <3> QED BY <2>1, <2>3, <3>1 DEF End, Release
    <2>4. CASE UNCHANGED holder
      BY <1>1, <2>1, <2>4
    <2> QED BY <1>1, <2>2, <2>3, <2>4, CallCases DEF Opens, Passes, Hangup
  <1> QED BY <1>1, <1>2, <1>3, InsideStep

-----------------------------------------------------------------------------
(* The phases of an instance, the calls that belong to them, and Cancel.   *)

\* A Register call is at an instance that waits for it, one for each.
RegInv ==
    /\ \A c \in Calls : call[c].kind = "register" => phase[call[c].at] = "register"
    /\ \A c, d \in Calls :
          call[c].kind = "register" /\ call[d].kind = "register" /\ call[c].at = call[d].at
          => c = d

\* DispatchServiceMessage finds an instance of the service it asks for that is up.
LoadedInv ==
    \A s \in Services : loaded[s] # None => loaded[s][1] = s /\ phase[loaded[s]] = "up"

\* The phases that come after Cancel.
Past == {"detach", "detaching", "close", "closed"}

DeadInv == \A i \in Instances : Life(i) \in dead => phase[i] \in Past

\* The phases in which the start is not finished.
Early == {"new", "register", "finish"}

\* An instance goes through its phases in one direction: what a step does to the
\* phase of one instance.
LEMMA PhaseStep ==
    ASSUME TypeOK, CallInv, RegInv, [Next]_vars, NEW i \in Instances
    PROVE  \/ phase'[i] = phase[i]
           \/ phase[i] = "new" /\ phase'[i] = "register"
           \/ phase[i] = "register" /\ phase'[i] \in {"finish", "drop"}
           \/ phase[i] = "finish" /\ phase'[i] = "up"
           \/ phase[i] = "up" /\ phase'[i] = "cancel" /\ loaded' = [loaded EXCEPT ![i[1]] = None]
           \/ phase[i] = "cancel" /\ phase'[i] = "detach"
           \/ phase[i] \in {"drop", "dropping"} /\ phase'[i] \in {"dropping", "cancel_dropped"}
           \/ phase[i] = "cancel_dropped" /\ phase'[i] = "close"
           \/ phase[i] \in {"detach", "detaching"} /\ phase'[i] \in {"detaching", "close"}
           \/ phase[i] = "close" /\ phase'[i] = "closed"
  <1> DEFINE Goal ==
           \/ phase'[i] = phase[i]
           \/ phase[i] = "new" /\ phase'[i] = "register"
           \/ phase[i] = "register" /\ phase'[i] \in {"finish", "drop"}
           \/ phase[i] = "finish" /\ phase'[i] = "up"
           \/ phase[i] = "up" /\ phase'[i] = "cancel" /\ loaded' = [loaded EXCEPT ![i[1]] = None]
           \/ phase[i] = "cancel" /\ phase'[i] = "detach"
           \/ phase[i] \in {"drop", "dropping"} /\ phase'[i] \in {"dropping", "cancel_dropped"}
           \/ phase[i] = "cancel_dropped" /\ phase'[i] = "close"
           \/ phase[i] \in {"detach", "detaching"} /\ phase'[i] \in {"detaching", "close"}
           \/ phase[i] = "close" /\ phase'[i] = "closed"
  <1>0. phase \in [Instances -> Phases]
    BY DEF TypeOK
  <1>1. ASSUME NEW j \in Instances, FinishStart(j)
        PROVE  Goal
    BY <1>0, <1>1 DEF FinishStart
  <1>2. ASSUME NEW j \in Instances, Stop(j)
        PROVE  Goal
    BY <1>0, <1>2 DEF Stop
  <1>3. ASSUME NEW j \in Instances, Cancel(j)
        PROVE  Goal
    <2>1. phase' = [phase EXCEPT ![j] = IF phase[j] = "cancel" THEN "detach" ELSE "close"]
      BY <1>3 DEF Cancel
    <2> QED BY <1>0, <1>3, <2>1 DEF Cancel
  <1>4. ASSUME NEW j \in Instances, Detach(j)
        PROVE  Goal
    <2>1. \/ phase' = [phase EXCEPT ![j] = IF phase[j] = "detach" THEN "detaching" ELSE "dropping"]
          \/ phase' = [phase EXCEPT ![j] = AfterDetach(phase[j])]
      BY <1>4 DEF Detach
    <2> QED BY <1>0, <1>4, <2>1 DEF Detach, AfterDetach
  <1>5. ASSUME NEW j \in Instances, Close(j)
        PROVE  Goal
    BY <1>0, <1>5 DEF Close
  <1>6. ASSUME NEW j \in Instances, NEW c \in Calls, Start(j, c)
        PROVE  Goal
    BY <1>0, <1>6 DEF Start
  <1>7. ASSUME NEW c \in Calls, NEW ok \in BOOLEAN, call[c].st # "free", End(c, ok)
        PROVE  Goal
    BY <1>7, AfterCallFacts DEF End, RegInv
  <1>8. CASE UNCHANGED phase
    BY <1>8
  <1> QED BY <1>1, <1>2, <1>3, <1>4, <1>5, <1>6, <1>7, <1>8, PhaseCases DEF Hangup

LEMMA DeadStep ==
    TypeOK /\ CallInv /\ RegInv /\ DeadInv /\ [Next]_vars => DeadInv'
  <1> SUFFICES ASSUME TypeOK, CallInv, RegInv, DeadInv, [Next]_vars,
                      NEW i \in Instances, Life(i) \in dead'
               PROVE  phase'[i] \in Past
    BY DEF DeadInv, Life
  <1>1. CASE Life(i) \in dead
    <2>1. phase[i] \in Past
      BY <1>1 DEF DeadInv
    <2> QED BY <2>1, PhaseStep DEF Past
  <1>2. CASE Life(i) \notin dead
    <2>1. ASSUME NEW j \in Instances, Cancel(j)
          PROVE  phase'[i] \in Past
      <3>1. i = j
        BY <1>2, <2>1, SourceFacts DEF Cancel
      <3>2. phase' = [phase EXCEPT ![j] = IF phase[j] = "cancel" THEN "detach" ELSE "close"]
        BY <2>1 DEF Cancel
      <3> QED BY <3>1, <3>2 DEF TypeOK, Past
    <2>2. ASSUME NEW j \in Instances, Close(j)
          PROVE  FALSE
      BY <1>2, <2>2, SourceFacts DEF Close
    <2>3. ASSUME NEW c \in Calls, Hangup(c)
          PROVE  FALSE
      BY <1>2, <2>3, SourceFacts DEF Hangup
    <2>4. ~(dead' \subseteq dead)
      BY <1>2
    <2> QED
      BY <2>1, <2>2, <2>3, <2>4, PhaseCases DEF FinishStart, Stop, Detach, Start, End
  <1> QED BY <1>1, <1>2

LEMMA LoadedStep ==
    TypeOK /\ CallInv /\ RegInv /\ LoadedInv /\ [Next]_vars => LoadedInv'
  <1> SUFFICES ASSUME TypeOK, CallInv, RegInv, LoadedInv, [Next]_vars,
                      NEW s \in Services, loaded'[s] # None
               PROVE  loaded'[s][1] = s /\ phase'[loaded'[s]] = "up"
    BY DEF LoadedInv
  <1>0. /\ phase \in [Instances -> Phases]
        /\ loaded \in [Services -> Instances \cup {None}]
    BY DEF TypeOK
  <1>1. CASE loaded'[s] = loaded[s]
    <2> DEFINE i == loaded[s]
    <2>1. i \in Instances /\ i[1] = s /\ phase[i] = "up"
      BY <1>0, <1>1 DEF LoadedInv
    <2>2. loaded' # [loaded EXCEPT ![i[1]] = None]
      BY <1>0, <1>1, <2>1
    <2>3. phase'[i] = phase[i]
      BY <2>1, <2>2, PhaseStep
    <2> QED BY <1>1, <2>1, <2>3
  <1>2. ASSUME NEW i \in Instances, FinishStart(i), loaded'[s] # loaded[s]
        PROVE  loaded'[s][1] = s /\ phase'[loaded'[s]] = "up"
    <2>1. s = i[1] /\ loaded'[s] = i /\ phase'[i] = "up"
      BY <1>0, <1>2, InstanceFacts DEF FinishStart
    <2> QED BY <2>1
  <1>3. ASSUME NEW i \in Instances, Stop(i), loaded'[s] # loaded[s]
        PROVE  FALSE
    BY <1>0, <1>3, InstanceFacts DEF Stop
  <1> QED
    BY <1>1, <1>2, <1>3, PhaseCases DEF Cancel, Detach, Close, Start, End, Hangup

\* A call keeps its instance and its kind until it ends; a new one finds its own.
LEMMA KindStep ==
    ASSUME TypeOK, CallInv, [Next]_vars, NEW c \in Calls, call'[c].kind # None
    PROVE  \/ /\ call[c].st # "free" /\ call'[c].at = call[c].at
              /\ call'[c].kind = call[c].kind
              /\ \A ok \in BOOLEAN : ~End(c, ok)
           \/ /\ call'[c].at \in Instances /\ Finds(call'[c].at, call'[c].kind)
              /\ call[c].st = "free"
              /\ \A d \in Calls \ {c} : call'[d].kind = call[d].kind /\ call'[d].at = call[d].at
  <1> DEFINE Goal ==
           \/ /\ call[c].st # "free" /\ call'[c].at = call[c].at
              /\ call'[c].kind = call[c].kind
              /\ \A ok \in BOOLEAN : ~End(c, ok)
           \/ /\ call'[c].at \in Instances /\ Finds(call'[c].at, call'[c].kind)
              /\ call[c].st = "free"
              /\ \A d \in Calls \ {c} : call'[d].kind = call[d].kind /\ call'[d].at = call[d].at
  <1>0. call \in [Calls -> Call] /\ \A d \in Calls : call[d] \in Call
    BY DEF TypeOK
  <1>a. \A ok \in BOOLEAN : ~End(c, ok)
    BY EndedFacts DEF End, NoCall
  <1> USE InstanceFacts
  <1>1. CASE UNCHANGED call
    BY <1>1, <1>a DEF CallInv
  <1>2. ASSUME NEW d \in Calls, NEW i \in Instances, NEW kind \in Kinds,
               NEW ctx \in SUBSET Sources, Opens(d, i, kind, ctx)
        PROVE  Goal
    <2>1. call'[d] = Found(i, kind, None, ctx) /\ \A e \in Calls \ {d} : call'[e] = call[e]
      BY <1>0, <1>2 DEF Opens
    <2> QED BY <1>2, <1>a, <2>1, FoundType DEF Opens, CallInv
  <1>3. ASSUME NEW b \in Calls, NEW d \in Calls, NEW i \in Instances, NEW kind \in Kinds,
               NEW ctx \in SUBSET Sources, NEW left \in 0 .. MaxSends,
               Passes(b, d, i, kind, ctx, left)
        PROVE  Goal
    <2>1. /\ b # d /\ call'[d] = Found(i, kind, b, ctx)
          /\ call'[b] = [call[b] EXCEPT !.st = "send", !.left = left]
          /\ \A e \in Calls \ {b, d} : call'[e] = call[e]
      BY <1>0, <1>3 DEF Passes
    <2>2. call'[b].kind = call[b].kind /\ call'[b].at = call[b].at
      BY <1>0, <2>1 DEF Call
    <2>3. call'[d].kind = kind /\ call'[d].at = i
      BY <2>1, FoundType
    <2> QED BY <1>3, <1>a, <2>1, <2>2, <2>3, ZenonT(40) DEF Passes, CallInv
  <1>4. ASSUME NEW d \in Calls, NEW st \in {"lock", "run", "bind"},
               NEW ctx \in SUBSET Sources, Moves(d, st, ctx)
        PROVE  Goal
    <2>1. /\ call'[d] = [call[d] EXCEPT !.st = st, !.ctx = ctx]
          /\ \A e \in Calls \ {d} : call'[e] = call[e]
      BY <1>0, <1>4 DEF Moves
    <2>2. call'[d].kind = call[d].kind /\ call'[d].at = call[d].at
      BY <1>0, <2>1 DEF Call
    <2> QED BY <1>4, <1>a, <2>1, <2>2 DEF Moves, CallInv
  <1>5. ASSUME NEW d \in Calls, call' = Ended(d)
        PROVE  Goal
    <2>1. c # d
      BY <1>5, EndedFacts DEF NoCall
    <2> QED BY <1>5, <1>a, <2>1, EndedFacts DEF CallInv
  <1>6. ASSUME NEW d \in Calls, Hangup(d)
        PROVE  Goal
    BY <1>6, <1>a, HangupFacts DEF CallInv
  <1> QED BY <1>1, <1>2, <1>3, <1>4, <1>5, <1>6, CallCases DEF End

LEMMA RegisterStep ==
    TypeOK /\ CallInv /\ ByInv /\ RegInv /\ [Next]_vars => RegInv'
  <1> SUFFICES ASSUME TypeOK, CallInv, ByInv, RegInv, [Next]_vars
               PROVE  RegInv'
    OBVIOUS
  <1> USE InstanceFacts
  <1>0. phase \in [Instances -> Phases]
    BY DEF TypeOK
  <1>1. ASSUME NEW c \in Calls, call'[c].kind = "register"
        PROVE  phase'[call'[c].at] = "register"
    <2>1. CASE Finds(call'[c].at, call'[c].kind) /\ call'[c].at \in Instances
      BY <1>0, <1>1, <2>1 DEF Finds
    <2>2. CASE /\ call[c].st # "free" /\ call'[c].at = call[c].at /\ call[c].kind = "register"
               /\ \A ok \in BOOLEAN : ~End(c, ok)
      <3> DEFINE i == call[c].at
      <3>1. i \in Instances /\ phase[i] = "register"
        BY <2>2 DEF RegInv, CallInv
      <3>2. ASSUME NEW d \in Calls, NEW ok \in BOOLEAN, call[d].st # "free", End(d, ok)
            PROVE  phase'[i] = "register"
        <4>1. ~(call[d].kind = "register" /\ i = call[d].at)
          BY <2>2, <3>2 DEF RegInv
        <4> QED BY <3>1, <3>2, <4>1, AfterCallFacts DEF End
      <3>3. ASSUME NEW j \in Instances, Start(j, c) \/ FinishStart(j) \/ Stop(j)
            PROVE  phase'[i] = "register"
        BY <1>0, <3>1, <3>3 DEF Start, FinishStart, Stop
      <3>4. ASSUME NEW j \in Instances, Cancel(j) \/ Detach(j) \/ Close(j)
            PROVE  phase'[i] = "register"
        <4>1. i # j
          BY <3>1, <3>4 DEF Cancel, Detach, Close
        <4>2. \E ph : phase' = [phase EXCEPT ![j] = ph]
          BY <3>4 DEF Cancel, Detach, Close
        <4> QED BY <1>0, <3>1, <4>1, <4>2
      <3>5. ASSUME NEW j \in Instances, NEW d \in Calls, Start(j, d)
            PROVE  phase'[i] = "register"
        BY <1>0, <3>1, <3>5 DEF Start
      <3>6. phase'[i] = "register"
        BY <3>1, <3>2, <3>3, <3>4, <3>5, PhaseCases DEF Hangup
      <3> QED BY <2>2, <3>6
    <2> QED BY <1>1, <2>1, <2>2, KindStep DEF Kinds
  <1>2. ASSUME NEW c \in Calls, NEW d \in Calls, call'[c].kind = "register",
               call'[d].kind = "register", call'[c].at = call'[d].at, c # d
        PROVE  FALSE
    <2>1. ASSUME NEW a \in Calls, NEW b \in Calls, a # b, call'[a].kind = "register",
                 call'[b].kind = "register", call'[a].at = call'[b].at,
                 Finds(call'[a].at, call'[a].kind),
                 call'[b].kind = call[b].kind, call'[b].at = call[b].at
          PROVE  FALSE
      BY <2>1 DEF Finds, RegInv
    <2>2. \/ Finds(call'[c].at, call'[c].kind) /\ call'[d].kind = call[d].kind
             /\ call'[d].at = call[d].at
          \/ call'[c].kind = call[c].kind /\ call'[c].at = call[c].at
      BY <1>2, KindStep DEF Kinds
    <2>3. \/ Finds(call'[d].at, call'[d].kind) /\ call'[c].kind = call[c].kind
             /\ call'[c].at = call[c].at
          \/ call'[d].kind = call[d].kind /\ call'[d].at = call[d].at
      BY <1>2, KindStep DEF Kinds
    <2> QED BY <1>2, <2>1, <2>2, <2>3 DEF RegInv
  <1> QED BY <1>1, <1>2 DEF RegInv

LEMMA MessageStep ==
    TypeOK /\ CallInv /\ RegInv /\ LoadedInv /\ NoMessageWhileStarting /\ [Next]_vars
    => NoMessageWhileStarting'
  <1> SUFFICES ASSUME TypeOK, CallInv, RegInv, LoadedInv, NoMessageWhileStarting,
                      [Next]_vars, NEW c \in Calls, call'[c].kind = "message"
               PROVE  phase'[call'[c].at] \notin Early
    BY DEF NoMessageWhileStarting, Early
  <1> USE InstanceFacts
  <1>1. CASE Finds(call'[c].at, call'[c].kind) /\ call'[c].at \in Instances
    BY <1>1 DEF Finds, LoadedInv, Early
  <1>2. CASE call[c].st # "free" /\ call'[c].at = call[c].at /\ call[c].kind = "message"
    <2>1. call[c].at \in Instances /\ phase[call[c].at] \notin Early
      BY <1>2 DEF CallInv, NoMessageWhileStarting, Early
    <2>2. phase'[call[c].at] \notin Early
      BY <2>1, PhaseStep DEF Early
    <2> QED BY <1>2, <2>2
  <1> QED BY <1>1, <1>2, KindStep DEF Kinds

-----------------------------------------------------------------------------
(* The inductive invariant and the theorems.                               *)

ChannelsInv ==
    /\ TypeOK /\ CallInv /\ ByInv /\ HolderInv
    /\ RegInv /\ LoadedInv /\ DeadInv /\ NoMessageWhileStarting

LEMMA InvInit == Init => ChannelsInv
  <1> SUFFICES ASSUME Init PROVE ChannelsInv
    OBVIOUS
  <1> USE InstanceFacts
  <1>1. NoCall \in Call /\ NoCall.st = "free" /\ NoCall.kind = None /\ NoCall.by = None
    BY ChannelsAssumption DEF NoCall, Call
  <1>2. TypeOK
    BY <1>1 DEF Init, TypeOK, Phases
  <1>3. \A c \in Calls : call[c].st = "free" /\ call[c].kind = None /\ call[c].by = None
    BY <1>1 DEF Init
  <1>4. CallInv /\ ByInv /\ HolderInv
    BY <1>3 DEF CallInv, ByInv, HolderInv
  <1>5. RegInv /\ NoMessageWhileStarting
    BY <1>3 DEF RegInv, NoMessageWhileStarting, Kinds
  <1>6. LoadedInv /\ DeadInv
    BY DEF Init, LoadedInv, DeadInv
  <1> QED BY <1>2, <1>4, <1>5, <1>6 DEF ChannelsInv

LEMMA InvInduction == ChannelsInv /\ [Next]_vars => ChannelsInv'
  BY CallStep, TypeStep, HolderStep, RegisterStep, LoadedStep, DeadStep, MessageStep
  DEF ChannelsInv

\* No call enters a gRPC instance that has been cancelled.
LEMMA EntryStep ==
    ASSUME ChannelsInv, [Next]_vars, NEW c \in Calls,
           call[c].st = "found", call'[c].st = "run"
    PROVE  Life(call[c].at) \notin dead
  <1>1. PICK ctx \in SUBSET Sources : Moves(c, "run", ctx)
    BY InsideStep DEF ChannelsInv
  <1>2. CallContext(c) \cap dead = {} /\ call[c].at \in Instances
    BY <1>1 DEF Moves, ChannelsInv, CallInv
  <1>3. CASE call[c].kind = "register"
    BY <1>2, <1>3 DEF ChannelsInv, RegInv, DeadInv, Past
  <1>4. CASE call[c].kind # "register"
    BY <1>2, <1>4 DEF CallContext
  <1> QED BY <1>3, <1>4

\* The variables keep their types, with every slot that is free blank.
THEOREM TypeCorrect == Spec => []TypeOK
  <1>1. ChannelsInv => TypeOK
    BY DEF ChannelsInv
  <1> QED BY <1>1, InvInit, InvInduction, PTL DEF Spec

\* A WASM module is never entered while a call is inside it (the mutex of
\* wasm/adapter.go), whatever the services send each other and however many
\* calls, messages and starts there are.
THEOREM ModuleSafety == Spec => []ModuleNotReentered
  <1>1. ChannelsInv => ModuleNotReentered
    BY HolderImplies DEF ChannelsInv
  <1> QED BY <1>1, InvInit, InvInduction, PTL DEF Spec

\* DispatchServiceMessage never delivers to a service that is starting.
THEOREM MessageSafety == Spec => []NoMessageWhileStarting
  <1>1. ChannelsInv => NoMessageWhileStarting
    BY DEF ChannelsInv
  <1> QED BY <1>1, InvInit, InvInduction, PTL DEF Spec

\* CallContext keeps a call that found its gRPC instance before Cancel out of it
\* after Cancel.
THEOREM EntrySafety == Spec => NoEntryAfterCancel
  <1>1. ChannelsInv /\ [Next]_vars =>
            [\A c \in Calls :
               /\ call[c].st = "found" /\ call'[c].st = "run"
               => Life(call[c].at) \notin dead]_vars
    BY EntryStep
  <1> QED BY <1>1, InvInit, InvInduction, PTL DEF Spec, NoEntryAfterCancel

=============================================================================
