------------------------- MODULE ServiceLifeProofs --------------------------
(***************************************************************************)
(* Proofs about Lifecycle while the kernel is not shut down, for every set *)
(* of services and requests: a service in transition has one worker, at    *)
(* most one backend, and lives the life of module ServiceLife.             *)
(***************************************************************************)
EXTENDS LifecycleProofs

-----------------------------------------------------------------------------
(* The inductive invariant.                                                *)

\* The labels at which a process works on the entry it has put in transition.
Workers == {"backend", "attach", "register", "finish", "cancel", "detach", "remove",
            "unmirror", "close", "settle", "settle failed"}

Stopped == {"absent", "discovered", "failed"}

LEMMA WorkerFacts ==
    /\ \A p : Starting(p) \/ Cleaning(p) \/ Settling(p) <=> pc[p] \in Workers
    /\ \A p : MustBeAttached(p) => pc[p] \in Workers
    /\ Holders \subseteq Workers
  BY DEF Starting, Cleaning, Settling, MustBeAttached, Workers, Holders

OneInv ==
    \A p, q \in Procs : pc[p] \in Workers /\ pc[q] \in Workers /\ svc[p] = svc[q] => p = q

\* The status of an entry is the one its worker has put it in.
StateInv ==
    \A p \in Procs : pc[p] \in Workers =>
        /\ status[svc[p]] = IF why[p] = "stop" THEN "stopping" ELSE "starting"
        /\ why[p] # "abort" /\ (Starting(p) => why[p] # "stop")

TransitInv ==
    \A s \in Services : status[s] \in {"starting", "stopping"} =>
        \E p \in Procs : pc[p] \in Workers /\ svc[p] = s

RunInv == \A s \in Services : status[s] = "running" => loaded[s] # None

\* A session belongs to a loaded instance or to one whose worker will detach it.
SessionInv ==
    \A s \in Services : sessions[s] # None =>
        loaded[s] # None \/ \E p \in Procs : MustBeAttached(p) /\ svc[p] = s

WorkInv == pc[Closer] = "idle" /\ OneInv /\ StateInv /\ TransitInv /\ RunInv /\ SessionInv

\* The three invariants together.
LifeInv == TypeOK /\ PcInv /\ OwnInv /\ WorkInv

-----------------------------------------------------------------------------
(* Steps that leave every entry in the hands it is in.                     *)

Calm(p) ==
    /\ UNCHANGED <<svc, loaded>>
    /\ \A s \in Services : status'[s] = status[s] \/ (status[s] \in Stopped /\ status'[s] \in Stopped)
    /\ \A q \in Procs \ {p} : pc'[q] = pc[q] /\ why'[q] = why[q]
    /\ pc'[p] \in Workers <=> pc[p] \in Workers
    /\ Starting(p)' => Starting(p)
    /\ pc[p] \in Workers => why'[p] # "abort" /\ (why'[p] = "stop" <=> why[p] = "stop")
    /\ \A s \in Services :
          \/ sessions'[s] = sessions[s] /\ (MustBeAttached(p) => MustBeAttached(p)')
          \/ svc[p] = s /\ (sessions'[s] = None \/ MustBeAttached(p)')
          \/ svc[p] # s /\ sessions'[s] = sessions[s]

LEMMA CalmStep ==
    ASSUME TypeOK, PcInv, WorkInv, NEW p \in Requests, Calm(p)
    PROVE  WorkInv'
  <1>1. p \in Procs /\ Closer \in Procs /\ p # Closer
    BY ProcAssumption DEF Procs
  <1>2. \A q \in Procs : pc'[q] \in Workers <=> pc[q] \in Workers
    BY DEF Calm
  <1>3. OneInv'
    BY <1>2 DEF Calm, WorkInv, OneInv
  <1>4. StateInv'
    <2> SUFFICES ASSUME NEW q \in Procs, pc'[q] \in Workers
                 PROVE  /\ status'[svc'[q]] = IF why'[q] = "stop" THEN "stopping" ELSE "starting"
                        /\ why'[q] # "abort" /\ (Starting(q)' => why'[q] # "stop")
      BY DEF StateInv
    <2>1. /\ pc[q] \in Workers /\ why[q] # "abort" /\ (Starting(q) => why[q] # "stop")
          /\ status[svc[q]] = IF why[q] = "stop" THEN "stopping" ELSE "starting"
      BY <1>2 DEF WorkInv, StateInv
    <2>2. svc[q] \in Services
      BY <2>1 DEF PcInv, Workers
    <2>3. status'[svc'[q]] = status[svc[q]]
      BY <2>1, <2>2 DEF Calm, Stopped
    <2>4. /\ why'[q] = "stop" <=> why[q] = "stop"
          /\ why'[q] # "abort" /\ (Starting(q)' => Starting(q))
      BY <2>1 DEF Calm, Starting
    <2> QED BY <2>1, <2>3, <2>4
  <1>5. TransitInv'
    BY <1>2 DEF Calm, WorkInv, TransitInv, Stopped
  <1>6. RunInv'
    BY DEF Calm, WorkInv, RunInv, Stopped
  <1>7. SessionInv'
    <2> SUFFICES ASSUME NEW s \in Services, sessions'[s] # None, loaded'[s] = None
                 PROVE  \E q \in Procs : MustBeAttached(q)' /\ svc'[q] = s
      BY DEF SessionInv
    <2>1. CASE svc[p] = s /\ MustBeAttached(p)'
      BY <1>1, <2>1 DEF Calm
    <2>2. CASE ~(svc[p] = s /\ MustBeAttached(p)')
      <3>1. sessions'[s] = sessions[s] /\ (svc[p] = s => ~MustBeAttached(p))
        BY <2>2 DEF Calm
      <3>2. PICK q \in Procs : MustBeAttached(q) /\ svc[q] = s
        BY <3>1 DEF Calm, WorkInv, SessionInv
      <3>3. q # p
        BY <3>1, <3>2
      <3> QED BY <3>2, <3>3 DEF Calm, MustBeAttached
    <2> QED BY <2>1, <2>2
  <1>8. pc'[Closer] = "idle"
    BY <1>1 DEF Calm, WorkInv
  <1> QED BY <1>3, <1>4, <1>5, <1>6, <1>7, <1>8 DEF WorkInv

\* Scans are calm: a rebuilt map of entries keeps every entry in transition and,
\* because a running service is loaded, every running one.
LEMMA ScanCalm ==
    ASSUME TypeOK, WorkInv, NEW p \in Requests, ScanStep(p)
    PROVE  Calm(p) /\ UNCHANGED <<alive, sessions>>
  <1>0. p \in Procs /\ pc \in [Procs -> Labels]
    BY DEF Procs, TypeOK
  <1> USE DEF Calm, Goto, Workers, Starting, MustBeAttached, procVars, entryVars, instVars
  <1>1. CASE Discover(p)
    BY <1>0, <1>1 DEF Discover
  <1>2. CASE Merge(p)
    <2>1. PICK found \in SUBSET Services :
             status' = [s \in Services |-> EntryStatus(s, found)]
      BY <1>2 DEF Merge
    <2>2. \A s \in Services :
             status'[s] = status[s] \/ (status[s] \in Stopped /\ status'[s] \in Stopped)
      <3> TAKE s \in Services
      <3>1. status[s] \in Statuses /\ (status[s] = "running" => loaded[s] # None)
        BY DEF TypeOK, WorkInv, RunInv
      <3>2. status'[s] = EntryStatus(s, found)
        BY <2>1
      <3> QED BY <3>1, <3>2 DEF EntryStatus, InUse, Stopped, Statuses
    <2> QED BY <1>0, <1>2, <2>2 DEF Merge
  <1>3. ASSUME NEW s \in Services, Publish(p, s)
        PROVE  Calm(p) /\ UNCHANGED <<alive, sessions>>
    BY <1>0, <1>3 DEF Publish
  <1>4. CASE EndScan(p)
    BY <1>0, <1>4 DEF EndScan, AfterScan
  <1> QED BY <1>1, <1>2, <1>3, <1>4 DEF ScanStep

\* Until it finishes, a start works on its entry: its failures lead to a cleanup.
LEMMA StartCalm ==
    ASSUME TypeOK, PcInv, WorkInv, NEW p \in Requests,
           \/ LaunchBackend(p) \/ AttachInstance(p) \/ RegisterReturns(p)
           \/ Snapshot(p) \/ AddRecord(p) \/ MirrorRecord(p)
           \/ BeginStart(p) /\ ~MayStart(svc[p])
    PROVE  Calm(p)
  <1>0. /\ p \in Procs /\ pc \in [Procs -> Labels] /\ why \in [Procs -> Optional(Reasons)]
        /\ sessions \in [Services -> Optional(Requests)]
    BY DEF Procs, TypeOK
  <1>a. Starting(p) => why[p] # "stop" /\ why[p] # "abort"
    BY <1>0, WorkerFacts DEF WorkInv, StateInv
  <1> USE DEF Calm, Goto, Workers, Starting, MustBeAttached, procVars, entryVars, instVars
  <1>1. CASE LaunchBackend(p)
    BY <1>0, <1>1, <1>a DEF LaunchBackend
  <1>2. CASE AttachInstance(p)
    <2>1. svc[p] \in Services
      BY <1>0, <1>2 DEF AttachInstance, PcInv
    <2> QED BY <1>0, <1>2, <1>a, <2>1 DEF AttachInstance
  <1>3. CASE RegisterReturns(p)
    BY <1>0, <1>3, <1>a DEF RegisterReturns
  <1>4. CASE Snapshot(p) \/ AddRecord(p) \/ MirrorRecord(p)
    BY <1>0, <1>4 DEF Snapshot, AddRecord, MirrorRecord
  <1>5. CASE BeginStart(p) /\ ~MayStart(svc[p])
    BY <1>0, <1>5 DEF BeginStart
  <1> QED BY <1>1, <1>2, <1>3, <1>4, <1>5

\* A cleanup works on its entry until it settles it.
LEMMA StopCalm ==
    ASSUME TypeOK, PcInv, WorkInv, NEW p \in Requests,
           \/ Revoke(p) \/ DetachInstance(p) \/ RemoveRecord(p) \/ UnmirrorRecord(p)
           \/ CloseInstance(p)
           \/ BeginStop(p) /\ ~(status[svc[p]] = "running" /\ loaded[svc[p]] # None)
    PROVE  Calm(p)
  <1>0. /\ p \in Procs /\ pc \in [Procs -> Labels] /\ why \in [Procs -> Optional(Reasons)]
        /\ sessions \in [Services -> Optional(Requests)]
    BY DEF Procs, TypeOK
  <1>a. pc[p] \in Workers => why[p] # "abort"
    BY <1>0 DEF WorkInv, StateInv
  <1> USE DEF Calm, Goto, Workers, Starting, MustBeAttached, procVars, entryVars, instVars
  <1>1. CASE Revoke(p)
    BY <1>0, <1>1, <1>a DEF Revoke
  <1>2. CASE DetachInstance(p)
    <2>1. svc[p] \in Services
      BY <1>0, <1>2 DEF DetachInstance, PcInv
    <2>2. pc'[p] \in {"close", "remove"} /\ \A q \in Procs \ {p} : pc'[q] = pc[q]
      BY <1>0, <1>2 DEF DetachInstance
    <2>3. sessions' = [sessions EXCEPT ![svc[p]] = None]
      BY <1>2 DEF DetachInstance
    <2>4. UNCHANGED <<svc, loaded, status, why>> /\ pc[p] = "detach"
      BY <1>2 DEF DetachInstance
    <2> QED BY <1>0, <1>a, <2>1, <2>2, <2>3, <2>4
  <1>3. CASE RemoveRecord(p) \/ UnmirrorRecord(p)
    BY <1>0, <1>3, <1>a DEF RemoveRecord, UnmirrorRecord
  <1>4. CASE CloseInstance(p)
    <2>1. pc'[p] \in {"settle", "settle failed"} /\ \A q \in Procs \ {p} : pc'[q] = pc[q]
      BY <1>0, <1>4 DEF CloseInstance
    <2>2. UNCHANGED <<svc, loaded, status, why, sessions>> /\ pc[p] = "close"
      BY <1>4 DEF CloseInstance
    <2> QED BY <1>a, <2>1, <2>2
  <1>5. CASE BeginStop(p) /\ ~(status[svc[p]] = "running" /\ loaded[svc[p]] # None)
    BY <1>0, <1>5 DEF BeginStop
  <1> QED BY <1>1, <1>2, <1>3, <1>4, <1>5

-----------------------------------------------------------------------------
(* Steps that put an entry in transition or take it out.                   *)

\* p takes or hands back the entry of its service; all other processes and
\* entries are as before.
Turns(p, working, st) ==
    /\ svc[p] \in Services /\ UNCHANGED svc
    /\ pc'[p] \in Workers <=> working
    /\ \A q \in Procs \ {p} : pc'[q] = pc[q] /\ why'[q] = why[q]
    /\ status' = [status EXCEPT ![svc[p]] = st]
    /\ \A s \in Services \ {svc[p]} : loaded'[s] = loaded[s]
    /\ UNCHANGED sessions

\* No process works on an entry that is stopped or running.
LEMMA NobodyWorks ==
    ASSUME WorkInv, NEW s, status[s] \notin {"starting", "stopping"},
           NEW q \in Procs, svc[q] = s
    PROVE  pc[q] \notin Workers
  BY DEF WorkInv, StateInv

LEMMA TakeStep ==
    ASSUME TypeOK, PcInv, WorkInv, NEW p \in Requests, NEW st \in {"starting", "stopping"},
           status[svc[p]] \notin {"starting", "stopping"}, Turns(p, TRUE, st),
           why'[p] # "abort", st = "stopping" <=> why'[p] = "stop",
           Starting(p)' => st = "starting",
           sessions[svc[p]] # None => MustBeAttached(p)'
    PROVE  WorkInv'
  <1> DEFINE s == svc[p]
  <1>1. p \in Procs /\ Closer \in Procs /\ p # Closer
    BY ProcAssumption DEF Procs
  <1>2. \A q \in Procs \ {p} : svc[q] = s => pc[q] \notin Workers
    BY NobodyWorks
  <1>3. status'[s] = st /\ \A t \in Services \ {s} : status'[t] = status[t]
    BY DEF Turns, TypeOK
  <1>4. OneInv'
    BY <1>2 DEF Turns, WorkInv, OneInv
  <1>5. StateInv'
    <2> SUFFICES ASSUME NEW q \in Procs, pc'[q] \in Workers
                 PROVE  /\ status'[svc'[q]] = IF why'[q] = "stop" THEN "stopping" ELSE "starting"
                        /\ why'[q] # "abort" /\ (Starting(q)' => why'[q] # "stop")
      BY DEF StateInv
    <2>1. CASE q = p
      BY <1>3, <2>1 DEF Turns
    <2>2. CASE q # p
      <3>1. pc[q] \in Workers /\ svc[q] # s /\ why'[q] = why[q] /\ (Starting(q)' => Starting(q))
        BY <1>2, <2>2 DEF Turns, Starting
      <3>2. svc[q] \in Services
        BY <3>1 DEF PcInv, Workers
      <3> QED BY <1>3, <3>1, <3>2 DEF WorkInv, StateInv, Turns
    <2> QED BY <2>1, <2>2
  <1>6. TransitInv'
    <2> SUFFICES ASSUME NEW t \in Services, status'[t] \in {"starting", "stopping"}
                 PROVE  \E q \in Procs : pc'[q] \in Workers /\ svc'[q] = t
      BY DEF TransitInv
    <2>1. CASE t = s
      BY <1>1, <2>1 DEF Turns
    <2>2. CASE t # s
      <3>1. PICK q \in Procs : pc[q] \in Workers /\ svc[q] = t
        BY <1>3, <2>2 DEF WorkInv, TransitInv
      <3> QED BY <2>2, <3>1 DEF Turns
    <2> QED BY <2>1, <2>2
  <1>7. RunInv'
    BY <1>3 DEF Turns, WorkInv, RunInv
  <1>8. SessionInv'
    <2> SUFFICES ASSUME NEW t \in Services, sessions'[t] # None, loaded'[t] = None
                 PROVE  \E q \in Procs : MustBeAttached(q)' /\ svc'[q] = t
      BY DEF SessionInv
    <2>1. CASE t = s
      BY <1>1, <2>1 DEF Turns
    <2>2. CASE t # s
      <3>1. PICK q \in Procs : MustBeAttached(q) /\ svc[q] = t
        BY <2>2 DEF Turns, WorkInv, SessionInv
      <3> QED BY <2>2, <3>1 DEF Turns, MustBeAttached
    <2> QED BY <2>1, <2>2
  <1>9. pc'[Closer] = "idle"
    BY <1>1 DEF Turns, WorkInv
  <1> QED BY <1>4, <1>5, <1>6, <1>7, <1>8, <1>9 DEF WorkInv

LEMMA HandBackStep ==
    ASSUME TypeOK, PcInv, WorkInv, NEW p \in Requests, NEW st \in {"running", "discovered", "failed"},
           pc[p] \in Workers, Turns(p, FALSE, st),
           st = "running" => loaded'[svc[p]] # None,
           sessions[svc[p]] # None => loaded'[svc[p]] # None
    PROVE  WorkInv'
  <1> DEFINE s == svc[p]
  <1>1. p \in Procs /\ Closer \in Procs /\ p # Closer
    BY ProcAssumption DEF Procs
  <1>2. \A q \in Procs \ {p} : svc[q] = s => pc[q] \notin Workers
    BY <1>1 DEF WorkInv, OneInv
  <1>3. status'[s] = st /\ \A t \in Services \ {s} : status'[t] = status[t]
    BY DEF Turns, TypeOK
  <1>4. OneInv'
    BY DEF Turns, WorkInv, OneInv
  <1>5. StateInv'
    <2> SUFFICES ASSUME NEW q \in Procs, pc'[q] \in Workers
                 PROVE  /\ status'[svc'[q]] = IF why'[q] = "stop" THEN "stopping" ELSE "starting"
                        /\ why'[q] # "abort" /\ (Starting(q)' => why'[q] # "stop")
      BY DEF StateInv
    <2>1. q # p
      BY DEF Turns
    <2>2. pc[q] \in Workers /\ svc[q] # s /\ why'[q] = why[q] /\ (Starting(q)' => Starting(q))
      BY <1>2, <2>1 DEF Turns, Starting
    <2>3. svc[q] \in Services
      BY <2>2 DEF PcInv, Workers
    <2> QED BY <1>3, <2>2, <2>3 DEF WorkInv, StateInv, Turns
  <1>6. TransitInv'
    <2> SUFFICES ASSUME NEW t \in Services, status'[t] \in {"starting", "stopping"}
                 PROVE  \E q \in Procs : pc'[q] \in Workers /\ svc'[q] = t
      BY DEF TransitInv
    <2>1. t # s
      BY <1>3
    <2>2. PICK q \in Procs : pc[q] \in Workers /\ svc[q] = t
      BY <1>3, <2>1 DEF WorkInv, TransitInv
    <2> QED BY <2>1, <2>2 DEF Turns
  <1>7. RunInv'
    BY <1>3 DEF Turns, WorkInv, RunInv
  <1>8. SessionInv'
    <2> SUFFICES ASSUME NEW t \in Services, sessions'[t] # None, loaded'[t] = None
                 PROVE  \E q \in Procs : MustBeAttached(q)' /\ svc'[q] = t
      BY DEF SessionInv
    <2>1. t # s
      BY DEF Turns
    <2>2. PICK q \in Procs : MustBeAttached(q) /\ svc[q] = t
      BY <2>1 DEF Turns, WorkInv, SessionInv
    <2> QED BY <2>1, <2>2 DEF Turns, MustBeAttached
  <1>9. pc'[Closer] = "idle"
    BY <1>1 DEF Turns, WorkInv
  <1> QED BY <1>4, <1>5, <1>6, <1>7, <1>8, <1>9 DEF WorkInv

-----------------------------------------------------------------------------
(* What the invariant says of a service's session and backend.             *)

\* Nothing is on the list of Close before it begins.
LEMMA NothingClosing ==
    ASSUME OwnInv, WorkInv
    PROVE  \A s \in Services : closing[s] = None
  BY DEF OwnInv, NameInv, WorkInv

\* Whoever holds the backend of a service is its worker, or it is loaded.
LEMMA BackendHolder ==
    ASSUME TypeOK, OwnInv, WorkInv, NEW i \in alive
    PROVE  /\ svc[i] \in Services
           /\ \/ loaded[svc[i]] = i /\ status[svc[i]] = "running"
              \/ \E p \in Procs : /\ pc[p] \in Holders /\ pc[p] \in Workers
                                  /\ lp[p] = i /\ svc[p] = svc[i]
  <1>1. i # None
    BY ProcAssumption DEF TypeOK
  <1>2. /\ svc[i] \in Services
        /\ \/ loaded[svc[i]] = i \/ \E p \in Procs : pc[p] \in Holders /\ lp[p] = i
    BY <1>1, NothingClosing DEF OwnInv, HeldInv
  <1>3. CASE loaded[svc[i]] = i
    BY <1>1, <1>2, <1>3 DEF OwnInv, AttachInv
  <1>4. CASE \E p \in Procs : pc[p] \in Holders /\ lp[p] = i
    BY <1>2, <1>4, WorkerFacts DEF OwnInv, NameInv
  <1> QED BY <1>2, <1>3, <1>4

\* A stopped service has neither a session nor a backend.
LEMMA StoppedFacts ==
    ASSUME TypeOK, OwnInv, WorkInv, NEW s \in Services, status[s] \in Stopped
    PROVE  sessions[s] = None /\ \A i \in alive : svc[i] # s
  <1>1. loaded[s] = None
    BY DEF OwnInv, AttachInv, Stopped
  <1>2. \A p \in Procs : svc[p] = s => pc[p] \notin Workers
    BY NobodyWorks DEF Stopped
  <1>3. sessions[s] = None
    BY <1>1, <1>2, WorkerFacts DEF WorkInv, SessionInv
  <1>4. \A i \in alive : svc[i] # s
    BY <1>2, BackendHolder DEF Stopped
  <1> QED BY <1>3, <1>4

\* The backend of a service in transition is the one its worker holds, and it is
\* attached exactly while the worker has to detach it.
LEMMA TransitFacts ==
    ASSUME TypeOK, PcInv, OwnInv, WorkInv, NEW p \in Procs, pc[p] \in Workers
    PROVE  /\ svc[p] \in Services /\ status[svc[p]] \in {"starting", "stopping"}
           /\ loaded[svc[p]] = None
           /\ ~MustBeAttached(p) => sessions[svc[p]] = None
           /\ \A i \in alive : svc[i] = svc[p] => pc[p] \in Holders /\ lp[p] = i
  <1>1. svc[p] \in Services /\ status[svc[p]] \in {"starting", "stopping"}
    BY DEF PcInv, Workers, WorkInv, StateInv
  <1>2. loaded[svc[p]] = None
    BY <1>1 DEF OwnInv, AttachInv
  <1>3. ~MustBeAttached(p) => sessions[svc[p]] = None
    BY <1>1, <1>2, WorkerFacts DEF WorkInv, SessionInv, OneInv
  <1>4. \A i \in alive : svc[i] = svc[p] => pc[p] \in Holders /\ lp[p] = i
    BY <1>1, BackendHolder DEF WorkInv, OneInv
  <1> QED BY <1>1, <1>2, <1>3, <1>4

-----------------------------------------------------------------------------
(* Every step keeps the invariant.                                         *)

LEMMA BeginStartTurns ==
    ASSUME TypeOK, PcInv, NEW p \in Requests, BeginStart(p), MayStart(svc[p])
    PROVE  /\ Turns(p, TRUE, "starting") /\ why'[p] = None
           /\ svc[p] \in Services /\ status[svc[p]] \in Stopped
           /\ UNCHANGED <<alive, loaded>>
  <1>0. p \in Procs /\ pc \in [Procs -> Labels] /\ why \in [Procs -> Optional(Reasons)]
    BY DEF Procs, TypeOK
  <1>1. svc[p] \in Services /\ status[svc[p]] \in Stopped
    BY <1>0 DEF BeginStart, MayStart, PcInv, Stopped
  <1>2. /\ status' = [status EXCEPT ![svc[p]] = "starting"]
        /\ why' = [why EXCEPT ![p] = None] /\ pc' = [pc EXCEPT ![p] = "backend"]
        /\ UNCHANGED <<svc, loaded, sessions, alive>>
    BY DEF BeginStart, Goto, instVars
  <1> QED BY <1>0, <1>1, <1>2 DEF Turns, Workers

LEMMA FinishTurns ==
    ASSUME TypeOK, PcInv, OwnInv, WorkInv, NEW p \in Requests, FinishStart(p)
    PROVE  /\ Turns(p, FALSE, "running") /\ status[svc[p]] = "starting"
           /\ svc[p] \in Services /\ pc[p] \in Workers /\ MustBeAttached(p)
           /\ loaded'[svc[p]] # None /\ UNCHANGED alive
  <1>0. p \in Procs /\ pc \in [Procs -> Labels] /\ loaded \in [Services -> Optional(Requests)]
    BY DEF Procs, TypeOK
  <1>1. /\ svc[p] \in Services /\ lp[p] \in Requests /\ pc[p] \in Workers
        /\ MustBeAttached(p) /\ Starting(p)
    BY <1>0 DEF FinishStart, PcInv, Workers, Holders, MustBeAttached, Starting
  <1>2. status[svc[p]] = "starting"
    BY <1>0, <1>1 DEF WorkInv, StateInv
  <1>3. /\ status' = [status EXCEPT ![svc[p]] = "running"]
        /\ loaded' = [loaded EXCEPT ![svc[p]] = lp[p]] /\ pc' = [pc EXCEPT ![p] = "snapshot"]
        /\ UNCHANGED <<svc, sessions, alive, why>>
    BY <1>2 DEF FinishStart, Goto, instVars
  <1>4. lp[p] # None
    BY <1>1, ProcAssumption
  <1> QED BY <1>0, <1>1, <1>2, <1>3, <1>4 DEF Turns, Workers

LEMMA BeginStopTurns ==
    ASSUME TypeOK, PcInv, NEW p \in Requests, BeginStop(p),
           status[svc[p]] = "running" /\ loaded[svc[p]] # None
    PROVE  /\ Turns(p, TRUE, "stopping") /\ why'[p] = "stop"
           /\ svc[p] \in Services /\ pc'[p] = "cancel" /\ UNCHANGED alive
  <1>0. /\ p \in Procs /\ pc \in [Procs -> Labels] /\ why \in [Procs -> Optional(Reasons)]
        /\ loaded \in [Services -> Optional(Requests)]
    BY DEF Procs, TypeOK
  <1>1. svc[p] \in Services
    BY <1>0 DEF BeginStop, PcInv
  <1>2. /\ status' = [status EXCEPT ![svc[p]] = "stopping"]
        /\ loaded' = [loaded EXCEPT ![svc[p]] = None]
        /\ why' = [why EXCEPT ![p] = "stop"] /\ pc' = [pc EXCEPT ![p] = "cancel"]
        /\ UNCHANGED <<svc, sessions, alive>>
    BY DEF BeginStop, Goto, instVars
  <1> QED BY <1>0, <1>1, <1>2 DEF Turns, Workers

\* finishStartFailure and finishStop always find the entry as they left it.
LEMMA SettleTurns ==
    ASSUME TypeOK, PcInv, OwnInv, WorkInv, NEW p \in Requests, Settle(p)
    PROVE  /\ \E st \in {"discovered", "failed"} : Turns(p, FALSE, st)
           /\ svc[p] \in Services /\ pc[p] \in Workers /\ ~MustBeAttached(p)
           /\ pc[p] \notin Holders /\ UNCHANGED alive
  <1>0. /\ p \in Procs /\ p # Closer /\ pc \in [Procs -> Labels]
        /\ loaded \in [Services -> Optional(Requests)]
    BY ProcAssumption DEF Procs, TypeOK
  <1> DEFINE st == IF why[p] = "stop" /\ pc[p] = "settle" THEN "discovered" ELSE "failed"
  <1>1. /\ svc[p] \in Services /\ pc[p] \in Workers /\ ~MustBeAttached(p)
        /\ pc[p] \notin Holders
    BY <1>0 DEF Settle, PcInv, Workers, Holders, MustBeAttached
  <1>2. status[svc[p]] = IF why[p] = "stop" THEN "stopping" ELSE "starting"
    BY <1>0, <1>1 DEF WorkInv, StateInv
  <1>3. status' = [status EXCEPT ![svc[p]] = st]
        /\ loaded' = [loaded EXCEPT ![svc[p]] = None]
    BY <1>2 DEF Settle
  <1>4. /\ pc'[p] \in {"discover", "done"} /\ \A q \in Procs \ {p} : pc'[q] = pc[q]
        /\ UNCHANGED <<svc, sessions, alive, why>>
    BY <1>0 DEF Settle, Goto, AfterStop, procVars, instVars
  <1>5. Turns(p, FALSE, st)
    BY <1>0, <1>1, <1>3, <1>4 DEF Turns, Workers
  <1> QED BY <1>1, <1>4, <1>5

\* A request that arrives works on nothing yet.
LEMMA AcceptWork ==
    ASSUME TypeOK, WorkInv, NEW p \in Requests, NEW s \in Services,
           NEW o \in {"scan", "start", "stop", "restart"}, Accept(p, o, s)
    PROVE  WorkInv'
  <1>1. p \in Procs /\ Closer \in Procs /\ p # Closer /\ pc[p] = "idle"
    BY ProcAssumption DEF Procs, Accept
  <1>2. /\ UNCHANGED <<why, loaded, status, sessions>>
        /\ pc'[p] \in {"discover", "stop"}
        /\ \A q \in Procs \ {p} : pc'[q] = pc[q] /\ svc'[q] = svc[q]
    BY <1>1 DEF Accept, Entry, Goto, TypeOK, entryVars
  <1>3. \A q \in Procs : pc'[q] \in Workers <=> q # p /\ pc[q] \in Workers
    BY <1>1, <1>2 DEF Workers
  <1>4. \A q \in Procs : pc[q] \in Workers \/ MustBeAttached(q) => q # p
    BY <1>1 DEF Workers, MustBeAttached
  <1>5. OneInv' /\ TransitInv' /\ RunInv'
    BY <1>2, <1>3, <1>4 DEF WorkInv, OneInv, TransitInv, RunInv
  <1>6. StateInv'
    BY <1>2, <1>3 DEF WorkInv, StateInv, Starting
  <1>7. SessionInv'
    BY <1>2, <1>4 DEF WorkInv, SessionInv, MustBeAttached
  <1> QED BY <1>1, <1>2, <1>5, <1>6, <1>7 DEF WorkInv

\* Without a shutdown Close takes no step.
LEMMA NoClose ==
    ASSUME Shutdown = FALSE, WorkInv
    PROVE  ~(BeginClose \/ CloseAll \/ NextVictim \/ EndClose \/ StopStep(Closer))
  BY DEF WorkInv, BeginClose, CloseAll, NextVictim, EndClose, StopStep, BeginStop, Revoke,
     DetachInstance, RemoveRecord, UnmirrorRecord, CloseInstance, Settle

LEMMA WorkStep ==
    ASSUME Shutdown = FALSE, LifeInv, [Next]_vars
    PROVE  WorkInv'
  <1> USE DEF LifeInv
  <1>1. ASSUME NEW p \in Requests, ScanStep(p) PROVE WorkInv'
    BY <1>1, ScanCalm, CalmStep
  <1>2. ASSUME NEW p \in Requests, StartStep(p) PROVE WorkInv'
    <2>1. CASE BeginStart(p) /\ MayStart(svc[p])
      <3>1. sessions[svc[p]] = None
        BY <2>1, BeginStartTurns, StoppedFacts
      <3>2. why'[p] # "abort" /\ why'[p] # "stop"
            /\ Turns(p, TRUE, "starting") /\ status[svc[p]] \notin {"starting", "stopping"}
        <4>1. why' = [why EXCEPT ![p] = None] /\ p \in Procs
          BY <2>1 DEF BeginStart, Procs
        <4> QED BY <2>1, <4>1, BeginStartTurns, ProcAssumption DEF Stopped, Reasons
      <3> QED BY <3>1, <3>2, TakeStep
    <2>2. CASE FinishStart(p)
      BY <2>2, FinishTurns, HandBackStep
    <2>3. CASE \/ LaunchBackend(p) \/ AttachInstance(p) \/ RegisterReturns(p)
               \/ Snapshot(p) \/ AddRecord(p) \/ MirrorRecord(p)
               \/ BeginStart(p) /\ ~MayStart(svc[p])
      BY <2>3, StartCalm, CalmStep
    <2> QED BY <1>2, <2>1, <2>2, <2>3 DEF StartStep
  <1>3. ASSUME NEW p \in Requests, StopStep(p) PROVE WorkInv'
    <2>1. CASE BeginStop(p) /\ status[svc[p]] = "running" /\ loaded[svc[p]] # None
      <3>1. Turns(p, TRUE, "stopping") /\ why'[p] = "stop" /\ pc'[p] = "cancel"
        BY <2>1, BeginStopTurns
      <3> QED BY <2>1, <3>1, TakeStep DEF MustBeAttached, Starting
    <2>2. CASE Settle(p)
      <3>1. sessions[svc[p]] = None
        BY <2>2, SettleTurns, TransitFacts DEF Procs
      <3>2. PICK st \in {"discovered", "failed"} : Turns(p, FALSE, st)
        BY <2>2, SettleTurns
      <3>3. pc[p] \in Workers
        BY <2>2, SettleTurns
      <3> QED BY <3>1, <3>2, <3>3, HandBackStep
    <2>3. CASE \/ Revoke(p) \/ DetachInstance(p) \/ RemoveRecord(p) \/ UnmirrorRecord(p)
               \/ CloseInstance(p)
               \/ BeginStop(p) /\ ~(status[svc[p]] = "running" /\ loaded[svc[p]] # None)
      BY <2>3, StopCalm, CalmStep
    <2> QED BY <1>3, <2>1, <2>2, <2>3 DEF StopStep
  <1>4. ASSUME NEW p \in Requests, NEW o \in {"scan", "start", "stop", "restart"},
               NEW s \in Services, Accept(p, o, s)
        PROVE  WorkInv'
    BY <1>4, AcceptWork
  <1>5. CASE \/ UNCHANGED vars
             \/ \E s \in Services : EditDisk(s)
             \/ \E i \in Requests, s \in Services : ChangeBindings(i, s)
             \/ PublishCheck \/ PublishAdd \/ PublishMirror
    <2>1. UNCHANGED <<pc, svc, why, status, loaded, sessions>>
      BY <1>5 DEF vars, EditDisk, ChangeBindings, PublishCheck, PublishAdd, PublishMirror,
         procVars, entryVars, instVars
    <2> QED BY <2>1 DEF WorkInv, OneInv, StateInv, TransitInv, RunInv, SessionInv,
               Starting, MustBeAttached
  <1> QED BY <1>1, <1>2, <1>3, <1>4, <1>5, NoClose, NextCases DEF Procs

LEMMA LifeInduction ==
    ASSUME Shutdown = FALSE
    PROVE  Spec => []LifeInv
  <1>1. Init => WorkInv
    BY DEF Init, WorkInv, OneInv, StateInv, TransitInv, RunInv, SessionInv, Workers, Procs
  <1>2. LifeInv /\ [Next]_vars => WorkInv'
    BY WorkStep
  <1>3. Spec => []WorkInv
    BY <1>1, <1>2, OwnInduction, PTL DEF Spec, LifeInv
  <1> QED BY <1>3, OwnInduction, PTL DEF LifeInv

\* No service has two backends at a time, for any number of concurrent requests.
THEOREM OneBackend ==
    ASSUME Shutdown = FALSE
    PROVE  Spec => []OneBackendPerService
  <1>1. LifeInv => OneBackendPerService
    <2> SUFFICES ASSUME LifeInv, NEW i \in alive, NEW j \in alive, svc[i] = svc[j]
                 PROVE  i = j
      BY DEF OneBackendPerService
    <2>1. TypeOK /\ PcInv /\ OwnInv /\ WorkInv
      BY DEF LifeInv
    <2>2. ASSUME NEW p \in Procs, pc[p] \in Workers, svc[p] = svc[i]
          PROVE  i = j
      BY <2>1, <2>2, TransitFacts
    <2>3. CASE loaded[svc[i]] = i /\ loaded[svc[j]] = j
      BY <2>3
    <2> QED BY <2>1, <2>2, <2>3, BackendHolder
  <1> QED BY <1>1, LifeInduction, PTL

\* An entry that is starting or stopping has exactly one worker.
THEOREM OneWorker ==
    ASSUME Shutdown = FALSE
    PROVE  Spec => []TransitionHasOneWorker
  <1>1. LifeInv => TransitionHasOneWorker
    <2> SUFFICES ASSUME LifeInv, NEW s \in Services, status[s] \in {"starting", "stopping"}
                 PROVE  \E p \in Procs :
                          /\ svc[p] = s /\ (Starting(p) \/ Cleaning(p) \/ Settling(p))
                          /\ (status[s] = "stopping") <=> (why[p] = "stop")
                          /\ \A q \in Procs \ {p} :
                                svc[q] = s => ~(Starting(q) \/ Cleaning(q) \/ Settling(q))
      BY DEF TransitionHasOneWorker
    <2>1. PICK p \in Procs : pc[p] \in Workers /\ svc[p] = s
      BY DEF LifeInv, WorkInv, TransitInv
    <2>2. (status[s] = "stopping") <=> (why[p] = "stop")
      BY <2>1 DEF LifeInv, WorkInv, StateInv
    <2>3. \A q \in Procs \ {p} : svc[q] = s => pc[q] \notin Workers
      BY <2>1 DEF LifeInv, WorkInv, OneInv
    <2> QED BY <2>1, <2>2, <2>3, WorkerFacts
  <1> QED BY <1>1, LifeInduction, PTL

-----------------------------------------------------------------------------
(* The refinement of ServiceLife.                                          *)

\* What a caller sees of the supervisor: the substitution of Life.
StateOf(st) == IF st \in {"absent", "discovered", "failed"} THEN "stopped" ELSE st
State == [s \in Services |-> StateOf(status[s])]
Up == {svc[i] : i \in alive}
Bound == {s \in Services : sessions[s] # None}

LEMMA LifeInit == Init => Life!Init
  BY DEF Init, Life!Init

\* A stutter of the abstract life.
Same == State' = State /\ Up' = Up /\ Bound' = Bound

LEMMA Stutter == Same => UNCHANGED Life!vars
  BY DEF Same, State, StateOf, Up, Bound, Life!vars

\* The steps of ServiceLife, in terms of the substitution.
Goes(s, from, to) == State[s] = from /\ State' = [State EXCEPT ![s] = to]

LEMMA AbstractSteps ==
    ASSUME NEW s \in Services,
           \/ /\ \/ s \notin Up /\ Goes(s, "stopped", "starting")
                 \/ s \in Up \cap Bound /\ Goes(s, "starting", "running")
                 \/ Goes(s, "running", "stopping")
                 \/ s \notin Up \cup Bound
                    /\ (Goes(s, "starting", "stopped") \/ Goes(s, "stopping", "stopped"))
              /\ Up' = Up /\ Bound' = Bound
           \/ State[s] = "starting" /\ s \notin Up /\ Up' = Up \cup {s}
              /\ State' = State /\ Bound' = Bound
           \/ State[s] = "starting" /\ s \in Up /\ Bound' = Bound \cup {s}
              /\ State' = State /\ Up' = Up
           \/ State[s] \in {"starting", "stopping"} /\ Bound' = Bound \ {s}
              /\ State' = State /\ Up' = Up
           \/ State[s] \in {"starting", "stopping"} /\ s \notin Bound /\ Up' = Up \ {s}
              /\ State' = State /\ Bound' = Bound
    PROVE  Life!Next
  <1> USE DEF Life!Next, State, StateOf, Up, Bound
  <1>1. CASE /\ \/ s \notin Up /\ Goes(s, "stopped", "starting")
                \/ s \in Up \cap Bound /\ Goes(s, "starting", "running")
                \/ Goes(s, "running", "stopping")
                \/ s \notin Up \cup Bound
                   /\ (Goes(s, "starting", "stopped") \/ Goes(s, "stopping", "stopped"))
             /\ Up' = Up /\ Bound' = Bound
    <2>1. Life!Start(s) \/ Life!Serve(s) \/ Life!Stop(s) \/ Life!Settle(s)
      BY <1>1 DEF Goes, Life!Goes, Life!Start, Life!Serve, Life!Stop, Life!Settle
    <2> QED BY <2>1
  <1>2. CASE State[s] = "starting" /\ s \notin Up /\ Up' = Up \cup {s}
             /\ State' = State /\ Bound' = Bound
    BY <1>2 DEF Life!Launch
  <1>3. CASE State[s] = "starting" /\ s \in Up /\ Bound' = Bound \cup {s}
             /\ State' = State /\ Up' = Up
    BY <1>3 DEF Life!Bind
  <1>4. CASE State[s] \in {"starting", "stopping"} /\ Bound' = Bound \ {s}
             /\ State' = State /\ Up' = Up
    BY <1>4 DEF Life!Unbind, Life!Between
  <1>5. CASE State[s] \in {"starting", "stopping"} /\ s \notin Bound /\ Up' = Up \ {s}
             /\ State' = State /\ Bound' = Bound
    BY <1>5 DEF Life!Exit, Life!Between
  <1> QED BY <1>1, <1>2, <1>3, <1>4, <1>5

LEMMA CalmLife ==
    ASSUME NEW p \in Requests, Calm(p)
    PROVE  /\ State' = State
           /\ UNCHANGED alive => Up' = Up
           /\ UNCHANGED sessions => Bound' = Bound
  BY DEF Calm, State, StateOf, Stopped, Up, Bound

LEMMA TurnsLife ==
    ASSUME TypeOK, NEW p \in Requests, NEW w, NEW st, Turns(p, w, st)
    PROVE  /\ State[svc[p]] = StateOf(status[svc[p]])
           /\ State' = [State EXCEPT ![svc[p]] = StateOf(st)]
           /\ UNCHANGED alive => Up' = Up
           /\ Bound' = Bound
  BY DEF TypeOK, Turns, State, StateOf, Up, Bound

LEMMA LaunchLife ==
    ASSUME LifeInv, NEW p \in Requests, LaunchBackend(p)
    PROVE  Life!Next \/ Same
  <1>0. p \in Procs /\ TypeOK /\ PcInv /\ OwnInv /\ WorkInv
    BY DEF Procs, LifeInv
  <1>1. Calm(p) /\ UNCHANGED <<sessions, svc>>
    BY <1>0, StartCalm DEF LaunchBackend
  <1>2. State' = State /\ Bound' = Bound
    BY <1>1, CalmLife
  <1>3. CASE UNCHANGED alive
    BY <1>1, <1>2, <1>3, CalmLife DEF Same
  <1>4. CASE alive' = alive \cup {lp[p]}
    <2>1. pc[p] \in Workers /\ pc[p] \in Holders /\ pc[p] = "backend" /\ Starting(p)
      BY DEF LaunchBackend, Workers, Holders, Starting
    <2>2. svc[p] \in Services /\ lp[p] \notin alive /\ svc[lp[p]] = svc[p]
      BY <1>0, <2>1, TransitFacts DEF OwnInv, LiveInv, NameInv
    <2>3. svc[p] \notin Up
      BY <1>0, <2>1, <2>2, TransitFacts DEF Up
    <2>4. Up' = Up \cup {svc[p]}
      BY <1>1, <1>4, <2>2 DEF Up
    <2>5. State[svc[p]] = "starting"
      BY <1>0, <2>1, <2>2 DEF WorkInv, StateInv, State, StateOf
    <2> QED BY <1>2, <2>2, <2>3, <2>4, <2>5, AbstractSteps
  <1> QED BY <1>3, <1>4 DEF LaunchBackend

LEMMA AttachLife ==
    ASSUME LifeInv, NEW p \in Requests, AttachInstance(p)
    PROVE  Life!Next \/ Same
  <1>0. p \in Procs /\ TypeOK /\ PcInv /\ OwnInv /\ WorkInv
    BY DEF Procs, LifeInv
  <1>1. Calm(p) /\ UNCHANGED <<alive, svc>>
    BY <1>0, StartCalm DEF AttachInstance, instVars
  <1>2. State' = State /\ Up' = Up
    BY <1>1, CalmLife
  <1>3. pc[p] \in Workers /\ pc[p] \in Holders /\ ~MustBeAttached(p) /\ Starting(p)
        /\ pc[p] # "backend"
    BY DEF AttachInstance, Workers, Holders, MustBeAttached, Starting
  <1>4. svc[p] \in Services /\ sessions[svc[p]] = None
    BY <1>0, <1>3, TransitFacts
  <1>5. lp[p] \in alive /\ svc[lp[p]] = svc[p] /\ lp[p] # None
    BY <1>0, <1>3, ProcAssumption DEF OwnInv, LiveInv, NameInv, PcInv
  <1>6. sessions' = [sessions EXCEPT ![svc[p]] = lp[p]]
    BY <1>4 DEF AttachInstance, CanAttach
  <1>7. Bound' = Bound \cup {svc[p]}
    BY <1>0, <1>4, <1>5, <1>6 DEF Bound, TypeOK
  <1>8. State[svc[p]] = "starting" /\ svc[p] \in Up
    BY <1>0, <1>3, <1>4, <1>5 DEF WorkInv, StateInv, State, StateOf, Up
  <1> QED BY <1>2, <1>4, <1>7, <1>8, AbstractSteps

\* Detach ends the bindings of a service in transition; Close ends its backend
\* when there are none.
LEMMA CleanupLife ==
    ASSUME LifeInv, NEW p \in Requests, DetachInstance(p) \/ CloseInstance(p)
    PROVE  Life!Next \/ Same
  <1>0. p \in Procs /\ TypeOK /\ PcInv /\ OwnInv /\ WorkInv
    BY DEF Procs, LifeInv
  <1>1. Calm(p) /\ UNCHANGED svc
    BY <1>0, StopCalm DEF DetachInstance, CloseInstance, procVars
  <1>2. pc[p] \in Workers
    BY DEF DetachInstance, CloseInstance, Workers
  <1>3. svc[p] \in Services /\ State[svc[p]] \in {"starting", "stopping"}
    BY <1>0, <1>2, TransitFacts DEF State, StateOf
  <1>4. State' = State
    BY <1>1, CalmLife
  <1>5. CASE DetachInstance(p)
    <2>1. sessions' = [sessions EXCEPT ![svc[p]] = None] /\ UNCHANGED alive
      BY <1>5 DEF DetachInstance, instVars
    <2>2. Up' = Up
      BY <1>1, <2>1, CalmLife
    <2>3. Bound' = Bound \ {svc[p]}
      BY <1>0, <1>3, <2>1 DEF Bound, TypeOK
    <2> QED BY <1>3, <1>4, <2>2, <2>3, AbstractSteps
  <1>6. CASE CloseInstance(p)
    <2>1. alive' = alive \ {lp[p]} /\ UNCHANGED sessions
      BY <1>6 DEF CloseInstance
    <2>2. Bound' = Bound
      BY <1>1, <2>1, CalmLife
    <2>3. svc[p] \notin Bound
      BY <1>0, <1>2, <1>6, TransitFacts DEF Bound, CloseInstance, MustBeAttached
    <2>4. pc[p] \in Holders
      BY <1>6 DEF CloseInstance, Holders
    <2>5. svc[lp[p]] = svc[p]
      BY <1>0, <2>4 DEF OwnInv, NameInv
    <2>6. \A i \in alive : svc[i] = svc[p] <=> i = lp[p]
      BY <1>0, <1>2, <2>5, TransitFacts
    <2>7. Up' = Up \ {svc[p]}
      BY <1>1, <2>1, <2>6 DEF Up
    <2> QED BY <1>3, <1>4, <2>2, <2>3, <2>7, AbstractSteps
  <1> QED BY <1>5, <1>6

\* Beginning and finishing a start, beginning and settling a stop.
LEMMA TurnLife ==
    ASSUME LifeInv, NEW p \in Requests,
           \/ BeginStart(p) /\ MayStart(svc[p])
           \/ FinishStart(p)
           \/ BeginStop(p) /\ status[svc[p]] = "running" /\ loaded[svc[p]] # None
           \/ Settle(p)
    PROVE  Life!Next
  <1>0. p \in Procs /\ TypeOK /\ PcInv /\ OwnInv /\ WorkInv
    BY DEF Procs, LifeInv
  <1>1. CASE BeginStart(p) /\ MayStart(svc[p])
    <2>1. Turns(p, TRUE, "starting") /\ svc[p] \in Services /\ status[svc[p]] \in Stopped
          /\ UNCHANGED alive
      BY <1>0, <1>1, BeginStartTurns
    <2>2. svc[p] \notin Up
      BY <1>0, <2>1, StoppedFacts DEF Up
    <2>3. Goes(svc[p], "stopped", "starting") /\ Up' = Up /\ Bound' = Bound
      BY <1>0, <2>1, TurnsLife DEF Goes, StateOf, Stopped
    <2> QED BY <2>1, <2>2, <2>3, AbstractSteps
  <1>2. CASE FinishStart(p)
    <2>1. /\ Turns(p, FALSE, "running") /\ svc[p] \in Services
          /\ status[svc[p]] = "starting" /\ UNCHANGED alive
          /\ pc[p] \in Workers /\ MustBeAttached(p)
      BY <1>0, <1>2, FinishTurns
    <2>2. sessions[svc[p]] = lp[p] /\ lp[p] \in alive
      BY <1>0, <2>1 DEF OwnInv, AttachInv
    <2>3. pc[p] \in Holders
      BY <1>2 DEF FinishStart, Holders
    <2>4. svc[lp[p]] = svc[p] /\ lp[p] # None
      BY <1>0, <2>3, ProcAssumption DEF OwnInv, NameInv, PcInv
    <2>5. svc[p] \in Up \cap Bound
      BY <2>1, <2>2, <2>4 DEF Up, Bound
    <2>6. Goes(svc[p], "starting", "running") /\ Up' = Up /\ Bound' = Bound
      BY <1>0, <2>1, TurnsLife DEF Goes, StateOf
    <2> QED BY <2>1, <2>5, <2>6, AbstractSteps
  <1>3. CASE BeginStop(p) /\ status[svc[p]] = "running" /\ loaded[svc[p]] # None
    <2>1. Turns(p, TRUE, "stopping") /\ svc[p] \in Services /\ UNCHANGED alive
      BY <1>0, <1>3, BeginStopTurns
    <2>2. Goes(svc[p], "running", "stopping") /\ Up' = Up /\ Bound' = Bound
      BY <1>0, <1>3, <2>1, TurnsLife DEF Goes, StateOf
    <2> QED BY <2>1, <2>2, AbstractSteps
  <1>4. CASE Settle(p)
    <2>1. /\ svc[p] \in Services /\ pc[p] \in Workers /\ ~MustBeAttached(p)
          /\ pc[p] \notin Holders /\ UNCHANGED alive
      BY <1>0, <1>4, SettleTurns
    <2>2. PICK st \in {"discovered", "failed"} : Turns(p, FALSE, st)
      BY <1>0, <1>4, SettleTurns
    <2>3. svc[p] \notin Up \cup Bound
      BY <1>0, <2>1, TransitFacts DEF Up, Bound
    <2>4. status[svc[p]] \in {"starting", "stopping"}
      BY <1>0, <2>1, TransitFacts
    <2>5. Goes(svc[p], "starting", "stopped") \/ Goes(svc[p], "stopping", "stopped")
      BY <1>0, <2>2, <2>4, TurnsLife DEF Goes, StateOf
    <2>6. Up' = Up /\ Bound' = Bound
      BY <1>0, <2>1, <2>2, TurnsLife
    <2> QED BY <2>1, <2>3, <2>5, <2>6, AbstractSteps
  <1> QED BY <1>1, <1>2, <1>3, <1>4

LEMMA LifeStep ==
    ASSUME Shutdown = FALSE, LifeInv, [Next]_vars
    PROVE  Life!Next \/ Same
  <1>0. TypeOK /\ PcInv /\ OwnInv /\ WorkInv
    BY DEF LifeInv
  <1>1. ASSUME NEW p \in Requests, ScanStep(p) PROVE Same
    BY <1>0, <1>1, ScanCalm, CalmLife DEF Same
  <1>2. ASSUME NEW p \in Requests, StartStep(p) PROVE Life!Next \/ Same
    <2>1. CASE \/ RegisterReturns(p) \/ Snapshot(p) \/ AddRecord(p) \/ MirrorRecord(p)
               \/ BeginStart(p) /\ ~MayStart(svc[p])
      <3>1. Calm(p)
        BY <1>0, <2>1, StartCalm
      <3>2. UNCHANGED <<alive, sessions>>
        BY <2>1 DEF RegisterReturns, Snapshot, AddRecord, MirrorRecord, BeginStart, instVars
      <3> QED BY <3>1, <3>2, CalmLife DEF Same
    <2>2. CASE BeginStart(p) /\ MayStart(svc[p])
      BY <2>2, TurnLife
    <2>3. CASE FinishStart(p)
      BY <2>3, TurnLife
    <2>4. CASE LaunchBackend(p) \/ AttachInstance(p)
      BY <2>4, LaunchLife, AttachLife
    <2> QED BY <1>2, <2>1, <2>2, <2>3, <2>4 DEF StartStep
  <1>3. ASSUME NEW p \in Requests, StopStep(p) PROVE Life!Next \/ Same
    <2>1. CASE \/ Revoke(p) \/ RemoveRecord(p) \/ UnmirrorRecord(p)
               \/ BeginStop(p) /\ ~(status[svc[p]] = "running" /\ loaded[svc[p]] # None)
      <3>1. Calm(p)
        BY <1>0, <2>1, StopCalm
      <3>2. UNCHANGED <<alive, sessions>>
        BY <2>1 DEF Revoke, RemoveRecord, UnmirrorRecord, BeginStop, instVars
      <3> QED BY <3>1, <3>2, CalmLife DEF Same
    <2>2. CASE BeginStop(p) /\ status[svc[p]] = "running" /\ loaded[svc[p]] # None
      BY <2>2, TurnLife
    <2>3. CASE Settle(p)
      BY <2>3, TurnLife
    <2>4. CASE DetachInstance(p) \/ CloseInstance(p)
      BY <2>4, CleanupLife
    <2> QED BY <1>3, <2>1, <2>2, <2>3, <2>4 DEF StopStep
  <1>4. ASSUME NEW p \in Requests, NEW o \in {"scan", "start", "stop", "restart"},
               NEW s \in Services, Accept(p, o, s)
        PROVE  Same
    <2>1. UNCHANGED <<status, sessions, alive>>
      BY <1>4 DEF Accept, entryVars, instVars
    <2>2. p \notin alive
      BY <1>0, <1>4 DEF OwnInv, FreshInv, Fresh, Accept
    <2>3. \A i \in alive : svc'[i] = svc[i]
      BY <1>0, <1>4, <2>2 DEF Accept, TypeOK, Procs
    <2> QED BY <2>1, <2>3 DEF Same, State, Up, Bound
  <1>5. CASE \/ UNCHANGED vars
             \/ \E s \in Services : EditDisk(s)
             \/ \E i \in Requests, s \in Services : ChangeBindings(i, s)
             \/ PublishCheck \/ PublishAdd \/ PublishMirror
    <2>1. UNCHANGED <<svc, status, sessions, alive>>
      BY <1>5 DEF vars, EditDisk, ChangeBindings, PublishCheck, PublishAdd, PublishMirror,
         procVars, entryVars, instVars
    <2> QED BY <2>1 DEF Same, State, Up, Bound
  <1> QED BY <1>0, <1>1, <1>2, <1>3, <1>4, <1>5, NoClose, NextCases DEF Procs

\* While the kernel is not shut down, the supervisor, the loader and the
\* controller's sessions implement the life of a service that their callers rely
\* on, for every number of concurrent requests, scans and failures.
THEOREM LifeRefinement ==
    ASSUME Shutdown = FALSE
    PROVE  Spec => ImplementsLife
  <1>1. LifeInv /\ [Next]_vars => [Life!Next]_(Life!vars)
    BY LifeStep, Stutter
  <1> QED BY <1>1, LifeInit, LifeInduction, PTL DEF Spec, ImplementsLife, Life!Spec

=============================================================================
