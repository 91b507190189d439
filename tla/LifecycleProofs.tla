-------------------------- MODULE LifecycleProofs --------------------------
(***************************************************************************)
(* Proofs about Lifecycle, for every set of services and requests, every   *)
(* bound, and with or without a shutdown.                                  *)
(***************************************************************************)
EXTENDS Lifecycle, TLAPS

\* The labels at which a process holds the instance lp[p].
Holders == {"backend", "attach", "register", "finish",
            "cancel", "detach", "remove", "unmirror", "close"}

\* What the labels say of a process's local variables.
PcInv ==
    /\ \A p \in Procs : pc[p] \notin {"idle", "close all", "next", "done"} => svc[p] \in Services
    /\ \A p \in Procs : pc[p] \in Holders \cup {"snapshot"} => lp[p] \in Requests

\* A step is a step of the environment, of a request, of Close or of a callback.
LEMMA NextCases ==
    ASSUME Next
    PROVE  \/ \E s \in Services : EditDisk(s)
           \/ \E p \in Requests, o \in {"scan", "start", "stop", "restart"}, s \in Services :
                Accept(p, o, s)
           \/ \E p \in Requests : ScanStep(p) \/ StartStep(p)
           \/ \E p \in Procs : StopStep(p)
           \/ BeginClose \/ CloseAll \/ NextVictim \/ EndClose
           \/ \E i \in Requests, s \in Services : ChangeBindings(i, s)
           \/ PublishCheck \/ PublishAdd \/ PublishMirror
  BY DEF Next, Work, CloserWork, CallbackWork, Procs

\* A scan's steps keep every variable well-typed.
LEMMA ScanType ==
    ASSUME TypeOK, NEW p \in Requests, ScanStep(p)
    PROVE  TypeOK'
  <1> p \in Procs
    BY DEF Procs
  <1> USE DEF Goto, Labels, procVars, diskVars, entryVars, instVars, registryVars
  <1>1. CASE Discover(p)
    <2>1. \/ scan' = scan
          \/ scan' = [scan EXCEPT ![p] = [s \in Services |-> IF s \in disk THEN "found" ELSE "gone"]]
      BY <1>1 DEF Discover
    <2>2. scan' \in [Procs -> [Services -> Marks]]
      <3>1. scan \in [Procs -> [Services -> Marks]]
        BY DEF TypeOK
      <3>2. [s \in Services |-> IF s \in disk THEN "found" ELSE "gone"] \in [Services -> Marks]
        BY DEF Marks
      <3> QED BY <2>1, <3>1, <3>2
    <2>3. pc' = [pc EXCEPT ![p] = "merge"] \/ pc' = [pc EXCEPT ![p] = "done"]
      BY <1>1 DEF Discover
    <2> QED BY <1>1, <2>2, <2>3 DEF TypeOK, Discover
  <1>2. CASE Merge(p)
    BY <1>2 DEF TypeOK, Merge, EntryStatus, Statuses, Marks
  <1>3. ASSUME NEW s \in Services, Publish(p, s) PROVE TypeOK'
    BY <1>3 DEF TypeOK, Publish, Marks
  <1>4. CASE EndScan(p)
    BY <1>4 DEF TypeOK, EndScan, AfterScan
  <1> QED BY <1>1, <1>2, <1>3, <1>4 DEF ScanStep

\* The steps of a start keep every variable well-typed.
LEMMA StartType ==
    ASSUME TypeOK, PcInv, NEW p \in Requests, StartStep(p)
    PROVE  TypeOK'
  <1> p \in Procs
    BY DEF Procs
  <1> USE DEF Goto, Labels, procVars, diskVars, entryVars, instVars, registryVars
  <1>1. CASE BeginStart(p)
    <2>1. CASE MayStart(svc[p])
      <3>1. /\ pc' = [pc EXCEPT ![p] = "backend"]
            /\ status' = [status EXCEPT ![svc[p]] = "starting"]
            /\ lp' = [lp EXCEPT ![p] = p]
            /\ why' = [why EXCEPT ![p] = None]
        BY <1>1, <2>1 DEF BeginStart
      <3>2. pc' \in [Procs -> Labels] /\ status' \in [Services -> Statuses]
        BY <3>1 DEF TypeOK, Statuses
      <3>3. lp' \in [Procs -> Optional(Requests)] /\ why' \in [Procs -> Optional(Reasons)]
        BY <3>1 DEF TypeOK, Optional
      <3> QED BY <1>1, <3>2, <3>3 DEF TypeOK, BeginStart
    <2>2. CASE ~MayStart(svc[p])
      BY <1>1, <2>2 DEF TypeOK, BeginStart
    <2> QED BY <2>1, <2>2
  <1>2. CASE LaunchBackend(p)
    BY <1>2 DEF TypeOK, PcInv, Holders, LaunchBackend, Optional, Reasons
  <1>3. CASE AttachInstance(p)
    BY <1>3 DEF TypeOK, AttachInstance, Optional, Reasons
  <1>4. CASE RegisterReturns(p)
    BY <1>4 DEF TypeOK, RegisterReturns, Optional, Reasons
  <1>5. CASE FinishStart(p)
    <2>1. svc[p] \in Services /\ lp[p] \in Requests
      BY <1>5 DEF FinishStart, PcInv, Holders
    <2>2. CASE status[svc[p]] = "starting"
      <3>1. /\ pc' = [pc EXCEPT ![p] = "snapshot"]
            /\ status' = [status EXCEPT ![svc[p]] = "running"]
            /\ discovered' = discovered \cup {svc[p]}
            /\ loaded' = [loaded EXCEPT ![svc[p]] = lp[p]]
            /\ why' = why
        BY <1>5, <2>2 DEF FinishStart
      <3>2. pc' \in [Procs -> Labels] /\ status' \in [Services -> Statuses]
        BY <3>1 DEF TypeOK, Statuses
      <3>3. discovered' \subseteq Services /\ loaded' \in [Services -> Optional(Requests)]
        BY <2>1, <3>1 DEF TypeOK, Optional
      <3> QED BY <1>5, <3>1, <3>2, <3>3 DEF TypeOK, FinishStart
    <2>3. CASE status[svc[p]] # "starting"
      <3>1. /\ pc' = [pc EXCEPT ![p] = "cancel"]
            /\ status' = [status EXCEPT ![svc[p]] = IF @ = "absent" THEN "discovered" ELSE @]
            /\ why' = [why EXCEPT ![p] = "abort"]
            /\ UNCHANGED <<discovered, loaded>>
        BY <1>5, <2>3 DEF FinishStart
      <3>2. pc' \in [Procs -> Labels] /\ status' \in [Services -> Statuses]
        BY <3>1 DEF TypeOK, Statuses
      <3>3. why' \in [Procs -> Optional(Reasons)]
        BY <3>1 DEF TypeOK, Optional, Reasons
      <3> QED BY <1>5, <3>1, <3>2, <3>3 DEF TypeOK, FinishStart
    <2> QED BY <2>2, <2>3
  <1>6. CASE Snapshot(p)
    <2>1. Record(lp[p]) \in Optional(ServiceRecord)
      BY <1>6 DEF TypeOK, PcInv, Snapshot, Record, ServiceRecord, Optional
    <2> QED BY <1>6, <2>1 DEF TypeOK, Snapshot
  <1>7. CASE AddRecord(p)
    BY <1>7 DEF TypeOK, AddRecord
  <1>8. CASE MirrorRecord(p)
    BY <1>8 DEF TypeOK, MirrorRecord
  <1> QED BY <1>1, <1>2, <1>3, <1>4, <1>5, <1>6, <1>7, <1>8 DEF StartStep

\* The steps of a stop or of a cleanup keep every variable well-typed.
LEMMA StopType ==
    ASSUME TypeOK, PcInv, NEW p \in Procs, StopStep(p)
    PROVE  TypeOK'
  <1> USE DEF Goto, Labels, procVars, diskVars, entryVars, instVars, registryVars
  <1>1. CASE BeginStop(p)
    BY <1>1, ZenonT(40) DEF TypeOK, PcInv, BeginStop, Statuses, Optional, Reasons
  <1>2. CASE Revoke(p)
    BY <1>2 DEF TypeOK, PcInv, Holders, Revoke
  <1>3. CASE DetachInstance(p)
    BY <1>3 DEF TypeOK, DetachInstance, Optional
  <1>4. CASE RemoveRecord(p)
    BY <1>4 DEF TypeOK, RemoveRecord, Optional
  <1>5. CASE UnmirrorRecord(p)
    BY <1>5 DEF TypeOK, UnmirrorRecord, Optional
  <1>6. CASE CloseInstance(p)
    BY <1>6 DEF TypeOK, CloseInstance
  <1>7. CASE Settle(p)
    BY <1>7 DEF TypeOK, Settle, AfterStop, Statuses, Optional
  <1> QED BY <1>1, <1>2, <1>3, <1>4, <1>5, <1>6, <1>7 DEF StopStep

\* The steps of Close keep every variable well-typed.
LEMMA CloseType ==
    ASSUME TypeOK, BeginClose \/ CloseAll \/ NextVictim \/ EndClose
    PROVE  TypeOK'
  <1> Closer \in Procs
    BY DEF Procs
  <1> USE DEF Goto, Labels, procVars, diskVars, entryVars, instVars, registryVars
  <1>1. CASE BeginClose
    BY <1>1 DEF TypeOK, BeginClose, Optional, Operations
  <1>2. CASE CloseAll
    BY <1>2 DEF TypeOK, CloseAll, Optional, Statuses
  <1>3. CASE NextVictim
    <2>1. PICK s \in Services :
            /\ closing[s] # None
            /\ closing' = [closing EXCEPT ![s] = None]
            /\ svc' = [svc EXCEPT ![Closer] = s]
            /\ lp' = [lp EXCEPT ![Closer] = closing[s]]
            /\ why' = [why EXCEPT ![Closer] = "stop"]
            /\ pc' = [pc EXCEPT ![Closer] = "cancel"]
      BY <1>3 DEF NextVictim
    <2>2. closing' \in [Services -> Optional(Requests)] /\ svc' \in [Procs -> Optional(Services)]
      BY <2>1 DEF TypeOK, Optional
    <2>3. lp' \in [Procs -> Optional(Requests)] /\ pc' \in [Procs -> Labels]
      BY <2>1 DEF TypeOK
    <2>4. why' \in [Procs -> Optional(Reasons)]
      BY <2>1 DEF TypeOK, Optional, Reasons
    <2> QED BY <1>3, <2>2, <2>3, <2>4 DEF TypeOK, NextVictim
  <1>4. CASE EndClose
    BY <1>4 DEF TypeOK, EndClose
  <1> QED BY <1>1, <1>2, <1>3, <1>4

\* A host callback keeps every variable well-typed.
LEMMA CallbackType ==
    ASSUME TypeOK,
           \/ \E i \in Requests, s \in Services : ChangeBindings(i, s)
           \/ PublishCheck \/ PublishAdd \/ PublishMirror
    PROVE  TypeOK'
  <1> USE DEF procVars, diskVars, entryVars, instVars, registryVars
  <1>1. ASSUME NEW i \in Requests, NEW s \in Services, ChangeBindings(i, s) PROVE TypeOK'
    <2> DEFINE j == sessions[s]
               r == [inst |-> j, rev |-> revision[j] + 1]
    <2>1. j \in Requests /\ revision[j] \in 0 .. MaxRevision /\ revision[j] < MaxRevision
      BY <1>1 DEF TypeOK, ChangeBindings, Optional
    <2>2. r \in ServiceRecord /\ revision[j] + 1 \in 0 .. MaxRevision
      BY <2>1, BoundAssumption DEF ServiceRecord
    <2>3. revision' = [revision EXCEPT ![j] = revision[j] + 1]
      BY <1>1, <2>1 DEF TypeOK, ChangeBindings
    <2>4. callback' = [at |-> "check", svc |-> s, rec |-> r]
      BY <1>1 DEF ChangeBindings
    <2> HIDE DEF j, r
    <2>5. revision' \in [Requests -> 0 .. MaxRevision]
      BY <2>1, <2>2, <2>3 DEF TypeOK
    <2>6. callback' \in [at : {"idle", "check", "add", "mirror"},
                         svc : Optional(Services), rec : Optional(ServiceRecord)]
      BY <2>2, <2>4 DEF Optional
    <2> QED BY <1>1, <2>5, <2>6 DEF TypeOK, ChangeBindings
  <1>2. CASE PublishCheck
    BY <1>2 DEF TypeOK, PublishCheck, Idle, Optional
  <1>3. CASE PublishAdd
    BY <1>3 DEF TypeOK, PublishAdd
  <1>4. CASE PublishMirror
    BY <1>4 DEF TypeOK, PublishMirror, Idle, Optional
  <1> QED BY <1>1, <1>2, <1>3, <1>4

\* Changes of the directory and new requests keep every variable well-typed.
LEMMA EnvironmentType ==
    ASSUME TypeOK,
           \/ \E s \in Services : EditDisk(s)
           \/ \E p \in Requests, o \in {"scan", "start", "stop", "restart"}, s \in Services :
                Accept(p, o, s)
    PROVE  TypeOK'
  <1> USE DEF procVars, diskVars, entryVars, instVars, registryVars
  <1>1. ASSUME NEW s \in Services, EditDisk(s) PROVE TypeOK'
    BY <1>1, BoundAssumption DEF TypeOK, EditDisk
  <1>2. ASSUME NEW p \in Requests, NEW o \in {"scan", "start", "stop", "restart"},
               NEW s \in Services, Accept(p, o, s)
        PROVE  TypeOK'
    <2>1. Entry(o) \in Labels /\ o \in Operations
      BY DEF Entry, Labels, Operations
    <2>2. p \in Procs
      BY DEF Procs
    <2> QED BY <1>2, <2>1, <2>2 DEF TypeOK, Accept, Goto, Optional
  <1> QED BY <1>1, <1>2

\* Every step keeps every variable well-typed.
LEMMA TypeStep == TypeOK /\ PcInv /\ [Next]_vars => TypeOK'
  <1> SUFFICES ASSUME TypeOK, PcInv, [Next]_vars PROVE TypeOK'
    OBVIOUS
  <1>1. CASE Next
    BY <1>1, NextCases, ScanType, StartType, StopType, CloseType, CallbackType, EnvironmentType
  <1>2. CASE UNCHANGED vars
    BY <1>2 DEF TypeOK, vars, procVars, diskVars, entryVars, instVars, registryVars
  <1> QED BY <1>1, <1>2

\* A process with a label past its first step has a service name, and one with a
\* holder's label has an instance.
LEMMA PcStep == TypeOK /\ PcInv /\ [Next]_vars => PcInv'
  <1> SUFFICES ASSUME TypeOK, PcInv, [Next]_vars PROVE PcInv'
    OBVIOUS
  <1> USE DEF Goto, procVars, Holders
  <1>1. ASSUME NEW p \in Requests, ScanStep(p) PROVE PcInv'
    BY <1>1 DEF PcInv, TypeOK, Procs, ScanStep, Discover, Merge, Publish, EndScan, AfterScan
  <1>2. ASSUME NEW p \in Requests, StartStep(p) PROVE PcInv'
    <2>1. p \in Procs
      BY DEF Procs
    <2>2. CASE BeginStart(p)
      BY <2>1, <2>2 DEF PcInv, TypeOK, BeginStart
    <2>3. CASE LaunchBackend(p) \/ AttachInstance(p) \/ RegisterReturns(p)
      BY <2>1, <2>3 DEF PcInv, TypeOK, LaunchBackend, AttachInstance, RegisterReturns
    <2>4. CASE FinishStart(p)
      BY <2>1, <2>4, ZenonT(40) DEF PcInv, TypeOK, FinishStart
    <2>5. CASE Snapshot(p) \/ AddRecord(p) \/ MirrorRecord(p)
      BY <2>1, <2>5 DEF PcInv, TypeOK, Snapshot, AddRecord, MirrorRecord
    <2> QED BY <1>2, <2>2, <2>3, <2>4, <2>5 DEF StartStep
  <1>3. ASSUME NEW p \in Procs, StopStep(p) PROVE PcInv'
    <2>1. CASE BeginStop(p)
      <3>1. /\ pc[p] = "stop" /\ svc' = svc /\ svc[p] \in Services
            /\ \A q \in Procs \ {p} : pc'[q] = pc[q] /\ lp'[q] = lp[q]
        BY <2>1 DEF PcInv, TypeOK, BeginStop
      <3>2. pc'[p] = "done" \/ (pc'[p] = "cancel" /\ lp'[p] \in Requests)
        BY <2>1, <3>1 DEF TypeOK, BeginStop, Optional
      <3> QED BY <3>1, <3>2 DEF PcInv
    <2>2. CASE Revoke(p) \/ DetachInstance(p) \/ RemoveRecord(p) \/ UnmirrorRecord(p)
      BY <2>2 DEF PcInv, TypeOK, Revoke, DetachInstance, RemoveRecord, UnmirrorRecord
    <2>3. CASE CloseInstance(p)
      <3>1. /\ pc[p] = "close"
            /\ pc'[p] \in {"settle", "settle failed"}
            /\ \A q \in Procs \ {p} : pc'[q] = pc[q]
            /\ svc' = svc /\ lp' = lp
        BY <2>3 DEF TypeOK, CloseInstance
      <3> QED BY <3>1 DEF PcInv
    <2>4. CASE Settle(p)
      <3>1. /\ pc[p] \in {"settle", "settle failed"}
            /\ pc'[p] \in {"next", "discover", "done"}
            /\ \A q \in Procs \ {p} : pc'[q] = pc[q]
            /\ svc' = svc /\ lp' = lp
        BY <2>4 DEF TypeOK, Settle, AfterStop
      <3> QED BY <3>1 DEF PcInv
    <2> QED BY <1>3, <2>1, <2>2, <2>3, <2>4 DEF StopStep
  <1>4. CASE BeginClose \/ CloseAll \/ NextVictim \/ EndClose
    BY <1>4, ZenonT(40) DEF PcInv, TypeOK, Procs, Optional, BeginClose, CloseAll, NextVictim, EndClose
  <1>5. ASSUME NEW p \in Requests, NEW o \in {"scan", "start", "stop", "restart"},
               NEW s \in Services, Accept(p, o, s)
        PROVE  PcInv'
    BY <1>5 DEF PcInv, TypeOK, Procs, Accept, Entry
  <1>6. CASE \/ UNCHANGED vars
             \/ \E s \in Services : EditDisk(s)
             \/ \E i \in Requests, s \in Services : ChangeBindings(i, s)
             \/ PublishCheck \/ PublishAdd \/ PublishMirror
    BY <1>6 DEF PcInv, vars, EditDisk, ChangeBindings, PublishCheck, PublishAdd, PublishMirror
  <1> QED BY <1>1, <1>2, <1>3, <1>4, <1>5, <1>6, NextCases

\* Every reachable state of the supervisor and its processes is well-typed.
THEOREM TypeCorrect == Spec => []TypeOK
  <1>1. Init => TypeOK /\ PcInv
    BY BoundAssumption DEF Init, TypeOK, PcInv, Optional, Labels, Marks, Statuses, Idle, Holders
  <1>2. TypeOK /\ PcInv /\ [Next]_vars => (TypeOK /\ PcInv)'
    BY TypeStep, PcStep
  <1> QED BY <1>1, <1>2, PTL DEF Spec

-----------------------------------------------------------------------------
(* Who holds which instance.  An instance has one holder at a time: the    *)
(* process that starts or cleans it up, the entry it is loaded in, or the  *)
(* list of Close.  Names alone identify sessions, so this is what makes    *)
(* Detach(name) hit the right instance.                                    *)

\* p has not begun a start of its own: no instance named p exists yet.
Fresh(p) ==
    \/ pc[p] \in {"idle", "discover", "merge", "publish", "start", "stop"}
    \/ why[p] = "stop" /\ pc[p] \in {"cancel", "detach", "remove", "unmirror", "close",
                                     "settle", "settle failed"}

FreshInv ==
    \A p \in Requests : Fresh(p) =>
        /\ \A q \in Procs : lp[q] # p
        /\ \A s \in Services : loaded[s] # p /\ closing[s] # p
        /\ p \notin alive

UniqueInv ==
    /\ \A p, q \in Procs : p # q /\ pc[p] \in Holders /\ pc[q] \in Holders => lp[p] # lp[q]
    /\ \A p \in Procs, s \in Services :
          pc[p] \in Holders => lp[p] # loaded[s] /\ lp[p] # closing[s]
    /\ \A s, t \in Services : loaded[s] # None =>
          loaded[s] # closing[t] /\ (s # t => loaded[s] # loaded[t])
    /\ \A s, t \in Services : closing[s] # None /\ s # t => closing[s] # closing[t]

AttachInv ==
    /\ \A p \in Procs : MustBeAttached(p) => sessions[svc[p]] = lp[p] /\ lp[p] \in alive
    /\ \A s \in Services : loaded[s] # None =>
          sessions[s] = loaded[s] /\ loaded[s] \in alive /\ status[s] = "running"
    /\ \A s \in Services : closing[s] # None => sessions[s] = closing[s] /\ closing[s] \in alive

\* The name an instance was started under is the one it is held under.
NameInv ==
    /\ pc[Closer] \in {"idle", "close all"} => \A s \in Services : closing[s] = None
    /\ \A p \in Procs : pc[p] \in Holders => svc[lp[p]] = svc[p]
    /\ \A s \in Services : loaded[s] # None => svc[loaded[s]] = s
    /\ \A s \in Services : closing[s] # None => svc[closing[s]] = s

\* Every backend has a holder, and a held instance lives from its launch on.
HeldInv ==
    \A i \in alive : /\ svc[i] \in Services
                     /\ \/ loaded[svc[i]] = i \/ closing[svc[i]] = i
                        \/ \E p \in Procs : pc[p] \in Holders /\ lp[p] = i

LiveInv == \A p \in Procs : pc[p] \in Holders => (lp[p] \in alive <=> pc[p] # "backend")

OwnInv == FreshInv /\ UniqueInv /\ AttachInv /\ NameInv /\ HeldInv /\ LiveInv

\* The types the ownership argument uses.
Shapes ==
    /\ pc \in [Procs -> Labels]
    /\ svc \in [Procs -> Optional(Services)]
    /\ lp \in [Procs -> Optional(Requests)]
    /\ why \in [Procs -> Optional(Reasons)]
    /\ closing \in [Services -> Optional(Requests)]
    /\ status \in [Services -> Statuses]
    /\ loaded \in [Services -> Optional(Requests)]
    /\ sessions \in [Services -> Optional(Requests)]
    /\ alive \subseteq Requests

\* Steps that change neither a label across the holder's labels nor anything the
\* invariant mentions.
Quiet(p) ==
    /\ UNCHANGED <<svc, lp, closing, loaded, sessions, alive>>
    /\ \A s \in Services : loaded[s] # None => status'[s] = status[s]
    /\ \A q \in Procs \ {p} : pc'[q] = pc[q] /\ why'[q] = why[q]
    /\ pc[p] # "backend" /\ pc'[p] # "backend"
    /\ pc'[p] \in Holders <=> pc[p] \in Holders
    /\ MustBeAttached(p)' => MustBeAttached(p)
    /\ Fresh(p)' => Fresh(p)
    /\ pc'[p] \in {"idle", "close all"} => pc[p] \in {"idle", "close all"}

\* A quiet step keeps who holds which instance.
LEMMA QuietStep ==
    ASSUME Shapes, OwnInv, NEW p \in Procs, Quiet(p)
    PROVE  OwnInv'
  <1>1. FreshInv'
    BY DEF OwnInv, FreshInv, Fresh, Quiet, Procs
  <1>2. UniqueInv'
    BY ZenonT(40) DEF OwnInv, UniqueInv, Quiet
  <1>3. AttachInv'
    BY DEF OwnInv, AttachInv, Quiet, MustBeAttached
  <1>4. NameInv' /\ HeldInv' /\ LiveInv'
    <2>1. /\ \A q \in Procs : pc'[q] \in Holders <=> pc[q] \in Holders
          /\ \A q \in Procs : pc'[q] # "backend" <=> pc[q] # "backend"
          /\ pc'[Closer] \in {"idle", "close all"} => pc[Closer] \in {"idle", "close all"}
          /\ UNCHANGED <<svc, lp, closing, loaded, alive>>
      BY DEF Quiet, Procs
    <2> QED BY <2>1 DEF OwnInv, NameInv, HeldInv, LiveInv
  <1> QED BY <1>1, <1>2, <1>3, <1>4 DEF OwnInv

\* Scanning, publishing and the callbacks are quiet.
LEMMA QuietActions ==
    ASSUME TypeOK, NEW p \in Procs,
           \/ Discover(p) \/ EndScan(p) \/ Snapshot(p) \/ AddRecord(p) \/ MirrorRecord(p)
           \/ Revoke(p) \/ RemoveRecord(p) \/ UnmirrorRecord(p)
           \/ \E s \in Services : Publish(p, s)
    PROVE  Quiet(p)
  <1> USE DEF Quiet, Goto, MustBeAttached, Fresh, Holders, procVars, entryVars, instVars
  <1>1. pc \in [Procs -> Labels]
    BY DEF TypeOK
  <1>2. CASE Discover(p) \/ EndScan(p)
    BY <1>1, <1>2 DEF Discover, EndScan, AfterScan
  <1>3. CASE Snapshot(p) \/ AddRecord(p) \/ MirrorRecord(p)
    BY <1>1, <1>3 DEF Snapshot, AddRecord, MirrorRecord
  <1>4. CASE Revoke(p)
    BY <1>1, <1>4 DEF Revoke
  <1>5. CASE RemoveRecord(p) \/ UnmirrorRecord(p)
    BY <1>1, <1>5 DEF RemoveRecord, UnmirrorRecord
  <1>6. CASE \E s \in Services : Publish(p, s)
    BY <1>1, <1>6 DEF Publish
  <1> QED BY <1>2, <1>3, <1>4, <1>5, <1>6

\* So are a rescan, which drops no entry that is loaded, a start that loses its
\* entry, and a registration, whose instance stays attached until its cleanup.
LEMMA QuietTransitions ==
    ASSUME TypeOK, AttachInv, NEW p \in Procs,
           \/ Merge(p) \/ RegisterReturns(p)
           \/ FinishStart(p) /\ status[svc[p]] # "starting"
           \/ AttachInstance(p) /\ ~CanAttach(svc[p])
    PROVE  Quiet(p)
  <1> USE DEF Quiet, Goto, MustBeAttached, Fresh, Holders, procVars, entryVars, instVars
  <1>1. /\ pc \in [Procs -> Labels] /\ why \in [Procs -> Optional(Reasons)]
        /\ status \in [Services -> Statuses]
    BY DEF TypeOK
  <1>2. \A s \in Services : loaded[s] # None => status[s] = "running"
    BY DEF AttachInv
  <1>3. CASE Merge(p)
    BY <1>1, <1>2, <1>3 DEF Merge, EntryStatus, InUse
  <1>4. CASE RegisterReturns(p)
    BY <1>1, <1>4 DEF RegisterReturns
  <1>5. CASE FinishStart(p) /\ status[svc[p]] # "starting"
    BY <1>1, <1>2, <1>5 DEF FinishStart
  <1>6. CASE AttachInstance(p) /\ ~CanAttach(svc[p])
    BY <1>1, <1>6 DEF AttachInstance
  <1> QED BY <1>3, <1>4, <1>5, <1>6

\* Beginning a start gives the new instance its first holder.
LEMMA BeginStartOwn ==
    ASSUME Shapes, OwnInv, PcInv, NEW p \in Requests, BeginStart(p)
    PROVE  OwnInv'
  <1>1. p \in Procs /\ p # None
    BY ProcAssumption DEF Procs
  <1>2. CASE ~MayStart(svc[p])
    <2>1. Quiet(p)
      BY <1>1, <1>2 DEF BeginStart, Quiet, Procs, Shapes, Goto, Holders, MustBeAttached, Fresh, instVars
    <2> QED BY <1>1, <2>1, QuietStep
  <1>3. CASE MayStart(svc[p])
    <2>1. /\ UNCHANGED <<svc, closing, loaded, sessions, alive>>
          /\ pc[p] = "start" /\ pc'[p] = "backend" /\ lp'[p] = p /\ why'[p] = None
          /\ \A q \in Procs \ {p} : pc'[q] = pc[q] /\ lp'[q] = lp[q] /\ why'[q] = why[q]
      BY <1>1, <1>3 DEF BeginStart, Goto, Shapes, instVars
    <2>2. /\ \A q \in Procs : lp[q] # p
          /\ \A s \in Services : loaded[s] # p /\ closing[s] # p
          /\ p \notin alive
      BY <2>1 DEF OwnInv, FreshInv, Fresh
    <2>3. \A s \in Services : loaded[s] # None => status'[s] = status[s]
      BY <1>3 DEF OwnInv, AttachInv, BeginStart, MayStart, Shapes
    <2>4. FreshInv'
      BY <1>1, <2>1, ZenonT(40) DEF OwnInv, FreshInv, Fresh, Procs
    <2>5. UniqueInv'
      BY <1>1, <2>1, <2>2 DEF OwnInv, UniqueInv, Holders
    <2>6. AttachInv'
      BY <2>1, <2>3 DEF OwnInv, AttachInv, MustBeAttached
    <2>7. NameInv'
      <3>1. pc'[Closer] = pc[Closer]
        BY <2>1, ProcAssumption DEF Procs
      <3> QED BY <2>1, <3>1 DEF OwnInv, NameInv
    <2>8. \A q \in Procs : pc[q] \in Holders => pc'[q] \in Holders /\ lp'[q] = lp[q]
      BY <2>1 DEF Holders
    <2>9. HeldInv'
      BY <2>1, <2>8 DEF OwnInv, HeldInv
    <2>10. LiveInv'
      BY <2>1, <2>2 DEF OwnInv, LiveInv
    <2> QED BY <2>4, <2>5, <2>6, <2>7, <2>9, <2>10 DEF OwnInv
  <1> QED BY <1>2, <1>3

\* Launching brings the held instance to life, or leaves nothing behind.
LEMMA LaunchOwn ==
    ASSUME Shapes, OwnInv, PcInv, NEW p \in Requests, LaunchBackend(p)
    PROVE  OwnInv'
  <1>1. p \in Procs /\ p # Closer
    BY ProcAssumption DEF Procs
  <1>2. pc[p] = "backend" /\ lp[p] \in Requests /\ lp[p] \notin alive
    BY <1>1 DEF LaunchBackend, PcInv, Holders, OwnInv, LiveInv
  <1>3. /\ UNCHANGED <<svc, lp, closing, loaded, status, sessions>>
        /\ \A q \in Procs \ {p} : pc'[q] = pc[q] /\ why'[q] = why[q]
    BY <1>1 DEF LaunchBackend, Goto, Shapes, entryVars
  <1>4. \/ pc'[p] = "attach" /\ alive' = alive \cup {lp[p]} /\ why' = why
        \/ pc'[p] = "settle" /\ alive' = alive /\ why'[p] = "unload"
    BY <1>1 DEF LaunchBackend, Goto, Shapes
  <1>5. \A q \in Procs : pc'[q] \in Holders => pc[q] \in Holders
    BY <1>2, <1>3 DEF Holders
  <1>6. FreshInv'
    <2>1. ~Fresh(p)' /\ \A q \in Requests \ {p} : Fresh(q)' => Fresh(q)
      BY <1>3, <1>4 DEF Fresh, Procs
    <2>2. \A q \in Requests : Fresh(q) => lp[p] # q
      BY <1>1 DEF OwnInv, FreshInv
    <2> QED BY <1>3, <1>4, <2>1, <2>2 DEF OwnInv, FreshInv
  <1>7. UniqueInv'
    BY <1>3, <1>5 DEF OwnInv, UniqueInv
  <1>8. AttachInv'
    BY <1>1, <1>3, <1>4 DEF OwnInv, AttachInv, MustBeAttached
  <1>9. NameInv'
    BY <1>1, <1>3, <1>5 DEF OwnInv, NameInv, Procs
  <1>10. HeldInv'
    <2>1. alive' # alive => pc'[p] \in Holders
      BY <1>4 DEF Holders
    <2>2. \A i \in alive : lp[p] # i
      BY <1>2
    <2>3. svc[lp[p]] \in Services
      BY <1>1, <1>2 DEF OwnInv, NameInv, PcInv, Holders
    <2> QED BY <1>1, <1>3, <1>4, <2>1, <2>2, <2>3 DEF OwnInv, HeldInv
  <1>11. LiveInv'
    <2>1. \A q \in Procs \ {p} : pc[q] \in Holders => lp[q] # lp[p]
      BY <1>1, <1>2 DEF OwnInv, UniqueInv, Holders
    <2>2. pc'[p] \in Holders => lp'[p] \in alive' /\ pc'[p] # "backend"
      BY <1>3, <1>4 DEF Holders
    <2> QED BY <1>3, <1>4, <2>1, <2>2 DEF OwnInv, LiveInv
  <1> QED BY <1>6, <1>7, <1>8, <1>9, <1>10, <1>11 DEF OwnInv

\* Attaching takes a free name, so no other holder's session is overwritten.
LEMMA AttachOwn ==
    ASSUME Shapes, OwnInv, PcInv, NEW p \in Requests, AttachInstance(p), CanAttach(svc[p])
    PROVE  OwnInv'
  <1>1. p \in Procs /\ p # Closer
    BY ProcAssumption DEF Procs
  <1>2. pc[p] = "attach" /\ lp[p] \in Requests /\ svc[p] \in Services /\ sessions[svc[p]] = None
    BY <1>1 DEF AttachInstance, PcInv, Holders, CanAttach
  <1>3. /\ UNCHANGED <<svc, lp, closing, loaded, status, alive>>
        /\ pc'[p] = "register" \/ (pc'[p] = "detach" /\ why'[p] = "unload")
        /\ \A q \in Procs \ {p} : pc'[q] = pc[q] /\ why'[q] = why[q]
        /\ sessions' = [sessions EXCEPT ![svc[p]] = lp[p]]
    BY <1>1 DEF AttachInstance, Goto, Shapes, entryVars, instVars
  <1>4. FreshInv'
    BY <1>1, <1>2, <1>3 DEF OwnInv, FreshInv, Fresh, Procs
  <1>5. UniqueInv'
    BY <1>1, <1>2, <1>3 DEF OwnInv, UniqueInv, Holders
  <1>6. AttachInv'
    <2>1. \A q \in Procs : MustBeAttached(q) => svc[q] \in Services /\ lp[q] # None
      BY ProcAssumption DEF PcInv, Holders, MustBeAttached
    <2>2. \A q \in Procs : MustBeAttached(q) => svc[q] # svc[p]
      BY <1>2, <2>1 DEF OwnInv, AttachInv
    <2>3. \A s \in Services : loaded[s] # None \/ closing[s] # None => s # svc[p]
      BY <1>2 DEF OwnInv, AttachInv
    <2>4. lp[p] \in alive
      BY <1>1, <1>2 DEF OwnInv, LiveInv, Holders
    <2> QED BY <1>1, <1>2, <1>3, <2>1, <2>2, <2>3, <2>4
            DEF OwnInv, AttachInv, MustBeAttached, Shapes
  <1>7. NameInv' /\ HeldInv' /\ LiveInv'
    <2>1. /\ \A q \in Procs : pc'[q] \in Holders <=> pc[q] \in Holders
          /\ \A q \in Procs : pc'[q] # "backend" <=> pc[q] # "backend"
      BY <1>2, <1>3 DEF Holders
    <2> QED BY <1>1, <1>3, <2>1 DEF OwnInv, NameInv, HeldInv, LiveInv, Procs
  <1> QED BY <1>4, <1>5, <1>6, <1>7 DEF OwnInv

\* A finished start hands the instance to an entry that has none.
LEMMA FinishOwn ==
    ASSUME Shapes, OwnInv, PcInv, NEW p \in Requests,
           FinishStart(p), status[svc[p]] = "starting"
    PROVE  OwnInv'
  <1> DEFINE s == svc[p]
  <1>1. p \in Procs /\ p # Closer
    BY ProcAssumption DEF Procs
  <1>2. pc[p] = "finish" /\ lp[p] \in Requests /\ lp[p] # None /\ s \in Services
    BY <1>1, ProcAssumption DEF FinishStart, PcInv, Holders
  <1>3. loaded[s] = None
    BY <1>2 DEF OwnInv, AttachInv
  <1>4. /\ UNCHANGED <<svc, lp, why, closing, sessions, alive>>
        /\ pc'[p] = "snapshot"
        /\ \A q \in Procs \ {p} : pc'[q] = pc[q]
        /\ loaded'[s] = lp[p] /\ status'[s] = "running"
        /\ \A t \in Services \ {s} : loaded'[t] = loaded[t] /\ status'[t] = status[t]
    BY <1>1, <1>2 DEF FinishStart, Goto, Shapes, instVars
  <1> HIDE DEF s
  <1>5. \A q \in Procs : pc'[q] \in Holders => pc[q] \in Holders /\ q # p
    BY <1>4 DEF Holders
  <1>6. pc[p] \in Holders
    BY <1>2 DEF Holders
  <1>7. FreshInv'
    <2>1. ~Fresh(p)' /\ \A q \in Requests \ {p} : Fresh(q)' => Fresh(q)
      BY <1>4 DEF Fresh, Procs
    <2>2. \A q \in Requests : Fresh(q) => lp[p] # q
      BY <1>1 DEF OwnInv, FreshInv
    <2> QED BY <1>4, <2>1, <2>2 DEF OwnInv, FreshInv
  <1>8. UniqueInv'
    <2>1. \A q \in Procs, t \in Services : pc'[q] \in Holders =>
            lp'[q] # loaded'[t] /\ lp'[q] # closing'[t]
      BY <1>1, <1>4, <1>5, <1>6 DEF OwnInv, UniqueInv
    <2>2. \A t, u \in Services : loaded'[t] # None =>
            loaded'[t] # closing'[u] /\ (t # u => loaded'[t] # loaded'[u])
      BY <1>1, <1>2, <1>4, <1>6 DEF OwnInv, UniqueInv
    <2> QED BY <1>4, <1>5, <2>1, <2>2 DEF OwnInv, UniqueInv
  <1>9. AttachInv'
    <2>1. sessions[s] = lp[p] /\ lp[p] \in alive
      BY <1>1, <1>2 DEF OwnInv, AttachInv, MustBeAttached, s
    <2>2. \A q \in Procs : MustBeAttached(q)' => MustBeAttached(q)
      BY <1>4 DEF MustBeAttached
    <2> QED BY <1>4, <2>1, <2>2 DEF OwnInv, AttachInv
  <1>10. NameInv'
    <2>1. svc[lp[p]] = s
      BY <1>1, <1>6 DEF OwnInv, NameInv, s
    <2> QED BY <1>1, <1>4, <1>5, <2>1 DEF OwnInv, NameInv, Procs
  <1>11. HeldInv'
    <2>1. svc[lp[p]] = s
      BY <1>1, <1>6 DEF OwnInv, NameInv, s
    <2>2. SUFFICES ASSUME NEW i \in alive, i # lp[p]
                   PROVE  \/ loaded'[svc[i]] = i \/ closing[svc[i]] = i
                          \/ \E q \in Procs : pc'[q] \in Holders /\ lp[q] = i
      BY <1>4, <2>1 DEF OwnInv, HeldInv
    <2>3. CASE loaded[svc[i]] = i
      <3>1. svc[i] \in Services
        BY DEF OwnInv, HeldInv
      <3>2. svc[i] # s
        BY <1>3, <2>3, ProcAssumption DEF Shapes
      <3> QED BY <1>4, <2>3, <3>1, <3>2
    <2>4. CASE closing[svc[i]] = i
      BY <2>4
    <2>5. CASE \E q \in Procs : pc[q] \in Holders /\ lp[q] = i
      BY <1>4, <2>2, <2>5
    <2> QED BY <2>3, <2>4, <2>5 DEF OwnInv, HeldInv
  <1>12. LiveInv'
    BY <1>4, <1>5 DEF OwnInv, LiveInv
  <1> QED BY <1>7, <1>8, <1>9, <1>10, <1>11, <1>12 DEF OwnInv

\* A stop takes the instance out of its entry: the entry loses it, p holds it.
LEMMA StopOwn ==
    ASSUME Shapes, OwnInv, PcInv, NEW p \in Procs, BeginStop(p)
    PROVE  OwnInv'
  <1> DEFINE s == svc[p]
  <1>1. pc[p] = "stop" /\ s \in Services
    BY DEF BeginStop, PcInv
  <1>2. CASE ~(status[s] = "running" /\ loaded[s] # None)
    <2>1. Quiet(p)
      BY <1>1, <1>2 DEF BeginStop, Quiet, Shapes, Goto, Holders, MustBeAttached, Fresh, instVars
    <2> QED BY <2>1, QuietStep
  <1>3. CASE status[s] = "running" /\ loaded[s] # None
    <2>1. /\ UNCHANGED <<svc, closing, sessions, alive>>
          /\ pc'[p] = "cancel" /\ lp'[p] = loaded[s] /\ why'[p] = "stop"
          /\ \A q \in Procs \ {p} : pc'[q] = pc[q] /\ lp'[q] = lp[q] /\ why'[q] = why[q]
          /\ loaded'[s] = None
          /\ \A t \in Services \ {s} : loaded'[t] = loaded[t] /\ status'[t] = status[t]
      BY <1>1, <1>3 DEF BeginStop, Goto, Shapes, instVars
    <2> HIDE DEF s
    <2>2. \A q \in Procs : q # p /\ pc'[q] \in Holders => pc[q] \in Holders
      BY <2>1
    <2>3. pc[p] \notin Holders /\ pc'[p] \in Holders
      BY <1>1, <2>1 DEF Holders
    <2>4. FreshInv'
      <3>1. \A q \in Requests : Fresh(q)' => Fresh(q)
        BY <1>1, <2>1 DEF Fresh, Procs
      <3>2. \A q \in Requests : Fresh(q) => loaded[s] # q
        BY <1>1 DEF OwnInv, FreshInv
      <3>3. \A q \in Requests : q # None
        BY ProcAssumption
      <3> QED BY <2>1, <3>1, <3>2, <3>3 DEF OwnInv, FreshInv
    <2>5. UniqueInv'
      <3>1. \A q \in Procs : q # p /\ pc'[q] \in Holders => lp'[q] # loaded[s]
        BY <1>1, <2>1, <2>2 DEF OwnInv, UniqueInv
      <3>2. \A t \in Services : loaded[s] # closing[t] /\ loaded[s] # loaded'[t]
        BY <1>1, <1>3, <2>1 DEF OwnInv, UniqueInv
      <3>3. \A t \in Services : loaded'[t] = loaded[t] \/ loaded'[t] = None
        BY <1>1, <2>1
      <3>4. \A q \in Procs : pc'[q] \in Holders => lp'[q] # None
        <4>1. \A q \in Procs : pc[q] \in Holders => lp[q] # None
          BY ProcAssumption DEF PcInv
        <4> QED BY <1>3, <2>1, <4>1
      <3>5. \A q, r \in Procs : q # r /\ pc'[q] \in Holders /\ pc'[r] \in Holders => lp'[q] # lp'[r]
        BY <2>1, <2>2, <3>1 DEF OwnInv, UniqueInv
      <3>6. \A q \in Procs, t \in Services :
              pc'[q] \in Holders => lp'[q] # loaded'[t] /\ lp'[q] # closing'[t]
        BY <2>1, <2>2, <3>2, <3>3, <3>4 DEF OwnInv, UniqueInv
      <3>7. \A t, u \in Services : loaded'[t] # None =>
              loaded'[t] # closing'[u] /\ (t # u => loaded'[t] # loaded'[u])
        BY <2>1, <3>3 DEF OwnInv, UniqueInv
      <3> QED BY <2>1, <3>5, <3>6, <3>7 DEF OwnInv, UniqueInv
    <2>6. AttachInv'
      <3>1. \A q \in Procs : q # p /\ MustBeAttached(q)' => MustBeAttached(q)
        BY <2>1 DEF MustBeAttached
      <3>2. sessions[s] = loaded[s] /\ loaded[s] \in alive
        BY <1>1, <1>3 DEF OwnInv, AttachInv
      <3> QED BY <2>1, <3>1, <3>2 DEF OwnInv, AttachInv, s
    <2>7. NameInv'
      <3>1. svc[loaded[s]] = s
        BY <1>1, <1>3 DEF OwnInv, NameInv
      <3>2. pc'[Closer] \in {"idle", "close all"} => pc[Closer] \in {"idle", "close all"}
        BY <2>1 DEF Procs
      <3>3. \A q \in Procs : pc'[q] \in Holders => svc'[lp'[q]] = svc'[q]
        BY <2>1, <2>2, <3>1 DEF OwnInv, NameInv, s
      <3> QED BY <2>1, <3>2, <3>3 DEF OwnInv, NameInv
    <2>8. HeldInv'
      <3>1. \A q \in Procs : pc[q] \in Holders => pc'[q] \in Holders /\ lp'[q] = lp[q]
        BY <2>1, <2>3
      <3>2. SUFFICES ASSUME NEW i \in alive
                     PROVE  /\ svc[i] \in Services
                            /\ \/ loaded'[svc[i]] = i \/ closing[svc[i]] = i
                               \/ \E q \in Procs : pc'[q] \in Holders /\ lp'[q] = i
        BY <2>1 DEF HeldInv
      <3>3. CASE svc[i] = s /\ loaded[s] = i
        BY <1>1, <2>1, <2>3, <3>3
      <3>4. CASE ~(svc[i] = s /\ loaded[s] = i)
        BY <2>1, <3>1, <3>4 DEF OwnInv, HeldInv
      <3> QED BY <3>3, <3>4
    <2>9. LiveInv'
      <3>1. loaded[s] \in alive
        BY <1>1, <1>3 DEF OwnInv, AttachInv
      <3> QED BY <2>1, <2>2, <3>1 DEF OwnInv, LiveInv
    <2> QED BY <2>4, <2>5, <2>6, <2>7, <2>8, <2>9 DEF OwnInv
  <1> QED BY <1>2, <1>3

\* Detaching the name frees the session of the held instance, and of no other.
LEMMA DetachOwn ==
    ASSUME Shapes, OwnInv, PcInv, NEW p \in Procs, DetachInstance(p)
    PROVE  OwnInv'
  <1> DEFINE s == svc[p]
  <1>1. pc[p] = "detach" /\ s \in Services /\ pc[p] \in Holders
    BY DEF DetachInstance, PcInv, Holders
  <1>2. sessions[s] = lp[p] /\ lp[p] # None
    BY <1>1, ProcAssumption DEF OwnInv, AttachInv, MustBeAttached, PcInv
  <1>3. /\ UNCHANGED <<svc, lp, why, closing, loaded, status, alive>>
        /\ pc'[p] \in {"close", "remove"}
        /\ \A q \in Procs \ {p} : pc'[q] = pc[q]
        /\ \A t \in Services \ {s} : sessions'[t] = sessions[t]
    BY <1>1 DEF DetachInstance, Goto, Shapes, procVars, entryVars, instVars
  <1> HIDE DEF s
  <1>4. /\ \A q \in Procs : pc'[q] \in Holders <=> pc[q] \in Holders
        /\ \A q \in Procs : pc'[q] # "backend" <=> pc[q] # "backend"
    BY <1>1, <1>3 DEF Holders
  <1>5. FreshInv'
    <2>1. \A q \in Requests : Fresh(q)' => Fresh(q)
      BY <1>1, <1>3 DEF Fresh, Procs
    <2> QED BY <1>3, <2>1 DEF OwnInv, FreshInv
  <1>6. UniqueInv'
    BY <1>3, <1>4 DEF OwnInv, UniqueInv
  <1>7. AttachInv'
    <2>1. \A q \in Procs : MustBeAttached(q)' => q # p /\ MustBeAttached(q) /\ pc[q] \in Holders
      BY <1>3 DEF MustBeAttached, Holders
    <2>2. \A q \in Procs : MustBeAttached(q)' => svc[q] # s
      BY <1>1, <1>2, <2>1 DEF OwnInv, AttachInv, UniqueInv
    <2>3. \A q \in Procs : MustBeAttached(q)' => svc[q] \in Services
      BY <2>1 DEF PcInv, MustBeAttached
    <2>4. \A t \in Services : loaded[t] # None \/ closing[t] # None => t # s
      BY <1>1, <1>2 DEF OwnInv, AttachInv, UniqueInv
    <2> QED BY <1>3, <2>1, <2>2, <2>3, <2>4 DEF OwnInv, AttachInv
  <1>8. NameInv' /\ HeldInv' /\ LiveInv'
    <2>1. pc'[Closer] \in {"idle", "close all"} => pc[Closer] \in {"idle", "close all"}
      BY <1>3 DEF Procs
    <2> QED BY <1>3, <1>4, <2>1 DEF OwnInv, NameInv, HeldInv, LiveInv
  <1> QED BY <1>5, <1>6, <1>7, <1>8 DEF OwnInv

\* Closing ends the held instance; nobody else holds it.
LEMMA CloseOwn ==
    ASSUME Shapes, OwnInv, PcInv, NEW p \in Procs, CloseInstance(p)
    PROVE  OwnInv'
  <1>1. pc[p] = "close" /\ pc[p] \in Holders /\ lp[p] # None
    BY ProcAssumption DEF CloseInstance, PcInv, Holders
  <1>2. /\ UNCHANGED <<svc, lp, why, closing, loaded, status, sessions>>
        /\ pc'[p] \in {"settle", "settle failed"}
        /\ \A q \in Procs \ {p} : pc'[q] = pc[q]
        /\ alive' = alive \ {lp[p]}
    BY DEF CloseInstance, Goto, Shapes, procVars, entryVars
  <1>3. \A q \in Procs : pc'[q] \in Holders <=> q # p /\ pc[q] \in Holders
    BY <1>1, <1>2 DEF Holders
  <1>4. /\ \A q \in Procs : pc'[q] \in Holders => lp[q] # lp[p]
        /\ \A s \in Services : loaded[s] # lp[p] /\ closing[s] # lp[p]
    BY <1>1, <1>3 DEF OwnInv, UniqueInv
  <1>5. FreshInv'
    <2>1. \A q \in Requests : Fresh(q)' => Fresh(q)
      BY <1>1, <1>2 DEF Fresh, Procs
    <2> QED BY <1>2, <2>1 DEF OwnInv, FreshInv
  <1>6. UniqueInv'
    BY <1>2, <1>3 DEF OwnInv, UniqueInv
  <1>7. AttachInv'
    <2>1. \A q \in Procs : MustBeAttached(q)' => MustBeAttached(q) /\ pc'[q] \in Holders
      BY <1>2 DEF MustBeAttached, Holders
    <2> QED BY <1>2, <1>4, <2>1 DEF OwnInv, AttachInv
  <1>8. NameInv'
    <2>1. pc'[Closer] \in {"idle", "close all"} => pc[Closer] \in {"idle", "close all"}
      BY <1>2 DEF Procs
    <2> QED BY <1>2, <1>3, <2>1 DEF OwnInv, NameInv
  <1>9. HeldInv'
    BY <1>2, <1>3 DEF OwnInv, HeldInv
  <1>10. LiveInv'
    BY <1>2, <1>3, <1>4 DEF OwnInv, LiveInv
  <1> QED BY <1>5, <1>6, <1>7, <1>8, <1>9, <1>10 DEF OwnInv

\* Settling an entry is quiet: an entry that is starting or stopping has no
\* instance to lose.
LEMMA SettleQuiet ==
    ASSUME Shapes, OwnInv, PcInv, NEW p \in Procs, Settle(p)
    PROVE  Quiet(p)
  <1> DEFINE s == svc[p]
  <1>1. pc[p] \in {"settle", "settle failed"} /\ s \in Services
    BY DEF Settle, PcInv
  <1>2. status[s] \in {"starting", "stopping"} => loaded[s] = None
    BY <1>1 DEF OwnInv, AttachInv
  <1>3. loaded' = loaded
    BY <1>1, <1>2 DEF Settle, Shapes
  <1>4. \A t \in Services : loaded[t] # None => status'[t] = status[t]
    <2>1. loaded[s] # None => status' = status
      BY <1>1, <1>2 DEF Settle
    <2>2. \A t \in Services \ {s} : status'[t] = status[t]
      BY <1>1 DEF Settle, Shapes
    <2> QED BY <1>1, <2>1, <2>2
  <1>5. /\ UNCHANGED <<svc, lp, why, closing, sessions, alive>>
        /\ pc'[p] \in {"next", "discover", "done"}
        /\ pc'[p] = "discover" => why[p] = "stop"
        /\ \A q \in Procs \ {p} : pc'[q] = pc[q]
    BY DEF Settle, Goto, AfterStop, Shapes, procVars, instVars
  <1> HIDE DEF s
  <1> QED BY <1>1, <1>3, <1>4, <1>5 DEF Quiet, Holders, MustBeAttached, Fresh

\* Beginning and ending Close are quiet.
LEMMA CloserQuiet ==
    ASSUME TypeOK, BeginClose \/ EndClose
    PROVE  Quiet(Closer)
  <1>1. pc \in [Procs -> Labels] /\ Closer \in Procs
    BY DEF TypeOK, Procs
  <1> QED BY <1>1 DEF BeginClose, EndClose, Quiet, Goto, MustBeAttached, Fresh, Holders,
             procVars, entryVars, instVars

\* Close takes the instances out of all entries onto its list.
LEMMA CloseAllOwn ==
    ASSUME Shapes, OwnInv, PcInv, CloseAll
    PROVE  OwnInv'
  <1>1. Closer \in Procs /\ pc[Closer] = "close all"
    BY DEF Procs, CloseAll
  <1>2. /\ UNCHANGED <<svc, lp, why, sessions, alive>>
        /\ pc'[Closer] = "next"
        /\ \A q \in Procs \ {Closer} : pc'[q] = pc[q]
        /\ closing' = loaded
        /\ \A s \in Services : loaded'[s] = None
    BY <1>1 DEF CloseAll, Goto, Shapes, instVars
  <1>3. \A s \in Services : closing[s] = None
    BY <1>1 DEF OwnInv, NameInv
  <1>4. /\ \A q \in Procs : pc'[q] \in Holders <=> pc[q] \in Holders
        /\ \A q \in Procs : pc'[q] # "backend" <=> pc[q] # "backend"
        /\ \A q \in Procs : MustBeAttached(q)' => MustBeAttached(q)
    BY <1>1, <1>2 DEF Holders, MustBeAttached
  <1>5. \A q \in Procs : pc[q] \in Holders => lp[q] # None
    BY ProcAssumption DEF PcInv
  <1>6. FreshInv'
    <2>1. \A q \in Requests : Fresh(q)' => Fresh(q)
      BY <1>1, <1>2, ProcAssumption DEF Fresh, Procs
    <2> QED BY <1>2, <2>1, ProcAssumption DEF OwnInv, FreshInv
  <1>7. UniqueInv'
    BY <1>2, <1>4, <1>5 DEF OwnInv, UniqueInv
  <1>8. AttachInv'
    BY <1>2, <1>4 DEF OwnInv, AttachInv
  <1>9. NameInv' /\ LiveInv'
    BY <1>2, <1>4 DEF OwnInv, NameInv, LiveInv
  <1>10. HeldInv'
    <2>1. \A i \in alive : i # None
      BY ProcAssumption DEF Shapes
    <2> QED BY <1>2, <1>3, <1>4, <2>1 DEF OwnInv, HeldInv
  <1> QED BY <1>6, <1>7, <1>8, <1>9, <1>10 DEF OwnInv

\* Close takes the next instance from its list and holds it.
LEMMA NextVictimOwn ==
    ASSUME Shapes, OwnInv, PcInv, NextVictim
    PROVE  OwnInv'
  <1>1. Closer \in Procs /\ Closer \notin Requests /\ pc[Closer] = "next"
    BY ProcAssumption DEF Procs, NextVictim
  <1>2. PICK s \in Services :
          /\ closing[s] # None
          /\ closing' = [closing EXCEPT ![s] = None]
          /\ svc' = [svc EXCEPT ![Closer] = s]
          /\ lp' = [lp EXCEPT ![Closer] = closing[s]]
          /\ why' = [why EXCEPT ![Closer] = "stop"]
          /\ pc' = [pc EXCEPT ![Closer] = "cancel"]
    BY DEF NextVictim, Goto
  <1>3. /\ UNCHANGED <<loaded, status, sessions, alive>>
        /\ pc'[Closer] = "cancel" /\ lp'[Closer] = closing[s] /\ svc'[Closer] = s
        /\ \A q \in Procs \ {Closer} :
              pc'[q] = pc[q] /\ lp'[q] = lp[q] /\ why'[q] = why[q] /\ svc'[q] = svc[q]
        /\ closing'[s] = None
        /\ \A t \in Services \ {s} : closing'[t] = closing[t]
    BY <1>1, <1>2 DEF NextVictim, Shapes, entryVars, instVars
  <1>4. closing[s] \in Requests
    BY <1>2 DEF Shapes, Optional
  <1>5. \A i \in Requests : svc'[i] = svc[i]
    BY <1>1, <1>3 DEF Procs
  <1>6. /\ \A q \in Procs : q # Closer /\ pc'[q] \in Holders => pc[q] \in Holders
        /\ pc[Closer] \notin Holders /\ pc'[Closer] \in Holders
    BY <1>1, <1>3 DEF Holders
  <1>7. \A q \in Procs : pc[q] \in Holders => pc'[q] \in Holders /\ lp'[q] = lp[q]
    BY <1>3, <1>6
  <1>8. FreshInv'
    <2>1. \A q \in Requests : Fresh(q)' => Fresh(q)
      BY <1>1, <1>3 DEF Fresh, Procs
    <2>2. \A q \in Requests : q # None
      BY ProcAssumption
    <2> QED BY <1>3, <2>1, <2>2 DEF OwnInv, FreshInv
  <1>9. UniqueInv'
    <2>1. \A q \in Procs : q # Closer /\ pc'[q] \in Holders => lp'[q] # closing[s]
      BY <1>3, <1>6 DEF OwnInv, UniqueInv
    <2>2. \A t \in Services : closing[s] # loaded[t] /\ closing[s] # closing'[t]
      BY <1>2, <1>3 DEF OwnInv, UniqueInv
    <2>3. \A t \in Services : closing'[t] = closing[t] \/ closing'[t] = None
      BY <1>3
    <2>4. \A q \in Procs : pc'[q] \in Holders => lp'[q] # None
      <3>1. \A q \in Procs : pc[q] \in Holders => lp[q] # None
        BY ProcAssumption DEF PcInv
      <3> QED BY <1>2, <1>3, <3>1
    <2>5. \A q, r \in Procs : q # r /\ pc'[q] \in Holders /\ pc'[r] \in Holders => lp'[q] # lp'[r]
      BY <1>3, <1>6, <2>1 DEF OwnInv, UniqueInv
    <2>6. \A q \in Procs, t \in Services :
            pc'[q] \in Holders => lp'[q] # loaded'[t] /\ lp'[q] # closing'[t]
      BY <1>3, <1>6, <2>2, <2>3, <2>4 DEF OwnInv, UniqueInv
    <2>7. /\ \A t, u \in Services : loaded'[t] # None =>
               loaded'[t] # closing'[u] /\ (t # u => loaded'[t] # loaded'[u])
          /\ \A t, u \in Services : closing'[t] # None /\ t # u => closing'[t] # closing'[u]
      BY <1>3, <2>3 DEF OwnInv, UniqueInv
    <2> QED BY <2>5, <2>6, <2>7 DEF UniqueInv
  <1>10. AttachInv'
    <2>1. \A q \in Procs : q # Closer /\ MustBeAttached(q)' => MustBeAttached(q)
      BY <1>3 DEF MustBeAttached
    <2>2. sessions[s] = closing[s] /\ closing[s] \in alive
      BY <1>2 DEF OwnInv, AttachInv
    <2> QED BY <1>3, <2>1, <2>2 DEF OwnInv, AttachInv
  <1>11. NameInv'
    <2>1. svc[closing[s]] = s
      BY <1>2 DEF OwnInv, NameInv
    <2>2. \A q \in Procs : pc[q] \in Holders => lp[q] \in Requests
      BY DEF PcInv
    <2>3. \A q \in Procs : pc'[q] \in Holders => svc'[lp'[q]] = svc'[q]
      <3>1. svc'[lp'[Closer]] = svc'[Closer]
        BY <1>3, <1>4, <1>5, <2>1
      <3>2. ASSUME NEW q \in Procs \ {Closer}, pc'[q] \in Holders PROVE svc'[lp'[q]] = svc'[q]
        <4>1. pc[q] \in Holders /\ lp[q] \in Requests /\ lp'[q] = lp[q] /\ svc'[q] = svc[q]
          BY <1>3, <3>2, <2>2
        <4>2. svc[lp[q]] = svc[q]
          BY <4>1 DEF OwnInv, NameInv
        <4> QED BY <1>5, <4>1, <4>2
      <3> QED BY <3>1, <3>2
    <2>4. \A t \in Services : /\ loaded[t] # None => loaded[t] \in Requests
                              /\ closing[t] # None => closing[t] \in Requests
      BY DEF Shapes, Optional
    <2>5. pc'[Closer] \notin {"idle", "close all"}
      BY <1>3
    <2>6. /\ \A t \in Services : loaded[t] # None => svc[loaded[t]] = t
          /\ \A t \in Services : closing[t] # None => svc[closing[t]] = t
      BY DEF OwnInv, NameInv
    <2>7. \A t \in Services : loaded'[t] # None => svc'[loaded'[t]] = t
      BY <1>3, <1>5, <2>4, <2>6
    <2>8. \A t \in Services : closing'[t] # None => svc'[closing'[t]] = t
      BY <1>3, <1>5, <2>4, <2>6
    <2> QED BY <2>3, <2>5, <2>7, <2>8 DEF NameInv
  <1>12. HeldInv'
    <2>1. SUFFICES ASSUME NEW i \in alive
                   PROVE  /\ svc[i] \in Services
                          /\ \/ loaded[svc[i]] = i \/ closing'[svc[i]] = i
                             \/ \E q \in Procs : pc'[q] \in Holders /\ lp'[q] = i
      <3>1. alive' = alive /\ loaded' = loaded /\ \A i \in alive : svc'[i] = svc[i]
        BY <1>3, <1>5 DEF Shapes
      <3> QED BY <3>1 DEF HeldInv
    <2>2. CASE svc[i] = s /\ closing[s] = i
      BY <1>1, <1>3, <1>6, <2>2
    <2>3. CASE ~(svc[i] = s /\ closing[s] = i)
      BY <1>3, <1>7, <2>3 DEF OwnInv, HeldInv
    <2> QED BY <2>2, <2>3
  <1>13. LiveInv'
    <2>1. closing[s] \in alive
      BY <1>2 DEF OwnInv, AttachInv
    <2> QED BY <1>3, <1>6, <2>1 DEF OwnInv, LiveInv
  <1> QED BY <1>8, <1>9, <1>10, <1>11, <1>12, <1>13 DEF OwnInv

\* A request that arrives names its service; no instance is named after it yet.
LEMMA AcceptOwn ==
    ASSUME Shapes, OwnInv, PcInv, NEW p \in Requests, NEW s \in Services,
           NEW o \in {"scan", "start", "stop", "restart"}, Accept(p, o, s)
    PROVE  OwnInv'
  <1>1. p \in Procs /\ p # Closer /\ pc[p] = "idle"
    BY ProcAssumption DEF Procs, Accept
  <1>2. /\ UNCHANGED <<lp, why, closing, loaded, status, sessions, alive>>
        /\ pc'[p] \in {"discover", "stop"}
        /\ \A q \in Procs \ {p} : pc'[q] = pc[q] /\ svc'[q] = svc[q]
    BY <1>1 DEF Accept, Entry, Goto, Shapes, entryVars, instVars
  <1>3. svc'[p] \in Services
    BY <1>1 DEF Accept, Shapes
  <1>4. /\ \A q \in Procs : lp[q] # p
        /\ \A t \in Services : loaded[t] # p /\ closing[t] # p
        /\ p \notin alive
    BY <1>1 DEF OwnInv, FreshInv, Fresh
  <1>5. /\ \A q \in Procs : pc'[q] \in Holders <=> q # p /\ pc[q] \in Holders
        /\ \A q \in Procs : pc[q] \in Holders => q # p
        /\ \A q \in Procs : MustBeAttached(q)' => MustBeAttached(q) /\ q # p
    BY <1>1, <1>2 DEF Holders, MustBeAttached
  <1>6. \A i \in Requests : i # p => svc'[i] = svc[i]
    BY <1>2 DEF Procs
  <1>7. FreshInv'
    <2>1. \A q \in Requests : Fresh(q)' => Fresh(q)
      BY <1>1, <1>2 DEF Fresh, Procs
    <2> QED BY <1>2, <2>1 DEF OwnInv, FreshInv
  <1>8. UniqueInv'
    BY <1>2, <1>5 DEF OwnInv, UniqueInv
  <1>9. AttachInv'
    BY <1>2, <1>5 DEF OwnInv, AttachInv
  <1>10. NameInv'
    <2>1. \A q \in Procs : pc'[q] \in Holders => svc'[lp'[q]] = svc'[q]
      <3>1. SUFFICES ASSUME NEW q \in Procs, pc'[q] \in Holders PROVE svc'[lp'[q]] = svc'[q]
        OBVIOUS
      <3>2. q # p /\ pc[q] \in Holders /\ lp[q] \in Requests /\ lp[q] # p
        BY <1>4, <1>5, <3>1 DEF PcInv
      <3>3. svc[lp[q]] = svc[q]
        BY <3>2 DEF OwnInv, NameInv
      <3> QED BY <1>2, <1>6, <3>2, <3>3
    <2>2. \A t \in Services : /\ loaded[t] # None => loaded[t] \in Requests
                              /\ closing[t] # None => closing[t] \in Requests
      BY DEF Shapes, Optional
    <2>3. /\ \A t \in Services : loaded[t] # None => svc[loaded[t]] = t
          /\ \A t \in Services : closing[t] # None => svc[closing[t]] = t
          /\ pc[Closer] \in {"idle", "close all"} => \A t \in Services : closing[t] = None
      BY DEF OwnInv, NameInv
    <2>4. \A t \in Services : loaded'[t] # None => svc'[loaded'[t]] = t
      BY <1>2, <1>4, <1>6, <2>2, <2>3
    <2>5. \A t \in Services : closing'[t] # None => svc'[closing'[t]] = t
      BY <1>2, <1>4, <1>6, <2>2, <2>3
    <2>6. pc'[Closer] = pc[Closer] /\ closing' = closing
      BY <1>1, <1>2 DEF Procs
    <2> QED BY <2>1, <2>3, <2>4, <2>5, <2>6 DEF NameInv
  <1>11. HeldInv' /\ LiveInv'
    <2>1. \A i \in alive : svc'[i] = svc[i]
      BY <1>4, <1>6 DEF Shapes
    <2>2. \A q \in Procs : pc'[q] \in Holders <=> pc[q] \in Holders
      BY <1>5
    <2>3. HeldInv'
      BY <1>2, <2>1, <2>2 DEF OwnInv, HeldInv
    <2>4. LiveInv'
      BY <1>2, <1>5 DEF OwnInv, LiveInv
    <2> QED BY <2>3, <2>4
  <1> QED BY <1>7, <1>8, <1>9, <1>10, <1>11 DEF OwnInv

\* Every step keeps who holds which instance.
LEMMA OwnStep == TypeOK /\ PcInv /\ OwnInv /\ [Next]_vars => OwnInv'
  <1> SUFFICES ASSUME TypeOK, PcInv, OwnInv, [Next]_vars PROVE OwnInv'
    OBVIOUS
  <1>1. Shapes
    BY DEF Shapes, TypeOK
  <1>2. AttachInv
    BY DEF OwnInv
  <1>3. \A p \in Requests : p \in Procs
    BY DEF Procs
  <1>4. ASSUME NEW p \in Requests, ScanStep(p) PROVE OwnInv'
    BY <1>1, <1>2, <1>3, <1>4, QuietActions, QuietTransitions, QuietStep DEF ScanStep
  <1>5. ASSUME NEW p \in Requests, StartStep(p) PROVE OwnInv'
    <2>1. CASE BeginStart(p)
      BY <1>1, <2>1, BeginStartOwn
    <2>2. CASE LaunchBackend(p)
      BY <1>1, <2>2, LaunchOwn
    <2>3. CASE AttachInstance(p)
      BY <1>1, <1>2, <1>3, <2>3, AttachOwn, QuietTransitions, QuietStep
    <2>4. CASE RegisterReturns(p)
      BY <1>1, <1>2, <1>3, <2>4, QuietTransitions, QuietStep
    <2>5. CASE FinishStart(p)
      BY <1>1, <1>2, <1>3, <2>5, FinishOwn, QuietTransitions, QuietStep
    <2>6. CASE Snapshot(p) \/ AddRecord(p) \/ MirrorRecord(p)
      BY <1>1, <1>3, <2>6, QuietActions, QuietStep
    <2> QED BY <1>5, <2>1, <2>2, <2>3, <2>4, <2>5, <2>6 DEF StartStep
  <1>6. ASSUME NEW p \in Procs, StopStep(p) PROVE OwnInv'
    <2>1. CASE BeginStop(p)
      BY <1>1, <2>1, StopOwn
    <2>2. CASE Revoke(p) \/ RemoveRecord(p) \/ UnmirrorRecord(p)
      BY <1>1, <2>2, QuietActions, QuietStep
    <2>3. CASE DetachInstance(p)
      BY <1>1, <2>3, DetachOwn
    <2>4. CASE CloseInstance(p)
      BY <1>1, <2>4, CloseOwn
    <2>5. CASE Settle(p)
      BY <1>1, <2>5, SettleQuiet, QuietStep
    <2> QED BY <1>6, <2>1, <2>2, <2>3, <2>4, <2>5 DEF StopStep
  <1>7. CASE BeginClose \/ CloseAll \/ NextVictim \/ EndClose
    <2>1. Closer \in Procs
      BY DEF Procs
    <2> QED BY <1>1, <1>7, <2>1, CloserQuiet, QuietStep, CloseAllOwn, NextVictimOwn
  <1>8. ASSUME NEW p \in Requests, NEW o \in {"scan", "start", "stop", "restart"},
               NEW s \in Services, Accept(p, o, s)
        PROVE  OwnInv'
    BY <1>1, <1>8, AcceptOwn
  <1>9. CASE \/ UNCHANGED vars
             \/ \E s \in Services : EditDisk(s)
             \/ \E i \in Requests, s \in Services : ChangeBindings(i, s)
             \/ PublishCheck \/ PublishAdd \/ PublishMirror
    <2>1. UNCHANGED <<pc, svc, lp, why, closing, status, loaded, sessions, alive>>
      BY <1>9 DEF vars, EditDisk, ChangeBindings, PublishCheck, PublishAdd, PublishMirror,
         procVars, entryVars, instVars
    <2>2. FreshInv' /\ UniqueInv'
      BY <2>1 DEF OwnInv, FreshInv, Fresh, UniqueInv
    <2>3. AttachInv' /\ NameInv' /\ HeldInv' /\ LiveInv'
      BY <2>1 DEF OwnInv, AttachInv, MustBeAttached, NameInv, HeldInv, LiveInv
    <2> QED BY <2>2, <2>3 DEF OwnInv
  <1> QED BY <1>4, <1>5, <1>6, <1>7, <1>8, <1>9, NextCases

\* The inductive invariant: types, labels and the holders of the instances.
LEMMA OwnInduction == Spec => [](TypeOK /\ PcInv /\ OwnInv)
  <1>1. Init => TypeOK /\ PcInv
    BY BoundAssumption DEF Init, TypeOK, PcInv, Optional, Labels, Marks, Statuses, Idle, Holders
  <1>2. Init => OwnInv
    <2>1. ASSUME Init PROVE FreshInv /\ UniqueInv
      BY <2>1, ProcAssumption DEF Init, FreshInv, UniqueInv, Holders, Procs
    <2>2. ASSUME Init PROVE AttachInv /\ NameInv /\ HeldInv /\ LiveInv
      BY <2>2 DEF Init, AttachInv, NameInv, HeldInv, LiveInv, Holders, MustBeAttached
    <2> QED BY <2>1, <2>2 DEF OwnInv
  <1>3. (TypeOK /\ PcInv /\ OwnInv) /\ [Next]_vars => (TypeOK /\ PcInv /\ OwnInv)'
    BY TypeStep, PcStep, OwnStep
  <1> QED BY <1>1, <1>2, <1>3, PTL DEF Spec

\* Detach(name) never tears down the bindings of another instance, for any number
\* of concurrent requests, with or without a shutdown.
THEOREM CleanupSafety == Spec => []CleanupOwnsSession
  <1>1. OwnInv => CleanupOwnsSession
    BY DEF OwnInv, AttachInv, CleanupOwnsSession
  <1> QED BY <1>1, OwnInduction, PTL

\* A loaded instance is attached and its backend runs.
THEOREM LoadedSafety == Spec => []LoadedIsAttached
  <1>1. OwnInv => LoadedIsAttached
    BY DEF OwnInv, AttachInv, LoadedIsAttached
  <1> QED BY <1>1, OwnInduction, PTL

\* No path of a start, a stop or a shutdown forgets a backend it launched.
THEOREM NoBackendLeak == Spec => []NoBackendForgotten
  <1>1. OwnInv => NoBackendForgotten
    BY DEF OwnInv, HeldInv, NoBackendForgotten, Starting, Cleaning, Holders
  <1> QED BY <1>1, OwnInduction, PTL

=============================================================================
