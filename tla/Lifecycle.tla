------------------------------ MODULE Lifecycle ------------------------------
(***************************************************************************)
(* Starting, stopping, scanning and shutting down services: the supervisor,*)
(* the runner's Load, the service instances, the controller sessions they  *)
(* attach, the registry of running services with its mirror in the KV      *)
(* store, and the catalog keys a scan publishes.                           *)
(*                                                                         *)
(* A process is one management request (an HTTP handler goroutine) or the  *)
(* Closer, which runs Manager.Close at shutdown.  Between two critical     *)
(* sections a process holds no lock, so every critical section is a step   *)
(* of its own and pc[p] is where p is between them.  A request starts at   *)
(* most one instance, which is named by the request.                       *)
(*                                                                         *)
(* What a service registers is abstracted to the revision of its record;   *)
(* module Bindings has the registries.  Status "running" stands for        *)
(* running and degraded, which the supervisor treats alike; "absent" is a  *)
(* name without an entry.                                                  *)
(***************************************************************************)
EXTENDS Naturals

CONSTANTS
    Services,     \* service names
    Requests,     \* management requests, each served by a goroutine
    Closer,       \* the goroutine that shuts the kernel down
    MaxRevision,  \* bound on the binding changes of one instance
    MaxDiskEdits, \* bound on packages appearing or disappearing
    Shutdown,     \* whether Closer runs
    None          \* nil

\* Why a process cleans up an instance.
Reasons == {"stop", "abort", "unload"}

ASSUME ProcAssumption ==
    /\ Closer \notin Requests
    /\ None \notin Requests \cup Services \cup {Closer} \cup Reasons

ASSUME BoundAssumption ==
    MaxRevision \in Nat /\ MaxDiskEdits \in Nat /\ Shutdown \in BOOLEAN

Procs == Requests \cup {Closer}

Statuses == {"absent", "discovered", "starting", "running", "stopping", "failed"}
Operations == {"scan", "start", "stop", "restart", "close"}

VARIABLES
    pc,         \* where each process is
    op,         \* the operation a process performs
    svc,        \* the service name it works on
    lp,         \* the instance it is starting or cleaning up
    why,        \* why it cleans up: "stop", "abort" (a lost start), "unload"
    scan,       \* what a scan found of each name, then the catalog write left
    rec,        \* the record a process is about to add to the registry
    closing,    \* the instances Close still has to unload, by name
    disk,       \* packages in the service directory
    diskEdits,  \* how often the directory has changed (bounded)
    status,     \* serviceEntry.status, "absent" without an entry
    discovered, \* names whose entry has discovered = true
    loaded,     \* serviceEntry.loaded
    catalogKV,  \* names under the catalog prefix of the KV store
    sessions,   \* binding.Controller.sessions: the attached instance
    alive,      \* instances whose backend process or module is running
    revision,   \* number of binding changes in an instance's record
    callback,   \* the host callback that holds Controller.mu, if any
    records,    \* registry.Registry.records
    mirror      \* the registry's records in the "sys" KV namespace

procVars == <<op, svc, lp, why, scan, rec, closing>>
diskVars == <<disk, diskEdits>>
entryVars == <<status, discovered, loaded>>
instVars == <<alive, revision>>
registryVars == <<records, mirror>>

vars == <<pc, procVars, diskVars, entryVars, catalogKV, sessions, instVars,
          callback, registryVars>>

Goto(p, label) == pc' = [pc EXCEPT ![p] = label]

Labels ==
    {"idle", "discover", "merge", "publish", "start", "backend", "attach", "register",
     "finish", "snapshot", "add", "mirror", "stop", "cancel", "detach", "remove",
     "unmirror", "close", "settle", "settle failed", "close all", "next", "done"}

Marks == {"keep", "found", "gone", "publish", "unpublish", "retract", "recheck"}

ServiceRecord == [inst : Requests, rev : 0 .. MaxRevision]

Record(i) == [inst |-> i, rev |-> revision[i]]
Idle == [at |-> "idle", svc |-> None, rec |-> None]

\* where an operation begins
Entry(o) == CASE o \in {"scan", "start"} -> "discover"
              [] o \in {"stop", "restart"} -> "stop"
              [] o = "close" -> "close all"

\* where a process goes once the part that ends here has succeeded
AfterScan(o) == IF o = "scan" THEN "done" ELSE "start"
AfterStop(o) == IF o = "restart" THEN "discover" ELSE "done"

-----------------------------------------------------------------------------
(* The environment: packages appear and disappear, requests arrive.        *)

EditDisk(s) ==
    /\ diskEdits < MaxDiskEdits
    /\ disk' = IF s \in disk THEN disk \ {s} ELSE disk \cup {s}
    /\ diskEdits' = diskEdits + 1
    /\ UNCHANGED <<pc, procVars, entryVars, catalogKV, sessions, instVars,
                   callback, registryVars>>

\* No request is accepted once http.Server.Shutdown has begun.
Accept(p, o, s) ==
    /\ p \in Requests /\ pc[p] = "idle"
    /\ pc[Closer] = "idle"
    /\ op' = [op EXCEPT ![p] = o]
    /\ svc' = [svc EXCEPT ![p] = s]
    /\ Goto(p, Entry(o))
    /\ UNCHANGED <<lp, why, scan, rec, closing, diskVars, entryVars, catalogKV,
                   sessions, instVars, callback, registryVars>>

-----------------------------------------------------------------------------
(* Supervisor.Scan.                                                        *)

\* Catalog.Discover, before the supervisor lock is taken.
Discover(p) ==
    /\ pc[p] = "discover"
    /\ \/ /\ scan' = [scan EXCEPT ![p] = [s \in Services |->
                         IF s \in disk THEN "found" ELSE "gone"]]
          /\ Goto(p, "merge")
       \/ Goto(p, "done") /\ UNCHANGED scan  \* the directory cannot be read
    /\ UNCHANGED <<op, svc, lp, why, rec, closing, diskVars, entryVars, catalogKV,
                   sessions, instVars, callback, registryVars>>

\* A loaded service keeps its entry when its package is gone, and so does one
\* that is being started or stopped.
InUse(s) == loaded[s] # None \/ status[s] \in {"starting", "stopping"}

MutantUnsetStatus(s, found) ==
    IF s \in found /\ status[s] = "absent" THEN ""
    ELSE IF s \in found \/ InUse(s) THEN status[s] ELSE "absent"
MutantDropInUse(s, found) ==
    IF s \notin found THEN "absent" ELSE IF status[s] = "absent" THEN "discovered" ELSE status[s]

\* The status of s in the rebuilt map of entries.
EntryStatus(s, found) ==
    IF s \in found
    THEN IF status[s] = "absent" THEN "discovered" ELSE status[s]
    ELSE IF InUse(s) THEN status[s] ELSE "absent"

\* The entries are rebuilt from what was found and from what is still in use.
Merge(p) ==
    /\ pc[p] = "merge"
    /\ LET found == {s \in Services : scan[p][s] = "found"}
       IN /\ status' = [s \in Services |-> EntryStatus(s, found)]
          /\ discovered' = found
          /\ scan' = [scan EXCEPT ![p] = [s \in Services |->
                        IF s \in found THEN "publish"
                        ELSE IF s \in discovered
                        THEN IF InUse(s) THEN "retract" ELSE "unpublish"
                        ELSE IF InUse(s) THEN "recheck" ELSE "keep"]]
    /\ Goto(p, "publish")
    /\ UNCHANGED <<op, svc, lp, why, rec, closing, diskVars, loaded, catalogKV,
                   sessions, instVars, callback, registryVars>>

\* Catalog.Unpublish / Publish of one name, after the lock is released.  The
\* entry's discovered flag is read without the lock: another scan may have
\* cleared it, a start may have set it, and the entry may have been replaced.
Publish(p, s) ==
    /\ pc[p] = "publish"
    /\ \/ /\ scan[p][s] \in {"unpublish", "retract"}
          /\ catalogKV' = catalogKV \ {s}
       \/ /\ scan[p][s] = "publish" \/ (scan[p][s] = "recheck" /\ s \in discovered)
          /\ catalogKV' = catalogKV \cup {s}
       \/ /\ (scan[p][s] = "publish" /\ s \notin discovered) \/ scan[p][s] = "recheck"
          /\ UNCHANGED catalogKV
    /\ scan' = [scan EXCEPT ![p][s] = IF @ = "retract" THEN "recheck" ELSE "keep"]
    /\ UNCHANGED <<pc, op, svc, lp, why, rec, closing, diskVars, entryVars, sessions,
                   instVars, callback, registryVars>>

EndScan(p) ==
    /\ pc[p] = "publish"
    /\ \A s \in Services : scan[p][s] = "keep"
    /\ Goto(p, AfterScan(op[p]))
    /\ UNCHANGED <<procVars, diskVars, entryVars, catalogKV, sessions, instVars,
                   callback, registryVars>>

-----------------------------------------------------------------------------
(* Supervisor.StartByName and Loader.Load.                                 *)

MutantMayStart(s) == s \in discovered

\* Found by the last scan, and statusAllowsStart.
MayStart(s) == s \in discovered /\ status[s] \in {"discovered", "failed"}

BeginStart(p) ==
    /\ pc[p] = "start"
    /\ LET s == svc[p] IN
       IF MayStart(s)
       THEN /\ status' = [status EXCEPT ![s] = "starting"]
            /\ lp' = [lp EXCEPT ![p] = p]
            /\ why' = [why EXCEPT ![p] = None]
            /\ Goto(p, "backend")
       ELSE /\ Goto(p, "done")
            /\ UNCHANGED <<status, lp, why>>
    /\ UNCHANGED <<op, svc, scan, rec, closing, diskVars, discovered, loaded,
                   catalogKV, sessions, instVars, callback, registryVars>>

\* Everything before the backend runs may fail (checksum, parameters, archive,
\* identity); what was launched is unloaded before Load returns.
LaunchBackend(p) ==
    /\ pc[p] = "backend"
    /\ \/ alive' = alive \cup {lp[p]} /\ Goto(p, "attach") /\ UNCHANGED why
       \/ Goto(p, "settle") /\ why' = [why EXCEPT ![p] = "unload"] /\ UNCHANGED alive
    /\ UNCHANGED <<op, svc, lp, scan, rec, closing, diskVars, entryVars, catalogKV,
                   sessions, revision, callback, registryVars>>

MutantCanAttach(s) == TRUE
CanAttach(s) == sessions[s] = None

\* Controller.Attach refuses a second session for the name; the backend is then
\* closed without a Detach.  The host broker is started next, which may fail.
AttachInstance(p) ==
    /\ pc[p] = "attach"
    /\ callback = Idle
    /\ IF CanAttach(svc[p])
       THEN /\ sessions' = [sessions EXCEPT ![svc[p]] = lp[p]]
            /\ \/ Goto(p, "register") /\ UNCHANGED why
               \/ Goto(p, "detach") /\ why' = [why EXCEPT ![p] = "unload"]
       ELSE /\ Goto(p, "close")
            /\ why' = [why EXCEPT ![p] = "unload"]
            /\ UNCHANGED sessions
    /\ UNCHANGED <<op, svc, lp, scan, rec, closing, diskVars, entryVars, catalogKV,
                   instVars, callback, registryVars>>

\* A failed registration returns without unloading the backend.
MutantRegisterReturns(p) ==
    /\ pc[p] = "register"
    /\ \/ Goto(p, "finish") /\ UNCHANGED why
       \/ Goto(p, "settle") /\ why' = [why EXCEPT ![p] = "unload"]
    /\ UNCHANGED <<op, svc, lp, scan, rec, closing, diskVars, entryVars, catalogKV,
                   sessions, instVars, callback, registryVars>>

\* conn.Register returns, fails, times out, or answers with a wrong identity.
RegisterReturns(p) ==
    /\ pc[p] = "register"
    /\ \/ Goto(p, "finish") /\ UNCHANGED why
       \/ Goto(p, "cancel") /\ why' = [why EXCEPT ![p] = "unload"]
    /\ UNCHANGED <<op, svc, lp, scan, rec, closing, diskVars, entryVars, catalogKV,
                   sessions, instVars, callback, registryVars>>

\* finishStartSuccess, the critical section.  A missing entry is created empty.
FinishStart(p) ==
    /\ pc[p] = "finish"
    /\ LET s == svc[p] IN
       IF status[s] = "starting"
       THEN /\ status' = [status EXCEPT ![s] = "running"]
            /\ discovered' = discovered \cup {s}
            /\ loaded' = [loaded EXCEPT ![s] = lp[p]]
            /\ Goto(p, "snapshot")
            /\ UNCHANGED why
       ELSE /\ status' = [status EXCEPT ![s] = IF @ = "absent" THEN "discovered" ELSE @]
            /\ Goto(p, "cancel")
            /\ why' = [why EXCEPT ![p] = "abort"]
            /\ UNCHANGED <<discovered, loaded>>
    /\ UNCHANGED <<op, svc, lp, scan, rec, closing, diskVars, catalogKV, sessions,
                   instVars, callback, registryVars>>

\* registry.Add(lp.SnapshotRecord()) after the supervisor lock is released: the
\* snapshot, the record, the mirror.
Snapshot(p) ==
    /\ pc[p] = "snapshot"
    /\ rec' = [rec EXCEPT ![p] = Record(lp[p])]
    /\ Goto(p, "add")
    /\ UNCHANGED <<op, svc, lp, why, scan, closing, diskVars, entryVars, catalogKV,
                   sessions, instVars, callback, registryVars>>

AddRecord(p) ==
    /\ pc[p] = "add"
    /\ records' = [records EXCEPT ![svc[p]] = rec[p]]
    /\ Goto(p, "mirror")
    /\ UNCHANGED <<procVars, diskVars, entryVars, catalogKV, sessions, instVars,
                   callback, mirror>>

MirrorRecord(p) ==
    /\ pc[p] = "mirror"
    /\ mirror' = [mirror EXCEPT ![svc[p]] = rec[p]]
    /\ Goto(p, "done")
    /\ UNCHANGED <<procVars, diskVars, entryVars, catalogKV, sessions, instVars,
                   callback, records>>

-----------------------------------------------------------------------------
(* Supervisor.Stop, cleanupLoaded, and the failure paths of Loader.Load.   *)

BeginStop(p) ==
    /\ pc[p] = "stop"
    /\ LET s == svc[p] IN
       IF status[s] = "running" /\ loaded[s] # None
       THEN /\ lp' = [lp EXCEPT ![p] = loaded[s]]
            /\ loaded' = [loaded EXCEPT ![s] = None]
            /\ status' = [status EXCEPT ![s] = "stopping"]
            /\ why' = [why EXCEPT ![p] = "stop"]
            /\ Goto(p, "cancel")
       ELSE /\ Goto(p, "done")
            /\ UNCHANGED <<lp, loaded, status, why>>
    /\ UNCHANGED <<op, svc, scan, rec, closing, diskVars, discovered, catalogKV,
                   sessions, instVars, callback, registryVars>>

\* The cleanup goes on with the backend and leaves the bindings.
MutantRevoke(p) ==
    /\ pc[p] = "cancel"
    /\ Goto(p, "close")
    /\ UNCHANGED <<procVars, diskVars, entryVars, catalogKV, sessions, alive,
                   revision, callback, registryVars>>

\* Cancel and Revoke.  Neither stops the callbacks of a gRPC service, whose host
\* broker has no stop: ChangeBindings goes on until the backend is closed.
Revoke(p) ==
    /\ pc[p] = "cancel"
    /\ Goto(p, "detach")
    /\ UNCHANGED <<procVars, diskVars, entryVars, catalogKV, sessions, alive,
                   revision, callback, registryVars>>

\* Controller.Detach(name): by name, whichever instance is attached.  Load's own
\* failure paths never published, so they do not touch the registry.
DetachInstance(p) ==
    /\ pc[p] = "detach"
    /\ callback = Idle
    /\ sessions' = [sessions EXCEPT ![svc[p]] = None]
    /\ Goto(p, IF why[p] = "unload" THEN "close" ELSE "remove")
    /\ UNCHANGED <<procVars, diskVars, entryVars, catalogKV, instVars, callback,
                   registryVars>>

RemoveRecord(p) ==
    /\ pc[p] = "remove"
    /\ records' = [records EXCEPT ![svc[p]] = None]
    /\ Goto(p, "unmirror")
    /\ UNCHANGED <<procVars, diskVars, entryVars, catalogKV, sessions, instVars,
                   callback, mirror>>

UnmirrorRecord(p) ==
    /\ pc[p] = "unmirror"
    /\ mirror' = [mirror EXCEPT ![svc[p]] = None]
    /\ Goto(p, "close")
    /\ UNCHANGED <<procVars, diskVars, entryVars, catalogKV, sessions, instVars,
                   callback, records>>

\* Instance.Close: the backend is gone afterwards even when Close reports an
\* error, which only "stop" looks at.
CloseInstance(p) ==
    /\ pc[p] = "close"
    /\ alive' = alive \ {lp[p]}
    /\ \/ Goto(p, "settle")
       \/ why[p] = "stop" /\ Goto(p, "settle failed")
    /\ UNCHANGED <<procVars, diskVars, entryVars, catalogKV, sessions,
                   revision, callback, registryVars>>

\* finishStartFailure after a start, finishStop after a stop: each only if the
\* entry is still in the state the process left it in.
Settle(p) ==
    /\ pc[p] \in {"settle", "settle failed"}
    /\ LET s == svc[p]
           expected == IF why[p] = "stop" THEN "stopping" ELSE "starting"
           final == IF why[p] = "stop" /\ pc[p] = "settle" THEN "discovered" ELSE "failed"
       IN IF status[s] = expected
          THEN /\ status' = [status EXCEPT ![s] = final]
               /\ loaded' = [loaded EXCEPT ![s] = None]
          ELSE UNCHANGED <<status, loaded>>
    /\ Goto(p, IF p = Closer THEN "next"
               ELSE IF why[p] = "stop" /\ pc[p] = "settle" THEN AfterStop(op[p]) ELSE "done")
    /\ UNCHANGED <<procVars, diskVars, discovered, catalogKV, sessions, instVars,
                   callback, registryVars>>

-----------------------------------------------------------------------------
(* Supervisor.Close, run once http.Server.Shutdown has returned or timed   *)
(* out; requests in flight may still be running.                           *)

BeginClose ==
    /\ Shutdown /\ pc[Closer] = "idle"
    /\ op' = [op EXCEPT ![Closer] = "close"]
    /\ Goto(Closer, "close all")
    /\ UNCHANGED <<svc, lp, why, scan, rec, closing, diskVars, entryVars, catalogKV,
                   sessions, instVars, callback, registryVars>>

CloseAll ==
    /\ pc[Closer] = "close all"
    /\ closing' = loaded
    /\ loaded' = [s \in Services |-> None]
    /\ status' = [s \in Services |->
                    IF loaded[s] # None THEN "stopping"
                    ELSE IF status[s] = "starting" THEN "failed" ELSE status[s]]
    /\ Goto(Closer, "next")
    /\ UNCHANGED <<op, svc, lp, why, scan, rec, diskVars, discovered, catalogKV, sessions,
                   instVars, callback, registryVars>>

NextVictim ==
    /\ pc[Closer] = "next"
    /\ \E s \in Services :
         /\ closing[s] # None
         /\ closing' = [closing EXCEPT ![s] = None]
         /\ svc' = [svc EXCEPT ![Closer] = s]
         /\ lp' = [lp EXCEPT ![Closer] = closing[s]]
         /\ why' = [why EXCEPT ![Closer] = "stop"]
         /\ Goto(Closer, "cancel")
    /\ UNCHANGED <<op, scan, rec, diskVars, entryVars, catalogKV, sessions,
                   instVars, callback, registryVars>>

EndClose ==
    /\ pc[Closer] = "next"
    /\ \A s \in Services : closing[s] = None
    /\ Goto(Closer, "done")
    /\ UNCHANGED <<procVars, diskVars, entryVars, catalogKV, sessions, instVars,
                   callback, registryVars>>

-----------------------------------------------------------------------------
(* Host callbacks: a running backend changes its bindings.  The controller *)
(* holds its lock while it updates the instance's record and publishes it. *)
(* The caller is identified by name only, and Revoke does not stop it: the *)
(* stop function StartHostBroker returns does nothing.                     *)

ChangeBindings(i, s) ==
    /\ callback = Idle
    /\ i \in alive /\ svc[i] = s
    /\ sessions[s] # None
    /\ revision[sessions[s]] < MaxRevision
    /\ revision' = [revision EXCEPT ![sessions[s]] = @ + 1]
    /\ callback' = [at |-> "check", svc |-> s,
                    rec |-> [inst |-> sessions[s], rev |-> revision[sessions[s]] + 1]]
    /\ UNCHANGED <<pc, procVars, diskVars, entryVars, catalogKV, sessions, alive,
                   registryVars>>

PublishCheck ==
    /\ callback.at = "check"
    /\ callback' = IF records[callback.svc] # None
                   THEN [callback EXCEPT !.at = "add"] ELSE Idle
    /\ UNCHANGED <<pc, procVars, diskVars, entryVars, catalogKV, sessions,
                   instVars, registryVars>>

PublishAdd ==
    /\ callback.at = "add"
    /\ records' = [records EXCEPT ![callback.svc] = callback.rec]
    /\ callback' = [callback EXCEPT !.at = "mirror"]
    /\ UNCHANGED <<pc, procVars, diskVars, entryVars, catalogKV, sessions,
                   instVars, mirror>>

\* The controller's lock is not released.
MutantPublishMirror ==
    /\ callback.at = "mirror"
    /\ mirror' = [mirror EXCEPT ![callback.svc] = callback.rec]
    /\ UNCHANGED <<pc, procVars, diskVars, entryVars, catalogKV, sessions,
                   instVars, callback, records>>

PublishMirror ==
    /\ callback.at = "mirror"
    /\ mirror' = [mirror EXCEPT ![callback.svc] = callback.rec]
    /\ callback' = Idle
    /\ UNCHANGED <<pc, procVars, diskVars, entryVars, catalogKV, sessions,
                   instVars, records>>

-----------------------------------------------------------------------------

Init ==
    /\ pc = [p \in Procs |-> "idle"]
    /\ op = [p \in Procs |-> None]
    /\ svc = [p \in Procs |-> None]
    /\ lp = [p \in Procs |-> None]
    /\ why = [p \in Procs |-> None]
    /\ scan = [p \in Procs |-> [s \in Services |-> "keep"]]
    /\ rec = [p \in Procs |-> None]
    /\ closing = [s \in Services |-> None]
    /\ disk = Services
    /\ diskEdits = 0
    /\ status = [s \in Services |-> "absent"]
    /\ discovered = {}
    /\ loaded = [s \in Services |-> None]
    /\ catalogKV = {}
    /\ sessions = [s \in Services |-> None]
    /\ alive = {}
    /\ revision = [i \in Requests |-> 0]
    /\ callback = Idle
    /\ records = [s \in Services |-> None]
    /\ mirror = [s \in Services |-> None]

ScanStep(p) == Discover(p) \/ Merge(p) \/ (\E s \in Services : Publish(p, s)) \/ EndScan(p)

StartStep(p) ==
    \/ BeginStart(p) \/ LaunchBackend(p) \/ AttachInstance(p) \/ RegisterReturns(p)
    \/ FinishStart(p) \/ Snapshot(p) \/ AddRecord(p) \/ MirrorRecord(p)

StopStep(p) ==
    \/ BeginStop(p) \/ Revoke(p) \/ DetachInstance(p) \/ RemoveRecord(p)
    \/ UnmirrorRecord(p) \/ CloseInstance(p) \/ Settle(p)

Work(p) == ScanStep(p) \/ StartStep(p) \/ StopStep(p)
CloserWork == CloseAll \/ NextVictim \/ EndClose \/ StopStep(Closer)
CallbackWork == PublishCheck \/ PublishAdd \/ PublishMirror

Next ==
    \/ \E s \in Services : EditDisk(s)
    \/ \E p \in Requests, o \in {"scan", "start", "stop", "restart"}, s \in Services :
         Accept(p, o, s)
    \/ \E p \in Requests : Work(p)
    \/ BeginClose \/ CloserWork
    \/ \E i \in Requests, s \in Services : ChangeBindings(i, s)
    \/ CallbackWork

Spec == Init /\ [][Next]_vars

\* Every goroutine keeps running and every call it waits for returns: the
\* register call has a timeout, the others are bounded local work.
FairSpec ==
    /\ Spec
    /\ \A p \in Requests : WF_vars(Work(p))
    /\ WF_vars(CloserWork)
    /\ WF_vars(CallbackWork)

-----------------------------------------------------------------------------
(* Properties.                                                             *)

Optional(S) == S \cup {None}

\* The type invariant of the supervisor, the registries and the processes.
TypeOK ==
    /\ pc \in [Procs -> Labels]
    /\ op \in [Procs -> Optional(Operations)]
    /\ svc \in [Procs -> Optional(Services)]
    /\ lp \in [Procs -> Optional(Requests)]
    /\ why \in [Procs -> Optional(Reasons)]
    /\ scan \in [Procs -> [Services -> Marks]]
    /\ rec \in [Procs -> Optional(ServiceRecord)]
    /\ closing \in [Services -> Optional(Requests)]
    /\ disk \subseteq Services
    /\ diskEdits \in 0 .. MaxDiskEdits
    /\ status \in [Services -> Statuses]
    /\ discovered \subseteq Services
    /\ loaded \in [Services -> Optional(Requests)]
    /\ catalogKV \subseteq Services
    /\ sessions \in [Services -> Optional(Requests)]
    /\ alive \subseteq Requests
    /\ revision \in [Requests -> 0 .. MaxRevision]
    /\ callback \in [at : {"idle", "check", "add", "mirror"},
                     svc : Optional(Services), rec : Optional(ServiceRecord)]
    /\ records \in [Services -> Optional(ServiceRecord)]
    /\ mirror \in [Services -> Optional(ServiceRecord)]

\* p is between launching or taking over an instance and disposing of it.
Starting(p) == pc[p] \in {"backend", "attach", "register", "finish"}
Cleaning(p) == pc[p] \in {"cancel", "detach", "remove", "unmirror", "close"}
Settling(p) == pc[p] \in {"settle", "settle failed"}

\* i is attached to the controller as long as its owner can still detach it.
MustBeAttached(p) == pc[p] \in {"register", "finish", "cancel", "detach"}

\* Controller.Detach takes a name, not an instance.  A cleanup nevertheless
\* finds the instance it set out to unload, never the one of a start that began
\* in the meantime (cleanupLoaded, Loader.Load's failure paths).
CleanupOwnsSession ==
    \A p \in Procs : MustBeAttached(p) => sessions[svc[p]] = lp[p]

\* The instance the supervisor hands to a message or a stop is attached and its
\* backend runs; the bindings of a loaded service are never torn down under it.
LoadedIsAttached ==
    \A s \in Services :
        loaded[s] # None => /\ sessions[s] = loaded[s]
                            /\ loaded[s] \in alive
                            /\ status[s] = "running"

\* A backend process is always on the way to its unload: it is loaded, or Close
\* has it on its list, or one process holds it.  No failure path of a start, a
\* stop or a shutdown forgets one.
NoBackendForgotten ==
    \A i \in alive :
        \/ loaded[svc[i]] = i \/ closing[svc[i]] = i
        \/ \E p \in Procs : lp[p] = i /\ (Starting(p) \/ Cleaning(p))

\* No service has two backends at a time: a restart and a start after a stop
\* launch the new one once the old one is gone.  Only without a shutdown: Close
\* marks services failed whose start is still in flight.
OneBackendPerService ==
    \A i, j \in alive : svc[i] = svc[j] => i = j

\* An entry is starting or stopping only while exactly one process is working on
\* it, so no service is stuck in a state from which neither Start nor Stop is
\* accepted, and no process settles the state another one entered.
TransitionHasOneWorker ==
    \A s \in Services : status[s] \in {"starting", "stopping"} =>
        \E p \in Procs :
            /\ svc[p] = s /\ (Starting(p) \/ Cleaning(p) \/ Settling(p))
            /\ (status[s] = "stopping") <=> (why[p] = "stop")
            /\ \A q \in Procs \ {p} :
                  svc[q] = s => ~(Starting(q) \/ Cleaning(q) \/ Settling(q))

Quiescent == callback = Idle /\ \A p \in Procs : pc[p] \in {"idle", "done"}

\* registry.go: "the read model of running services"; types.go: a record is "the
\* externally visible projection of a running service".  When no operation is in
\* progress, the registry has the running services, each with the bindings its
\* instance has.
RecordIsProjection ==
    Quiescent => \A s \in Services :
        records[s] = IF loaded[s] = None THEN None ELSE Record(loaded[s])

\* manager.go: "Close unloads all services".
CloseUnloadsAll == pc[Closer] = "done" => alive = {}

\* Every request and the shutdown come to an end, whatever runs beside them.
EveryOperationEnds == \A p \in Procs : (pc[p] # "idle") ~> (pc[p] = "done")

Life == INSTANCE ServiceLife WITH
    state <- [s \in Services |->
                IF status[s] \in {"absent", "discovered", "failed"} THEN "stopped"
                ELSE status[s]],
    up <- {svc[i] : i \in alive},
    bound <- {s \in Services : sessions[s] # None}

\* Without a shutdown, each service lives the life ServiceLife describes however
\* requests, scans and failures interleave: an entry in transition is not lost to
\* a scan, no backend is launched beside another, and bindings are removed before
\* their backend ends (docs/service-architecture.md: "so dead bindings cannot
\* remain").
ImplementsLife == Life!Spec

=============================================================================
