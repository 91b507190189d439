-------------------------------- MODULE Conf --------------------------------
(***************************************************************************)
(* The configuration store (package conf) of one process: the file, the    *)
(* effective configuration in memory, and the transaction that edits both. *)
(*                                                                         *)
(* configState.mu is held by one operation at a time, so its steps only    *)
(* interleave with other writers of the file (an administrator's editor,   *)
(* the "user" command of another process) and with a crash.                *)
(*                                                                         *)
(* A configuration has a flat map (`groups', which stands for Users,       *)
(* Groups, Route.Allow and Pages, edited by the same code) and a nested one*)
(* (`services', each with a scalar, its checksum, and a map of params).    *)
(* The fields held by value (Listen, TLS, Log, API, directories) are copied*)
(* with the struct and behave as `checksum' does.  Maps are Go references: *)
(* the editor starts out sharing those of the effective configuration and  *)
(* clones a map before its first write.                                    *)
(***************************************************************************)
EXTENDS Naturals, Sequences, FiniteSets, SequencesExt

CONSTANTS
    GroupNames, Users, ServiceNames, Keys, Values,
    Lists,        \* the lists of users a group may have, as sets
    Checksums,    \* checksum strings, "" for none
    BadChecksums, \* those SHA256Checksum rejects
    Transactions, \* sequence of the transactions requests may ask for
    Patches,      \* the patches of params that requests may ask for
    Resolves,     \* what a param's value stands for: itself, or the variable of
                  \* the environment it names, None if that is required and unset
    ForeignFiles, \* what other writers may leave in the file
    MaxEdits,     \* bound on the writes of others
    Missing,      \* the file does not exist
    Broken,       \* it cannot be read or decoded, or is not valid
    Nil,          \* a nil map or slice
    None          \* an absent map entry

ASSUME ValueAssumption ==
    /\ IsFiniteSet(Keys)
    /\ "" \in Checksums \ BadChecksums
    /\ "" \notin Keys /\ "default" \in ServiceNames
    /\ Patches \subseteq [from: {"service", "api"}, name: ServiceNames,
                          delete: Seq(Keys \cup {""}), set: [Keys -> Values \cup {None}]]
    /\ Resolves \in [Values -> Values \cup {"", None}]
    /\ Lists \subseteq SUBSET Users
    /\ ServiceNames \cap {"groups", "services"} = {}
    /\ MaxEdits \in Nat

-----------------------------------------------------------------------------
(* Configurations as values: what a file says.                             *)

Groups == [GroupNames -> Lists \cup {None}]
Params == [Keys -> Values \cup {None}]
Service == [checksum: Checksums, params: Params \cup {Nil}]
Config == [groups: Groups \cup {Nil},
           services: [ServiceNames -> Service \cup {None}] \cup {Nil}]

NoGroups == [g \in GroupNames |-> None]
NoServices == [s \in ServiceNames |-> None]
NoParams == [k \in Keys |-> None]
NoService == [checksum |-> "", params |-> Nil]
Defaults == [groups |-> Nil, services |-> Nil]

\* validateConfig
ValidConfig(c) ==
    c.services # Nil => \A s \in ServiceNames :
        c.services[s] # None => c.services[s].checksum \notin BadChecksums

\* A file that others leave is a valid configuration, unless it is missing or
\* broken.
ASSUME FileAssumption ==
    \A content \in ForeignFiles :
        content \in {Missing, Broken} \/ (content \in Config /\ ValidConfig(content))

\* readConfigLocked and decodeConfig succeed
Decodes(content) == content \notin {Missing, Broken}

\* The groups of each user, without the users that have none.
indexGroupsByUser(groups) ==
    [u \in Users |-> IF groups = Nil THEN {}
                     ELSE {g \in GroupNames : groups[g] # None /\ u \in groups[g]}]

-----------------------------------------------------------------------------
(* Memory.  A reference is Nil or the number of a cell of its map's kind;  *)
(* the params of a service have cells of their own.  At most two references*)
(* to a kind are live, the effective one and the editor's, so of three     *)
(* cells one is free.                                                      *)

Cells == 0 .. 2
Ref == Cells \cup {Nil}
Root == [groups: Ref, services: Ref]

Memory ==
    [cur: Root, next: Root,
     owned: SUBSET ({"groups", "services"} \cup ServiceNames),
     groups: [Cells -> Groups],
     services: [Cells -> [ServiceNames -> [checksum: Checksums, params: Ref] \cup {None}]],
     params: [ServiceNames -> [Cells -> Params]]]

\* What is absent is none of what may be there.
ASSUME AbsentAssumption ==
    /\ Nil \notin Cells
    /\ Nil \notin Groups /\ Nil \notin [ServiceNames -> Service \cup {None}]
    /\ Nil \notin Params /\ Nil \notin Config
    /\ None \notin Lists /\ None \notin Values /\ Nil \notin Values
    /\ None \notin Service /\ None \notin [checksum: Checksums, params: Ref]
    /\ Missing \notin Config /\ Broken \notin Config
    /\ None \notin Patches

Fresh(inUse) == CHOOSE c \in Cells : c \notin inUse

\* The params a root's service refers to.
ParamsRef(m, root, s) ==
    IF root.services = Nil \/ m.services[root.services][s] = None THEN Nil
    ELSE m.services[root.services][s].params

FreshGroups(m) == Fresh({m.cur.groups, m.next.groups})
FreshServices(m) == Fresh({m.cur.services, m.next.services})
FreshParams(m, s) == Fresh({ParamsRef(m, m.cur, s), ParamsRef(m, m.next, s)})

\* The configuration a root stands for.
Deep(m, root) ==
    [groups |-> IF root.groups = Nil THEN Nil ELSE m.groups[root.groups],
     services |->
        IF root.services = Nil THEN Nil
        ELSE [s \in ServiceNames |->
                IF m.services[root.services][s] = None THEN None
                ELSE LET ref == m.services[root.services][s].params
                     IN [checksum |-> m.services[root.services][s].checksum,
                         params |-> IF ref = Nil THEN Nil ELSE m.params[s][ref]]]]

\* A service whose params are in cell c.
Boxed(service, c) ==
    [checksum |-> service.checksum, params |-> IF service.params = Nil THEN Nil ELSE c]

\* Memory that holds nothing but c: what is left once everything unreachable has
\* been collected, up to the choice of cells.
Holding(c) ==
    LET root == [groups |-> IF c.groups = Nil THEN Nil ELSE 0,
                 services |-> IF c.services = Nil THEN Nil ELSE 0]
    IN [cur |-> root, next |-> root, owned |-> {},
        groups |-> [i \in Cells |-> IF i = 0 /\ c.groups # Nil THEN c.groups ELSE NoGroups],
        services |-> [i \in Cells |->
            IF i = 0 /\ c.services # Nil
            THEN [s \in ServiceNames |->
                    IF c.services[s] = None THEN None ELSE Boxed(c.services[s], 0)]
            ELSE NoServices],
        params |-> [s \in ServiceNames |-> [i \in Cells |->
            IF /\ i = 0 /\ c.services # Nil
               /\ c.services[s] # None /\ c.services[s].params # Nil
            THEN c.services[s].params ELSE NoParams]]]

-----------------------------------------------------------------------------
(* The editor.  An operation sets or removes what its `target' names: all  *)
(* groups or services, one of them, or a field of a service.               *)

IsOperation(op) ==
    /\ op.type \in {"set", "remove"}
    /\ op.target \in {"groups", "group", "services", "service", "checksum", "params", "param"}
    /\ op.target = "group" => op.name \in GroupNames
    /\ op.target \in {"service", "checksum", "params", "param"} => op.name \in ServiceNames
    /\ op.target = "param" => op.key \in Keys \cup {""}
    /\ (op.type = "set" /\ op.value # Nil) =>
          /\ op.target = "groups" => op.value \in Groups
          /\ op.target = "group" => op.value \in Lists
          /\ op.target = "services" => op.value \in [ServiceNames -> Service \cup {None}]
          /\ op.target = "service" => op.value \in Service
          /\ op.target = "checksum" => op.value \in Checksums
          /\ op.target = "params" => op.value \in Params
          /\ op.target = "param" => op.value \in Values

\* A finite sequence of operations.
IsTransaction(t) ==
    /\ Len(t) \in Nat
    /\ t = [i \in 1 .. Len(t) |-> t[i]]
    /\ \A i \in 1 .. Len(t) : IsOperation(t[i])

ASSUME TransactionAssumption == \A i \in DOMAIN Transactions : IsTransaction(Transactions[i])

\* Clone the groups unless the editor owns them already, or make them.
ensureGroups(m) ==
    IF "groups" \in m.owned /\ m.next.groups # Nil THEN m
    ELSE LET c == FreshGroups(m)
         IN [m EXCEPT !.next.groups = c,
                      !.owned = @ \cup {"groups"},
                      !.groups[c] = IF m.next.groups = Nil THEN NoGroups
                                    ELSE m.groups[m.next.groups]]

\* cloneServicesShallow: the params of every service stay shared.
ensureServices(m) ==
    IF "services" \in m.owned /\ m.next.services # Nil THEN m
    ELSE LET c == FreshServices(m)
         IN [m EXCEPT !.next.services = c,
                      !.owned = @ \cup {"services"},
                      !.services[c] = IF m.next.services = Nil THEN NoServices
                                      ELSE m.services[m.next.services]]

applyGroups(m, op) ==
    IF op.target = "groups"
    THEN IF op.type = "remove"
         THEN [m EXCEPT !.next.groups = Nil, !.owned = @ \cup {"groups"}]
         ELSE LET c == FreshGroups(m)
              IN [m EXCEPT !.next.groups = c, !.owned = @ \cup {"groups"},
                           !.groups[c] = op.value]
    ELSE IF /\ op.type = "remove"
            /\ m.next.groups = Nil \/ m.groups[m.next.groups][op.name] = None
    THEN m
    ELSE LET e == ensureGroups(m)
         IN [e EXCEPT !.groups[e.next.groups][op.name] =
                        IF op.type = "remove" THEN None ELSE op.value]

HasService(m, s) == m.next.services # Nil /\ m.services[m.next.services][s] # None

\* The service map is replaced; every service of the new one is a deep copy.
replaceServices(m, op) ==
    IF op.type = "remove"
    THEN [m EXCEPT !.next.services = Nil, !.owned = {"services"} \cup (@ \cap {"groups"})]
    ELSE LET c == FreshServices(m)
         IN [m EXCEPT
               !.next.services = c,
               !.owned = {"services"} \cup (@ \cap {"groups"})
                           \cup {s \in ServiceNames : op.value[s] # None},
               !.services[c] = [s \in ServiceNames |->
                   IF op.value[s] = None THEN None
                   ELSE Boxed(op.value[s], FreshParams(m, s))],
               !.params = [s \in ServiceNames |->
                   IF op.value[s] = None \/ op.value[s].params = Nil THEN @[s]
                   ELSE [@[s] EXCEPT ![FreshParams(m, s)] = op.value[s].params]]]

\* One service is replaced by a deep copy, or deleted.
replaceService(m, op) ==
    LET e == ensureServices(m)
        c == FreshParams(m, op.name)
    IN IF op.type = "remove"
       THEN [e EXCEPT !.services[e.next.services][op.name] = None,
                      !.owned = @ \ {op.name}]
       ELSE [e EXCEPT !.services[e.next.services][op.name] = Boxed(op.value, c),
                      !.params[op.name] = IF op.value.params = Nil THEN @
                                          ELSE [@ EXCEPT ![c] = op.value.params],
                      !.owned = @ \cup {op.name}]

\* The service an operation on a field works on: a zero one if there is none.
FieldOwner(m, s) ==
    IF HasService(m, s) THEN m.services[m.next.services][s]
    ELSE [checksum |-> "", params |-> Nil]

applyChecksum(m, op) ==
    LET e == ensureServices(m)
    IN [e EXCEPT !.services[e.next.services][op.name] =
          [FieldOwner(e, op.name) EXCEPT
             !.checksum = IF op.type = "remove" THEN "" ELSE op.value]]

\* All params of a service.
replaceParams(m, op) ==
    LET e == ensureServices(m)
        c == FreshParams(m, op.name)
    IN [e EXCEPT !.services[e.next.services][op.name] =
                    [FieldOwner(e, op.name) EXCEPT
                       !.params = IF op.type = "remove" THEN Nil ELSE c],
                 !.params[op.name][c] = IF op.type = "remove" THEN @ ELSE op.value,
                 !.owned = @ \cup {op.name}]

\* The params of a service are shared after a shallow clone; the flag that the
\* editor owns them is forgotten.
MutantSharedParams(m, op) ==
    LET e == ensureServices(m)
        ref == FieldOwner(e, op.name).params
        c == IF ref = Nil THEN FreshParams(m, op.name) ELSE ref
    IN [e EXCEPT !.services[e.next.services][op.name] =
                    [FieldOwner(e, op.name) EXCEPT !.params = c],
                 !.params[op.name][c] =
                    [(IF ref = Nil THEN NoParams ELSE e.params[op.name][ref]) EXCEPT
                        ![op.key] = IF op.type = "remove" THEN None ELSE op.value]]

\* One of the params: they are cloned unless the editor owns them.
applyParam(m, op) ==
    LET e == ensureServices(m)
        ref == FieldOwner(e, op.name).params
        c == IF ref # Nil /\ op.name \in m.owned THEN ref ELSE FreshParams(m, op.name)
    IN IF op.type = "remove" /\ (ref = Nil \/ e.params[op.name][ref][op.key] = None)
       THEN e
       ELSE [e EXCEPT !.services[e.next.services][op.name] =
                         [FieldOwner(e, op.name) EXCEPT !.params = c],
                      !.params[op.name][c] =
                         [(IF ref = Nil THEN NoParams ELSE e.params[op.name][ref]) EXCEPT
                             ![op.key] = IF op.type = "remove" THEN None ELSE op.value],
                      !.owned = @ \cup {op.name}]

\* Removing what a missing service would contain changes nothing.
applyServices(m, op) ==
    CASE op.target = "services" -> replaceServices(m, op)
      [] op.target # "services" /\ op.type = "remove" /\ ~HasService(m, op.name) -> m
      [] OTHER -> CASE op.target = "service" -> replaceService(m, op)
                    [] op.target = "checksum" -> applyChecksum(m, op)
                    [] op.target = "params" -> replaceParams(m, op)
                    [] op.target = "param" -> applyParam(m, op)

apply(m, op) ==
    IF op.target \in {"groups", "group"} THEN applyGroups(m, op) ELSE applyServices(m, op)

MutantAcceptNil(op) == FALSE
RefusesNil(op) == op.type = "set" /\ op.value = Nil

\* A key may be empty, which the pointer syntax allows and the editor refuses
\* unless there is nothing to remove.
RefusesPath(m, op) ==
    op.target = "param" /\ op.key = "" /\ (op.type = "set" \/ HasService(m, op.name))

-----------------------------------------------------------------------------
(* The document: the same operation on the values a file holds, which is   *)
(* what the library's edit of a parsed document amounts to.                *)

Entry(map, empty) == IF map = Nil THEN empty ELSE map

EditService(service, op) ==
    LET old == IF service = None THEN NoService ELSE service
    IN CASE op.target = "service" -> IF op.type = "set" THEN op.value ELSE None
         [] op.target = "checksum" ->
              [old EXCEPT !.checksum = IF op.type = "set" THEN op.value ELSE ""]
         [] op.target = "params" ->
              [old EXCEPT !.params = IF op.type = "set" THEN op.value ELSE Nil]
         [] op.target = "param" /\ op.type = "set" ->
              [old EXCEPT !.params = [Entry(@, NoParams) EXCEPT ![op.key] = op.value]]
         [] op.target = "param" /\ op.type = "remove" ->
              [old EXCEPT !.params = IF @ = Nil THEN Nil ELSE [@ EXCEPT ![op.key] = None]]

EditDocument(c, op) ==
    CASE op.target \in {"groups", "services"} ->
           [c EXCEPT ![op.target] = IF op.type = "set" THEN op.value ELSE Nil]
      [] op.target = "group" ->
           IF op.type = "set"
           THEN [c EXCEPT !.groups = [Entry(@, NoGroups) EXCEPT ![op.name] = op.value]]
           ELSE [c EXCEPT !.groups = IF @ = Nil THEN Nil ELSE [@ EXCEPT ![op.name] = None]]
      [] OTHER ->
           IF op.type = "remove" /\ (c.services = Nil \/ c.services[op.name] = None)
           THEN c
           ELSE LET services == Entry(c.services, NoServices)
                IN [c EXCEPT !.services = [services EXCEPT
                      ![op.name] = EditService(services[op.name], op)]]

\* The operations of a transaction in order.
EditAll(c, t) ==
    LET after[n \in 0 .. Len(t)] ==
          IF n = 0 THEN c ELSE EditDocument(after[n - 1], t[n])
    IN after[Len(t)]

MutantStartEditor(m, current, decoded) == [m EXCEPT !.next = m.cur, !.owned = {}]

\* newEditor: the candidate shares the maps in force, or has those just decoded,
\* which no one else refers to.
StartEditor(m, current, decoded) ==
    IF current = decoded THEN [m EXCEPT !.next = m.cur, !.owned = {}]
    ELSE [m EXCEPT
            !.next = [groups |-> IF decoded.groups = Nil THEN Nil ELSE 1,
                      services |-> IF decoded.services = Nil THEN Nil ELSE 1],
            !.owned = {},
            !.groups[1] = Entry(decoded.groups, NoGroups),
            !.services[1] = IF decoded.services = Nil THEN NoServices
                            ELSE [s \in ServiceNames |->
                                    IF decoded.services[s] = None THEN None
                                    ELSE Boxed(decoded.services[s], 1)],
            !.params = [s \in ServiceNames |->
                IF decoded.services = Nil THEN @[s]
                ELSE IF decoded.services[s] = None THEN @[s]
                ELSE [@[s] EXCEPT ![1] = Entry(decoded.services[s].params, NoParams)]]]

-----------------------------------------------------------------------------
(* The requests of the management API and of the services, and the         *)
(* operations they are turned into.                                        *)

Op(type, target, name, key, value) ==
    [type |-> type, target |-> target, name |-> name, key |-> key, value |-> value]

\* append([]string(nil), list...), which the handlers use to copy a list.
SliceCopy(list) == IF list = {} THEN Nil ELSE list

handlePutGroup(g, list) == <<Op("set", "group", g, "", SliceCopy(list))>>
handleDeleteGroup(g) == <<Op("remove", "group", g, "", Nil)>>

\* A blank or null field is removed.
handlePatchServiceEntryConfig(s, checksum) ==
    <<IF checksum \in {"", Nil} THEN Op("remove", "checksum", s, "", Nil)
      ELSE Op("set", "checksum", s, "", checksum)>>
handleDeleteServiceEntryConfig(s) == <<Op("remove", "service", s, "", Nil)>>

Deletes(p) ==
    [i \in DOMAIN p.delete |-> Op("remove", "param", p.name, p.delete[i], Nil)]

\* In any order: they come from a Go map.
Sets(p) ==
    LET keys == {k \in Keys : p.set[k] # None}
    IN {[i \in DOMAIN order |-> Op("set", "param", p.name, order[i], p.set[order[i]])] :
          order \in SetToSeqs(keys)}

\* The values are set first.
MutantPatchOperations(p) == {sets \o Deletes(p) : sets \in Sets(p)}

PatchOperations(p) == {Deletes(p) \o sets : sets \in Sets(p)}

\* A service may not patch "default"; the API refuses a patch that says nothing.
MayPatch(p, t) == IF p.from = "service" THEN p.name # "default" ELSE t # <<>>

\* The service a configuration has under a name, if any.
Configured(c, s) == IF c.services = Nil THEN None ELSE c.services[s]

ParamsOf(service) ==
    IF service = None THEN NoParams ELSE Entry(service.params, NoParams)

\* What the override says wins, param by param.
mergeServiceConfig(base, override) ==
    [checksum |-> IF override.checksum # "" THEN override.checksum ELSE base.checksum,
     params |-> [k \in Keys |->
                   IF ParamsOf(override)[k] # None THEN ParamsOf(override)[k]
                   ELSE ParamsOf(base)[k]]]

\* The service's configuration laid over that of "default", read together.
currentServiceConfig(c, s) ==
    LET base == IF Configured(c, "default") = None THEN NoService
                ELSE Configured(c, "default")
    IN mergeServiceConfig(base, IF s # "default" /\ Configured(c, s) # None
                                THEN Configured(c, s) ELSE NoService)

\* Nil, an error, if a required variable is not set.
ResolveParams(params) ==
    IF \E k \in Keys : params[k] # None /\ Resolves[params[k]] = None THEN Nil
    ELSE [k \in Keys |-> IF params[k] = None THEN None ELSE Resolves[params[k]]]

GetServiceParams(c, s) == ResolveParams(currentServiceConfig(c, s).params)

-----------------------------------------------------------------------------

VARIABLES
    pc,      \* where the operation that holds configState.mu is
    path,    \* whether configState.path is set
    file,    \* what the file holds
    edits,   \* number of writes by others (bounded)
    mem,     \* the maps of configState.current and of the editor
    index,   \* configState.groupsByUser
    patch,   \* the patch that asked for the transaction, if one did
    txn,     \* the operations of the transaction
    todo,    \* those not applied yet
    source,  \* what the transaction read from the file
    doc,     \* the edited document
    outcome, \* how the last operation ended
    foreign  \* whether others wrote since the last time this process read or
             \* wrote the file

txnVars == <<patch, txn, todo, source, doc>>
vars == <<pc, path, file, edits, mem, index, txnVars, outcome, foreign>>

\* The configuration in force: configState.current.
Effective == Deep(mem, mem.cur)
Candidate == Deep(mem, mem.next)

\* publishLocked
publishLocked(c) ==
    /\ mem' = Holding(c)
    /\ index' = indexGroupsByUser(c.groups)

EndTransaction ==
    patch' = None /\ txn' = <<>> /\ todo' = <<>> /\ source' = Nil /\ doc' = Nil

\* An operation returns without publishing.
Return(result) ==
    /\ pc' = "idle"
    /\ outcome' = result
    /\ mem' = Holding(Effective)
    /\ EndTransaction

-----------------------------------------------------------------------------
(* The environment.                                                        *)

\* Another writer replaces or removes the file.
WriteFile(content) ==
    /\ edits < MaxEdits
    /\ file # content
    /\ file' = content
    /\ edits' = edits + 1
    /\ foreign' = TRUE
    /\ UNCHANGED <<pc, path, mem, index, txnVars, outcome>>

\* The process ends, in whatever step it is, and only the file is left.
Crash ==
    /\ pc # "down"
    /\ pc' = "down"
    /\ path' = FALSE
    /\ mem' = Holding(Defaults)
    /\ index' = indexGroupsByUser(Nil)
    /\ EndTransaction
    /\ outcome' = "none"
    /\ UNCHANGED <<file, edits, foreign>>

-----------------------------------------------------------------------------
(* LoadConfig, called once when the process starts.  When it fails, the    *)
(* path is what it was before: not set.                                    *)

\* os.Stat
StatFile ==
    /\ pc = "down"
    /\ pc' = IF file = Missing THEN "create" ELSE "load"
    /\ UNCHANGED <<path, file, edits, mem, index, txnVars, outcome, foreign>>

\* O_CREATE|O_EXCL; a file that has appeared in the meantime is loaded.
CreateFile ==
    /\ pc = "create"
    /\ \/ /\ file = Missing
          /\ file' = Defaults
          /\ publishLocked(Defaults)
          /\ pc' = "idle" /\ path' = TRUE /\ outcome' = "ok" /\ foreign' = FALSE
       \/ /\ file # Missing
          /\ pc' = "load"
          /\ UNCHANGED <<path, file, mem, index, outcome, foreign>>
       \/ /\ pc' = "idle" /\ outcome' = "error"  \* it cannot be created
          /\ UNCHANGED <<path, file, mem, index, foreign>>
    /\ UNCHANGED <<edits, txnVars>>

\* reloadLocked with the path selected
LoadFile ==
    /\ pc = "load"
    /\ pc' = "idle"
    /\ IF Decodes(file)
       THEN /\ publishLocked(file)
            /\ path' = TRUE /\ outcome' = "ok" /\ foreign' = FALSE
       ELSE outcome' = "error" /\ UNCHANGED <<path, mem, index, foreign>>
    /\ UNCHANGED <<file, edits, txnVars>>

ReadFailure == IF path THEN "error" ELSE "no_path"

Reload ==
    /\ pc = "idle"
    /\ IF path /\ Decodes(file)
       THEN publishLocked(file) /\ outcome' = "ok" /\ foreign' = FALSE
       ELSE outcome' = ReadFailure /\ UNCHANGED <<mem, index, foreign>>
    /\ UNCHANGED <<pc, path, file, edits, txnVars>>

-----------------------------------------------------------------------------
(* Update.                                                                 *)

\* The file is read and decoded.  The editor starts from the effective maps if
\* they equal the decoded ones, else from the decoded ones.
BeginUpdate(t, p) ==
    /\ pc = "idle"
    /\ IF path /\ Decodes(file)
       THEN /\ pc' = "edit"
            /\ patch' = p /\ txn' = t /\ todo' = t /\ source' = file /\ doc' = file
            /\ outcome' = "none"
            /\ foreign' = FALSE
            /\ mem' = StartEditor(mem, Effective, file)
       ELSE Return(ReadFailure) /\ UNCHANGED foreign
    /\ UNCHANGED <<path, file, edits, index>>

BeginPatch(p) ==
    \E t \in PatchOperations(p) : MayPatch(p, t) /\ BeginUpdate(t, p)

\* An operation is applied to the editor and to the document.  The library may
\* refuse the edit, and is not trusted to have made it.
ApplyOperation ==
    /\ pc = "edit" /\ todo # <<>>
    /\ LET op == Head(todo)
       IN IF RefusesNil(op) \/ RefusesPath(mem, op) THEN Return("error")
          ELSE \/ /\ mem' = apply(mem, op)
                  /\ doc' \in {EditDocument(doc, op), doc}
                  /\ todo' = Tail(todo)
                  /\ UNCHANGED <<pc, patch, txn, source, outcome>>
               \/ Return("error")
    /\ UNCHANGED <<path, file, edits, index, foreign>>

\* The document is trusted.
MutantUnchecked ==
    /\ pc = "edit" /\ todo = <<>>
    /\ pc' = "persist"
    /\ UNCHANGED <<mem, txnVars, outcome, path, file, edits, index, foreign>>
\* Validation is left to the next load.
MutantUnvalidated ==
    /\ pc = "edit" /\ todo = <<>>
    /\ IF Candidate = doc
       THEN pc' = "persist" /\ UNCHANGED <<mem, txnVars, outcome>>
       ELSE Return("error")
    /\ UNCHANGED <<path, file, edits, index, foreign>>

\* Both results must be valid and equal.  A document that says the same may
\* still differ in its bytes.
Validate ==
    /\ pc = "edit" /\ todo = <<>>
    /\ IF ValidConfig(Candidate) /\ Candidate = doc
       THEN /\ \/ pc' = "persist"
               \/ doc = source /\ pc' = "publish"
            /\ UNCHANGED <<mem, txnVars, outcome>>
       ELSE Return("error")
    /\ UNCHANGED <<path, file, edits, index, foreign>>

\* persistLocked: the file is replaced atomically or not at all.
Persist ==
    /\ pc = "persist"
    /\ \/ /\ file' = doc
          /\ foreign' = FALSE
          /\ pc' = "publish"
          /\ UNCHANGED <<mem, txnVars, outcome>>
       \/ Return("error") /\ UNCHANGED <<file, foreign>>
    /\ UNCHANGED <<path, edits, index>>

\* What others wrote before the transaction is persistent but not in force.
MutantPublishEdits ==
    /\ pc = "publish"
    /\ IF doc = source
       THEN mem' = Holding(Effective) /\ UNCHANGED index
       ELSE publishLocked(Candidate)
    /\ pc' = "idle" /\ outcome' = "ok"
    /\ EndTransaction
    /\ UNCHANGED <<path, file, edits, foreign>>

\* A candidate equal to what is in force is not published.
EndUpdate ==
    /\ pc = "publish"
    /\ IF Effective = Candidate
       THEN mem' = Holding(Effective) /\ UNCHANGED index
       ELSE publishLocked(Candidate)
    /\ pc' = "idle" /\ outcome' = "ok"
    /\ EndTransaction
    /\ UNCHANGED <<path, file, edits, foreign>>

-----------------------------------------------------------------------------

Init ==
    /\ pc = "down"
    /\ path = FALSE
    /\ file \in ForeignFiles
    /\ edits = 0
    /\ mem = Holding(Defaults)
    /\ index = indexGroupsByUser(Nil)
    /\ patch = None /\ txn = <<>> /\ todo = <<>> /\ source = Nil /\ doc = Nil
    /\ outcome = "none"
    /\ foreign = FALSE

Update ==
    \/ \E i \in DOMAIN Transactions : BeginUpdate(Transactions[i], None)
    \/ \E p \in Patches : BeginPatch(p)
    \/ ApplyOperation \/ Validate \/ Persist \/ EndUpdate

Next ==
    \/ \E content \in ForeignFiles : WriteFile(content)
    \/ Crash
    \/ StatFile \/ CreateFile \/ LoadFile
    \/ Reload
    \/ Update

Spec == Init /\ [][Next]_vars

-----------------------------------------------------------------------------
(* Properties.                                                             *)

\* The shape of the file, of the memory and of a transaction.
TypeOK ==
    /\ pc \in {"down", "create", "load", "idle", "edit", "persist", "publish"}
    /\ path \in BOOLEAN
    /\ file \in Config \cup {Missing, Broken}
    /\ edits \in 0 .. MaxEdits
    /\ mem \in Memory
    /\ index \in [Users -> SUBSET GroupNames]
    /\ patch \in Patches \cup {None}
    /\ source \in Config \cup {Nil} /\ doc \in Config \cup {Nil}
    /\ outcome \in {"none", "ok", "error", "no_path"}
    /\ foreign \in BOOLEAN

\* docs/configuration.md: "a validation or persistence failure leaves the
\* effective in-memory configuration unchanged".  The configuration in force
\* changes in the one step that publishes, and never while an editor that shares
\* its maps applies operations, whatever their order and wherever they stop.
EffectiveOnlyPublished ==
    [][Effective' # Effective =>
         \/ pc' = "down"
         \/ pc \in {"create", "load", "idle", "publish"} /\ outcome' = "ok"]_vars

\* The copy-on-write editor computes the transaction: after any operations the
\* candidate is the configuration that was read with those operations applied in
\* order, although it shares maps with the configuration in force.
EditorComputesTransaction ==
    pc \in {"edit", "persist", "publish"} =>
        Candidate = EditAll(source, SubSeq(txn, 1, Len(txn) - Len(todo)))

\* File, configuration and index are one: the groups authorisation looks up are
\* always those of the configuration in force, and after an update or a reload
\* that succeeded a restart finds exactly that configuration, unless another
\* process wrote since (persistLocked before publishLocked).
InForceIsOnDisk ==
    /\ index = indexGroupsByUser(Effective.groups)
    /\ (pc = "idle" /\ outcome = "ok" /\ ~foreign) => file = Effective

\* Param k of a service after patch p of a configuration c: the value set, else
\* its own unless it was deleted, else the one of "default".
Patched(p, c, k) ==
    LET own == ParamsOf(Configured(c, p.name))[k]
    IN CASE p.set[k] # None -> p.set[k]
         [] p.set[k] = None /\ own # None /\ k \notin Range(p.delete) -> own
         [] OTHER -> IF p.name = "default" THEN None
                     ELSE ParamsOf(Configured(c, "default"))[k]

\* A patch that succeeded is what the service is told from then on, by
\* GetServiceParams and by its next start, on top of what the file said: a key
\* both deleted and set is set, a deleted one falls back to "default", the others
\* are as they were, in whatever order the map gave the values.
PatchIsEffective ==
    [][(pc = "publish" /\ patch # None /\ outcome' = "ok") =>
         GetServiceParams(Effective', patch.name) =
            ResolveParams([k \in Keys |-> Patched(patch, source, k)])]_vars

\* The file is never the result of half a transaction: the process writes what
\* it read with all the operations of the transaction applied.
WritesWholeTransactions ==
    [][(pc = "persist" /\ pc' = "publish") => file' = EditAll(source, txn)]_vars

\* Whatever the operations and wherever the process dies, what it leaves in the
\* file can be loaded again: validation precedes the replacement of the file.
FileCanBeLoaded == Decodes(file) => ValidConfig(file)

\* docs/configuration.md: "`Reload` reads the complete `config.toml` ... and
\* publishes it in memory only when the whole file is valid": a reload of a valid
\* file makes it effective.
ReloadPublishesValidFile ==
    [][(Reload /\ Decodes(file)) => Effective' = file]_vars

=============================================================================
