----------------------------- MODULE ConfProofs -----------------------------
(***************************************************************************)
(* Proofs about Conf, for every set of names, keys, values and checksums,  *)
(* every transaction and patch, and any writes of others to the file: what *)
(* the copy-on-write editor computes, that it never writes to a map of the *)
(* configuration in force, and what file, memory and index have in common. *)
(***************************************************************************)
EXTENDS Conf, FiniteSetTheorems, SequenceTheorems, WellFoundedInduction, TLAPS

-----------------------------------------------------------------------------
(* Memory.                                                                 *)

\* Of three cells one is not among two references.
LEMMA FreshCell ==
    ASSUME NEW a, NEW b
    PROVE  Fresh({a, b}) \in Cells /\ Fresh({a, b}) # a /\ Fresh({a, b}) # b
  <1>1. \E c \in Cells : c \notin {a, b}
    <2>1. 0 \in Cells /\ 1 \in Cells /\ 2 \in Cells
      BY DEF Cells
    <2>2. \/ 0 \notin {a, b} \/ 1 \notin {a, b} \/ 2 \notin {a, b}
      OBVIOUS
    <2> QED BY <2>1, <2>2, Zenon
  <1>2. Fresh({a, b}) \in Cells /\ Fresh({a, b}) \notin {a, b}
    BY <1>1, Zenon DEF Fresh
  <1> QED BY <1>2

\* What a cell of the service map says of service s.
Seen(m, c, s) ==
    IF m.services[c][s] = None THEN None
    ELSE [checksum |-> m.services[c][s].checksum,
          params |-> IF m.services[c][s].params = Nil THEN Nil
                     ELSE m.params[s][m.services[c][s].params]]

LEMMA MemoryType ==
    ASSUME NEW m \in Memory
    PROVE  /\ m.cur \in Root /\ m.next \in Root
           /\ m.cur.groups \in Ref /\ m.cur.services \in Ref
           /\ m.next.groups \in Ref /\ m.next.services \in Ref
           /\ m.groups \in [Cells -> Groups]
           /\ m.services \in [Cells -> [ServiceNames -> [checksum: Checksums, params: Ref]
                                                          \cup {None}]]
           /\ m.params \in [ServiceNames -> [Cells -> Params]]
           /\ m.owned \subseteq {"groups", "services"} \cup ServiceNames
  BY DEF Memory, Root

LEMMA MemoryMade ==
    ASSUME NEW m,
           m = [cur |-> m.cur, next |-> m.next, owned |-> m.owned, groups |-> m.groups,
                services |-> m.services, params |-> m.params],
           m.cur \in Root, m.next \in Root,
           m.owned \subseteq {"groups", "services"} \cup ServiceNames,
           m.groups \in [Cells -> Groups],
           m.services \in [Cells -> [ServiceNames -> [checksum: Checksums, params: Ref]
                                                       \cup {None}]],
           m.params \in [ServiceNames -> [Cells -> Params]]
    PROVE  m \in Memory
  BY DEF Memory

LEMMA SeenType ==
    ASSUME NEW m \in Memory, NEW c \in Cells, NEW s \in ServiceNames
    PROVE  /\ Seen(m, c, s) \in Service \cup {None}
           /\ Seen(m, c, s) = None <=> m.services[c][s] = None
  <1>1. m.services[c][s] \in [checksum: Checksums, params: Ref] \cup {None}
    BY MemoryType
  <1>2. CASE m.services[c][s] = None
    BY <1>2 DEF Seen
  <1>3. CASE m.services[c][s] # None
    <2> DEFINE p == IF m.services[c][s].params = Nil THEN Nil
                    ELSE m.params[s][m.services[c][s].params]
    <2>1. m.services[c][s].checksum \in Checksums /\ m.services[c][s].params \in Ref
      BY <1>1, <1>3
    <2>2. p \in Params \cup {Nil}
      BY <2>1, MemoryType DEF Ref
    <2>3. Seen(m, c, s) = [checksum |-> m.services[c][s].checksum, params |-> p]
      BY <1>3 DEF Seen
    <2> HIDE DEF p
    <2>4. Seen(m, c, s) \in Service
      BY <2>1, <2>2, <2>3 DEF Service
    <2> QED BY <1>3, <2>4, AbsentAssumption
  <1> QED BY <1>2, <1>3

\* A root stands for a configuration.
LEMMA DeepParts ==
    ASSUME NEW m \in Memory, NEW root \in Root
    PROVE  /\ Deep(m, root) =
                [groups |-> IF root.groups = Nil THEN Nil ELSE m.groups[root.groups],
                 services |-> IF root.services = Nil THEN Nil
                              ELSE [s \in ServiceNames |-> Seen(m, root.services, s)]]
           /\ Deep(m, root) \in Config
           /\ Deep(m, root).groups = Nil <=> root.groups = Nil
           /\ Deep(m, root).services = Nil <=> root.services = Nil
  <1> DEFINE G == IF root.groups = Nil THEN Nil ELSE m.groups[root.groups]
             S == IF root.services = Nil THEN Nil
                  ELSE [s \in ServiceNames |-> Seen(m, root.services, s)]
  <1>1. root.groups \in Ref /\ root.services \in Ref
    BY DEF Root
  <1>2. Deep(m, root) = [groups |-> G, services |-> S]
    BY DEF Deep, Seen
  <1>3. G \in Groups \cup {Nil} /\ (G = Nil <=> root.groups = Nil)
    BY <1>1, MemoryType, AbsentAssumption DEF Ref
  <1>4. S \in [ServiceNames -> Service \cup {None}] \cup {Nil} /\ (S = Nil <=> root.services = Nil)
    <2>1. CASE root.services = Nil
      BY <2>1
    <2>2. CASE root.services # Nil
      <3>1. \A s \in ServiceNames : Seen(m, root.services, s) \in Service \cup {None}
        BY <1>1, <2>2, SeenType DEF Ref
      <3>2. S \in [ServiceNames -> Service \cup {None}]
        BY <2>2, <3>1
      <3> QED BY <2>2, <3>2, AbsentAssumption
    <2> QED BY <2>1, <2>2
  <1> HIDE DEF G, S
  <1>5. [groups |-> G, services |-> S] \in Config
    BY <1>3, <1>4 DEF Config
  <1>6. Deep(m, root).groups = G /\ Deep(m, root).services = S
    BY <1>2
  <1> QED BY <1>2, <1>3, <1>4, <1>5, <1>6 DEF G, S

\* The params a root's service refers to are the ones its configuration shows.
LEMMA ParamsRefType ==
    ASSUME NEW m \in Memory, NEW root \in Root, NEW s \in ServiceNames
    PROVE  ParamsRef(m, root, s) \in Ref
  <1>1. root.services \in Ref
    BY DEF Root
  <1>2. CASE root.services = Nil
    BY <1>2 DEF ParamsRef, Ref
  <1>3. CASE root.services # Nil
    <2>1. m.services[root.services][s] \in [checksum: Checksums, params: Ref] \cup {None}
      BY <1>1, <1>3, MemoryType DEF Ref
    <2> QED BY <2>1 DEF ParamsRef, Ref
  <1> QED BY <1>2, <1>3

\* A root stands for the same configuration in two memories that agree on the
\* cells it refers to.
LEMMA SameDeep ==
    ASSUME NEW m \in Memory, NEW n \in Memory, NEW root \in Root,
           root.groups # Nil => n.groups[root.groups] = m.groups[root.groups],
           root.services # Nil => n.services[root.services] = m.services[root.services],
           \A s \in ServiceNames : ParamsRef(m, root, s) # Nil =>
              n.params[s][ParamsRef(m, root, s)] = m.params[s][ParamsRef(m, root, s)]
    PROVE  Deep(n, root) = Deep(m, root)
  <1>1. CASE root.services = Nil
    BY <1>1, DeepParts
  <1>2. CASE root.services # Nil
    <2>1. ASSUME NEW s \in ServiceNames
          PROVE  Seen(n, root.services, s) = Seen(m, root.services, s)
      BY <1>2, <2>1 DEF Seen, ParamsRef
    <2>2. [s \in ServiceNames |-> Seen(n, root.services, s)]
            = [s \in ServiceNames |-> Seen(m, root.services, s)]
      BY <2>1
    <2> QED BY <1>2, <2>2, DeepParts, SMTT(30)
  <1> QED BY <1>1, <1>2

-----------------------------------------------------------------------------
(* Copy on write: a map that the editor owns is not one of the             *)
(* configuration in force.                                                 *)

Isolated(m) ==
    /\ "groups" \in m.owned => m.next.groups = Nil \/ m.next.groups # m.cur.groups
    /\ "services" \in m.owned => m.next.services = Nil \/ m.next.services # m.cur.services
    /\ \A s \in ServiceNames : s \in m.owned =>
          \/ ParamsRef(m, m.next, s) = Nil
          \/ ParamsRef(m, m.next, s) # ParamsRef(m, m.cur, s)

\* What an edit must be for the configuration in force to be left alone: the
\* candidate becomes c, the editor's maps stay its own.
Edited(m, n, c) ==
    /\ n \in Memory /\ n.cur = m.cur
    /\ Isolated(n)
    /\ Deep(n, n.cur) = Deep(m, m.cur)
    /\ Deep(n, n.next) = c

\* An edit of the groups: the cell it writes is not the one in force.
LEMMA GroupsEdited ==
    ASSUME NEW m \in Memory, Isolated(m), NEW n \in Memory,
           n.cur = m.cur, n.services = m.services, n.params = m.params,
           n.next.services = m.next.services, n.owned = m.owned \cup {"groups"},
           m.cur.groups # Nil => n.groups[m.cur.groups] = m.groups[m.cur.groups],
           n.next.groups = Nil \/ n.next.groups # m.cur.groups
    PROVE  Edited(m, n, [Deep(m, m.next) EXCEPT !.groups =
                           IF n.next.groups = Nil THEN Nil ELSE n.groups[n.next.groups]])
  <1>1. Deep(n, n.cur) = Deep(m, m.cur)
    BY SameDeep, MemoryType
  <1>2. \A s \in ServiceNames : /\ ParamsRef(n, n.next, s) = ParamsRef(m, m.next, s)
                                /\ ParamsRef(n, n.cur, s) = ParamsRef(m, m.cur, s)
    BY DEF ParamsRef
  <1>3. Isolated(n)
    BY <1>2, ValueAssumption DEF Isolated
  <1>4. \A c, s : Seen(n, c, s) = Seen(m, c, s)
    BY DEF Seen
  <1>5. Deep(n, n.next) = [groups |-> IF n.next.groups = Nil THEN Nil ELSE n.groups[n.next.groups],
                           services |-> Deep(m, m.next).services]
    <2>1. [s \in ServiceNames |-> Seen(n, n.next.services, s)]
            = [s \in ServiceNames |-> Seen(m, m.next.services, s)]
      BY <1>4
    <2> QED BY <2>1, DeepParts, MemoryType
  <1>6. Deep(m, m.next) \in Config
    BY DeepParts, MemoryType
  <1> QED BY <1>1, <1>3, <1>5, <1>6 DEF Edited, Config

\* Groups put in a cell of their own.
PutGroups(m, c, v) ==
    [m EXCEPT !.next.groups = c, !.owned = @ \cup {"groups"}, !.groups[c] = v]

LEMMA GroupsPut ==
    ASSUME NEW m \in Memory, NEW c \in Cells, NEW v \in Groups, NEW n,
           n = PutGroups(m, c, v)
    PROVE  /\ n \in Memory /\ n.cur = m.cur /\ n.services = m.services /\ n.params = m.params
           /\ n.next.groups = c /\ n.next.services = m.next.services
           /\ n.owned = m.owned \cup {"groups"} /\ n.groups[c] = v
           /\ m.cur.groups \notin {c, Nil} => n.groups[m.cur.groups] = m.groups[m.cur.groups]
  <1>1. /\ n.cur = m.cur /\ n.services = m.services /\ n.params = m.params
        /\ n.next = [groups |-> c, services |-> m.next.services]
        /\ n.owned = m.owned \cup {"groups"} /\ n.groups = [m.groups EXCEPT ![c] = v]
        /\ n = [cur |-> n.cur, next |-> n.next, owned |-> n.owned, groups |-> n.groups,
                services |-> n.services, params |-> n.params]
    BY DEF PutGroups, Memory, Root
  <1>2. n.groups \in [Cells -> Groups]
    BY <1>1, MemoryType
  <1>3. n.next \in Root
    BY <1>1, MemoryType DEF Root, Ref
  <1>4. n \in Memory
    BY <1>1, <1>2, <1>3, MemoryType, MemoryMade
  <1>5. n.groups[c] = v /\ \A d \in Cells \ {c} : n.groups[d] = m.groups[d]
    BY <1>1, MemoryType
  <1>6. m.cur.groups \in Cells \cup {Nil}
    BY MemoryType DEF Ref
  <1> QED BY <1>1, <1>4, <1>5, <1>6

\* The groups in a cell that is not in force.
LEMMA ensureGroupsClones ==
    ASSUME NEW m \in Memory, Isolated(m)
    PROVE  LET e == ensureGroups(m)
           IN /\ e \in Memory /\ e.cur = m.cur /\ e.services = m.services /\ e.params = m.params
              /\ e.next.services = m.next.services /\ e.owned = m.owned \cup {"groups"}
              /\ e.next.groups \in Cells /\ e.next.groups # m.cur.groups
              /\ m.cur.groups # Nil => e.groups[m.cur.groups] = m.groups[m.cur.groups]
              /\ e.groups[e.next.groups] = Entry(Deep(m, m.next).groups, NoGroups)
  <1> DEFINE e == ensureGroups(m)
  <1>1. Deep(m, m.next).groups = IF m.next.groups = Nil THEN Nil ELSE m.groups[m.next.groups]
    BY DeepParts, MemoryType
  <1>2. CASE "groups" \in m.owned /\ m.next.groups # Nil
    <2>1. e = m
      BY <1>2 DEF ensureGroups
    <2>2. m.groups[m.next.groups] # Nil
      BY <1>2, MemoryType, AbsentAssumption DEF Ref
    <2> QED BY <1>1, <1>2, <2>1, <2>2, MemoryType DEF Isolated, Ref, Entry
  <1>3. CASE ~("groups" \in m.owned /\ m.next.groups # Nil)
    <2> DEFINE c == FreshGroups(m)
               v == IF m.next.groups = Nil THEN NoGroups ELSE m.groups[m.next.groups]
    <2>1. c \in Cells /\ c # m.cur.groups
      BY FreshCell DEF FreshGroups
    <2>2. v \in Groups /\ v = Entry(Deep(m, m.next).groups, NoGroups)
      BY <1>1, MemoryType, AbsentAssumption DEF Ref, Groups, NoGroups, Entry
    <2>3. e = PutGroups(m, c, v)
      BY <1>3 DEF ensureGroups, PutGroups
    <2> HIDE DEF c, v, e
    <2>4. /\ e \in Memory /\ e.cur = m.cur /\ e.services = m.services /\ e.params = m.params
          /\ e.next.groups = c /\ e.next.services = m.next.services
          /\ e.owned = m.owned \cup {"groups"} /\ e.groups[c] = v
          /\ m.cur.groups # Nil => e.groups[m.cur.groups] = m.groups[m.cur.groups]
      BY <2>1, <2>2, <2>3, GroupsPut
    <2> QED BY <2>1, <2>2, <2>4 DEF e
  <1> QED BY <1>2, <1>3

\* applyGroups computes what the operation says, in memory of its own.
LEMMA applyGroupsEdits ==
    ASSUME NEW m \in Memory, Isolated(m), NEW op, IsOperation(op),
           op.target \in {"groups", "group"}, ~RefusesNil(op)
    PROVE  Edited(m, applyGroups(m, op), EditDocument(Deep(m, m.next), op))
  <1> DEFINE n == applyGroups(m, op)
             c == Deep(m, m.next)
  <1>1. c \in Config /\ c.groups = IF m.next.groups = Nil THEN Nil ELSE m.groups[m.next.groups]
    BY DeepParts, MemoryType
  <1>2. c.groups # Nil => m.next.groups \in Cells /\ c.groups \in Groups
    BY <1>1, MemoryType DEF Ref, Config
  <1>3. CASE op.target = "groups" /\ op.type = "remove"
    <2>1. n = [m EXCEPT !.next.groups = Nil, !.owned = @ \cup {"groups"}]
      BY <1>3 DEF applyGroups
    <2>2. EditDocument(c, op) = [c EXCEPT !.groups = Nil]
      BY <1>3 DEF EditDocument
    <2> HIDE DEF n
    <2>3. /\ n.cur = m.cur /\ n.services = m.services /\ n.params = m.params
          /\ n.next = [groups |-> Nil, services |-> m.next.services]
          /\ n.owned = m.owned \cup {"groups"} /\ n.groups = m.groups
          /\ n = [cur |-> n.cur, next |-> n.next, owned |-> n.owned, groups |-> n.groups,
                  services |-> n.services, params |-> n.params]
      BY <2>1 DEF Memory, Root
    <2>4. n.next \in Root
      BY <2>3, MemoryType DEF Root, Ref
    <2>5. n \in Memory
      BY <2>3, <2>4, MemoryType, MemoryMade
    <2>6. n.next.groups = Nil /\ n.next.services = m.next.services
      BY <2>3
    <2> QED BY <2>2, <2>3, <2>5, <2>6, GroupsEdited DEF n
  <1>4. CASE op.target = "groups" /\ op.type = "set"
    <2> DEFINE d == FreshGroups(m)
    <2>1. d \in Cells /\ d # m.cur.groups /\ d # Nil
      BY FreshCell, AbsentAssumption DEF FreshGroups
    <2>2. op.value \in Groups
      BY <1>4 DEF IsOperation, RefusesNil
    <2>3. n = PutGroups(m, d, op.value)
      BY <1>4 DEF applyGroups, PutGroups
    <2>4. EditDocument(c, op) = [c EXCEPT !.groups = op.value]
      BY <1>4 DEF EditDocument
    <2> HIDE DEF n, d
    <2>5. /\ n \in Memory /\ n.cur = m.cur /\ n.services = m.services /\ n.params = m.params
          /\ n.next.groups = d /\ n.next.services = m.next.services
          /\ n.owned = m.owned \cup {"groups"} /\ n.groups[d] = op.value
          /\ m.cur.groups # Nil => n.groups[m.cur.groups] = m.groups[m.cur.groups]
      BY <2>1, <2>2, <2>3, GroupsPut
    <2> QED BY <2>1, <2>4, <2>5, GroupsEdited DEF n
  <1>5. CASE op.target = "group" /\ op.type = "remove"
             /\ (m.next.groups = Nil \/ m.groups[m.next.groups][op.name] = None)
    <2>1. n = m
      BY <1>5 DEF applyGroups
    <2>2. EditDocument(c, op)
            = [c EXCEPT !.groups = IF @ = Nil THEN Nil ELSE [@ EXCEPT ![op.name] = None]]
      BY <1>5 DEF EditDocument
    <2>3. c.groups # Nil => [c.groups EXCEPT ![op.name] = None] = c.groups
      BY <1>1, <1>2, <1>5 DEF Groups
    <2>4. [c EXCEPT !.groups = IF @ = Nil THEN Nil ELSE [@ EXCEPT ![op.name] = None]] = c
      BY <1>1, <2>3 DEF Config
    <2> QED BY <2>1, <2>2, <2>4 DEF Edited
  <1>6. CASE op.target = "group"
             /\ ~(op.type = "remove"
                  /\ (m.next.groups = Nil \/ m.groups[m.next.groups][op.name] = None))
    <2> DEFINE e == ensureGroups(m)
               v == IF op.type = "remove" THEN None ELSE op.value
               G == [Entry(c.groups, NoGroups) EXCEPT ![op.name] = v]
    <2>1. op.name \in GroupNames /\ v \in Lists \cup {None}
      BY <1>6 DEF IsOperation, RefusesNil
    <2>2. Entry(c.groups, NoGroups) \in Groups
      BY <1>2 DEF Entry, NoGroups, Groups
    <2>3. G \in Groups
      BY <2>1, <2>2 DEF Groups
    <2>4. /\ e \in Memory /\ e.cur = m.cur /\ e.services = m.services /\ e.params = m.params
          /\ e.next.services = m.next.services /\ e.owned = m.owned \cup {"groups"}
          /\ e.next.groups \in Cells /\ e.next.groups # m.cur.groups
          /\ m.cur.groups # Nil => e.groups[m.cur.groups] = m.groups[m.cur.groups]
          /\ e.groups[e.next.groups] = Entry(c.groups, NoGroups)
      BY ensureGroupsClones
    <2>5. n = [e EXCEPT !.groups[e.next.groups][op.name] = v]
      BY <1>6 DEF applyGroups
    <2>6. EditDocument(c, op) = [c EXCEPT !.groups = G]
      <3>1. CASE op.type = "set"
        <4>1. EditDocument(c, op)
                = [c EXCEPT !.groups = [Entry(@, NoGroups) EXCEPT ![op.name] = op.value]]
          BY <1>6, <3>1 DEF EditDocument
        <4> QED BY <3>1, <4>1, <1>1 DEF Config
      <3>2. CASE op.type # "set"
        <4>1. EditDocument(c, op)
                = [c EXCEPT !.groups = IF @ = Nil THEN Nil ELSE [@ EXCEPT ![op.name] = None]]
          BY <1>6, <3>2 DEF EditDocument
        <4>2. op.type = "remove" /\ m.next.groups # Nil
          BY <1>6, <3>2 DEF IsOperation
        <4>3. c.groups # Nil
          BY <4>2, DeepParts, MemoryType
        <4> QED BY <4>1, <4>2, <4>3, <1>1 DEF Config, Entry
      <3> QED BY <3>1, <3>2
    <2> HIDE DEF c, e, v, n
    <2>7. /\ n.cur = e.cur /\ n.next = e.next /\ n.owned = e.owned /\ n.services = e.services
          /\ n.params = e.params /\ n.groups = [e.groups EXCEPT ![e.next.groups][op.name] = v]
          /\ n = [cur |-> n.cur, next |-> n.next, owned |-> n.owned, groups |-> n.groups,
                  services |-> n.services, params |-> n.params]
      BY <2>4, <2>5 DEF Memory
    <2>8. n.groups = [e.groups EXCEPT ![e.next.groups] = G]
      BY <2>4, <2>7, MemoryType
    <2> HIDE DEF G
    <2>9. n.groups \in [Cells -> Groups] /\ n.groups[e.next.groups] = G
          /\ \A d \in Cells \ {e.next.groups} : n.groups[d] = e.groups[d]
      BY <2>3, <2>4, <2>8, MemoryType
    <2>10. n \in Memory
      BY <2>4, <2>7, <2>9, MemoryType, MemoryMade
    <2>11. m.cur.groups # Nil => n.groups[m.cur.groups] = m.groups[m.cur.groups]
      BY <2>4, <2>9, MemoryType DEF Ref
    <2>12. e.next.groups # Nil
      BY <2>4, AbsentAssumption
    <2>13. n.cur = m.cur /\ n.services = m.services /\ n.params = m.params
           /\ n.next.services = m.next.services /\ n.owned = m.owned \cup {"groups"}
           /\ n.next.groups = e.next.groups
      BY <2>4, <2>7
    <2>14. Edited(m, n, [c EXCEPT !.groups = IF n.next.groups = Nil THEN Nil
                                             ELSE n.groups[n.next.groups]])
      BY <2>4, <2>10, <2>11, <2>13, GroupsEdited DEF c
    <2>15. Edited(m, n, [c EXCEPT !.groups = G])
      BY <2>9, <2>12, <2>13, <2>14
    <2> QED BY <2>6, <2>15 DEF n, c
  <1> QED BY <1>3, <1>4, <1>5, <1>6 DEF IsOperation

-----------------------------------------------------------------------------
(* The services.                                                           *)

\* An edit of the services writes neither the cell of the service map in force
\* nor the params its services refer to.
LEMMA ServicesEdited ==
    ASSUME NEW m \in Memory, Isolated(m), NEW n \in Memory,
           n.cur = m.cur, n.groups = m.groups, n.next.groups = m.next.groups,
           "groups" \in n.owned => "groups" \in m.owned,
           n.next.services = Nil \/ n.next.services # m.cur.services,
           m.cur.services # Nil => n.services[m.cur.services] = m.services[m.cur.services],
           \A s \in ServiceNames : ParamsRef(m, m.cur, s) # Nil =>
              n.params[s][ParamsRef(m, m.cur, s)] = m.params[s][ParamsRef(m, m.cur, s)],
           \A s \in ServiceNames : s \in n.owned =>
              \/ ParamsRef(n, n.next, s) = Nil
              \/ ParamsRef(n, n.next, s) # ParamsRef(m, m.cur, s)
    PROVE  Edited(m, n, [Deep(m, m.next) EXCEPT !.services =
                           IF n.next.services = Nil THEN Nil
                           ELSE [s \in ServiceNames |-> Seen(n, n.next.services, s)]])
  <1>1. Deep(n, n.cur) = Deep(m, m.cur)
    BY SameDeep, MemoryType, SMTT(30)
  <1>2. \A s \in ServiceNames : ParamsRef(n, n.cur, s) = ParamsRef(m, m.cur, s)
    BY DEF ParamsRef
  <1>3. Isolated(n)
    BY <1>2 DEF Isolated
  <1>4. Deep(n, n.next) = [groups |-> Deep(m, m.next).groups,
                           services |-> IF n.next.services = Nil THEN Nil
                                        ELSE [s \in ServiceNames |-> Seen(n, n.next.services, s)]]
    <2>1. Deep(m, m.next).groups = IF m.next.groups = Nil THEN Nil ELSE m.groups[m.next.groups]
      BY DeepParts, MemoryType
    <2>2. n.next \in Root
      BY MemoryType
    <2> QED BY <2>1, <2>2, DeepParts
  <1>5. Deep(m, m.next) \in Config
    BY DeepParts, MemoryType
  <1> QED BY <1>1, <1>3, <1>4, <1>5 DEF Edited, Config

\* The service map in a cell that is not in force; the params stay shared.
LEMMA ensureServicesClones ==
    ASSUME NEW m \in Memory, Isolated(m)
    PROVE  LET e == ensureServices(m)
           IN /\ e \in Memory /\ e.cur = m.cur /\ e.groups = m.groups /\ e.params = m.params
              /\ e.next.groups = m.next.groups /\ e.owned = m.owned \cup {"services"}
              /\ e.next.services \in Cells /\ e.next.services # m.cur.services
              /\ m.cur.services # Nil => e.services[m.cur.services] = m.services[m.cur.services]
              /\ e.services[e.next.services] = IF m.next.services = Nil THEN NoServices
                                               ELSE m.services[m.next.services]
  <1> DEFINE e == ensureServices(m)
  <1>1. CASE "services" \in m.owned /\ m.next.services # Nil
    <2>1. e = m
      BY <1>1 DEF ensureServices
    <2> QED BY <1>1, <2>1, MemoryType DEF Isolated, Ref
  <1>2. CASE ~("services" \in m.owned /\ m.next.services # Nil)
    <2> DEFINE c == FreshServices(m)
               v == IF m.next.services = Nil THEN NoServices ELSE m.services[m.next.services]
               Map == [ServiceNames -> [checksum: Checksums, params: Ref] \cup {None}]
    <2>1. c \in Cells /\ c # m.cur.services
      BY FreshCell DEF FreshServices
    <2>2. v \in Map
      BY MemoryType DEF Ref, NoServices
    <2>3. e = [m EXCEPT !.next.services = c, !.owned = @ \cup {"services"}, !.services[c] = v]
      BY <1>2 DEF ensureServices
    <2> HIDE DEF c, v, e
    <2>4. /\ e.cur = m.cur /\ e.groups = m.groups /\ e.params = m.params
          /\ e.next = [groups |-> m.next.groups, services |-> c]
          /\ e.owned = m.owned \cup {"services"} /\ e.services = [m.services EXCEPT ![c] = v]
          /\ e = [cur |-> e.cur, next |-> e.next, owned |-> e.owned, groups |-> e.groups,
                  services |-> e.services, params |-> e.params]
      BY <2>3 DEF Memory, Root
    <2>5. m.services \in [Cells -> Map]
      BY MemoryType
    <2> HIDE DEF Map
    <2>6. e.services \in [Cells -> Map] /\ e.services[c] = v
          /\ \A d \in Cells \ {c} : e.services[d] = m.services[d]
      BY <2>1, <2>2, <2>4, <2>5
    <2>7. e.next \in Root
      BY <2>1, <2>4, MemoryType DEF Root, Ref
    <2>8. e \in Memory
      BY <2>4, <2>6, <2>7, MemoryType, MemoryMade DEF Map
    <2>9. m.cur.services # Nil => e.services[m.cur.services] = m.services[m.cur.services]
      BY <2>1, <2>6, MemoryType DEF Ref
    <2> QED BY <2>1, <2>4, <2>6, <2>8, <2>9 DEF e, v
  <1> QED BY <1>1, <1>2

\* Service s becomes x, in the editor's map, with these cells for its params.
PutService(e, s, x, cells, owned) ==
    [e EXCEPT !.services[e.next.services][s] = x, !.params[s] = cells, !.owned = owned]

\* An entry of the service map.
Stored == [checksum: Checksums, params: Ref] \cup {None}

LEMMA ServicePut ==
    ASSUME NEW e \in Memory, e.next.services \in Cells, NEW s \in ServiceNames,
           NEW x \in Stored,
           NEW cells \in [Cells -> Params],
           NEW owned \in SUBSET ({"groups", "services"} \cup ServiceNames),
           NEW n, n = PutService(e, s, x, cells, owned)
    PROVE  /\ n \in Memory /\ n.cur = e.cur /\ n.next = e.next /\ n.owned = owned
           /\ n.groups = e.groups
           /\ n.services[e.next.services] = [e.services[e.next.services] EXCEPT ![s] = x]
           /\ \A d \in Cells \ {e.next.services} : n.services[d] = e.services[d]
           /\ n.params[s] = cells
           /\ \A t \in ServiceNames \ {s} : n.params[t] = e.params[t]
  <1> DEFINE Map == [ServiceNames -> Stored]
             v == [e.services[e.next.services] EXCEPT ![s] = x]
  <1>1. /\ n.cur = e.cur /\ n.next = e.next /\ n.owned = owned /\ n.groups = e.groups
        /\ n.services = [e.services EXCEPT ![e.next.services][s] = x]
        /\ n.params = [e.params EXCEPT ![s] = cells]
        /\ n = [cur |-> n.cur, next |-> n.next, owned |-> n.owned, groups |-> n.groups,
                services |-> n.services, params |-> n.params]
    BY DEF PutService, Memory
  <1>2. e.services \in [Cells -> Map]
    BY MemoryType DEF Stored
  <1>3. v \in Map
    BY <1>2
  <1>4. n.services = [e.services EXCEPT ![e.next.services] = v]
    BY <1>1, <1>2
  <1> HIDE DEF v, Map
  <1>5. /\ n.services \in [Cells -> Map] /\ n.services[e.next.services] = v
        /\ \A d \in Cells \ {e.next.services} : n.services[d] = e.services[d]
    BY <1>2, <1>3, <1>4
  <1>6. /\ n.params \in [ServiceNames -> [Cells -> Params]] /\ n.params[s] = cells
        /\ \A t \in ServiceNames \ {s} : n.params[t] = e.params[t]
    BY <1>1, MemoryType
  <1>7. n \in Memory
    BY <1>1, <1>5, <1>6, MemoryType, MemoryMade DEF Map, Stored
  <1> QED BY <1>1, <1>5, <1>6, <1>7 DEF v

\* What the candidate says of service s, None if it has none.
Old(m, s) == Entry(Deep(m, m.next).services, NoServices)[s]

\* The service an operation on a field starts from: the editor's, whose params are
\* those of the candidate, or a zero one.
LEMMA FieldOwnerSeen ==
    ASSUME NEW m \in Memory, Isolated(m), NEW s \in ServiceNames
    PROVE  LET o == FieldOwner(ensureServices(m), s)
               old == IF Old(m, s) = None THEN NoService ELSE Old(m, s)
           IN /\ o \in [checksum: Checksums, params: Ref]
              /\ o.params = ParamsRef(m, m.next, s)
              /\ old \in Service
              /\ old = [checksum |-> o.checksum,
                        params |-> IF o.params = Nil THEN Nil ELSE m.params[s][o.params]]
              /\ Old(m, s) = None <=> ~HasService(m, s)
              /\ HasService(m, s) => o = ensureServices(m).services[ensureServices(m).next.services][s]
              /\ HasService(m, s) => old = Old(m, s)
  <1> DEFINE e == ensureServices(m)
             o == FieldOwner(e, s)
             old == IF Old(m, s) = None THEN NoService ELSE Old(m, s)
  <1>1. /\ e.next.services \in Cells /\ e.next.services # Nil
        /\ e.services[e.next.services][s] = IF m.next.services = Nil THEN None
                                            ELSE m.services[m.next.services][s]
    BY ensureServicesClones, AbsentAssumption DEF NoServices
  <1>2. HasService(e, s) <=> HasService(m, s)
    BY <1>1 DEF HasService
  <1>3. Old(m, s) = IF m.next.services = Nil THEN None ELSE Seen(m, m.next.services, s)
    BY DeepParts, MemoryType DEF Old, Entry, NoServices
  <1>4. m.next.services # Nil => m.next.services \in Cells
    BY MemoryType, SMTT(30) DEF Ref
  <1>5. CASE HasService(m, s)
    <2> DEFINE r == m.services[m.next.services][s]
    <2>1. m.next.services \in Cells /\ r # None
      BY <1>4, <1>5 DEF HasService
    <2>2. o = r /\ o = e.services[e.next.services][s]
      BY <1>1, <1>2, <1>5 DEF FieldOwner, HasService
    <2>3. r \in [checksum: Checksums, params: Ref]
      BY <2>1, MemoryType
    <2>4. Old(m, s) = Seen(m, m.next.services, s) /\ Old(m, s) \in Service /\ Old(m, s) # None
      BY <1>3, <1>5, <2>1, SeenType, SMTT(30) DEF HasService
    <2>5. Old(m, s) = [checksum |-> r.checksum,
                       params |-> IF r.params = Nil THEN Nil ELSE m.params[s][r.params]]
      BY <2>1, <2>4 DEF Seen
    <2>6. ParamsRef(m, m.next, s) = r.params
      BY <1>5 DEF ParamsRef, HasService
    <2> HIDE DEF r, o, e
    <2> QED BY <1>5, <2>2, <2>3, <2>4, <2>5, <2>6 DEF o, e
  <1>6. CASE ~HasService(m, s)
    <2>1. o = NoService
      BY <1>2, <1>6 DEF FieldOwner, NoService
    <2>2. Old(m, s) = None
      BY <1>3, <1>4, <1>6, SeenType DEF HasService
    <2>3. ParamsRef(m, m.next, s) = Nil
      BY <1>6 DEF ParamsRef, HasService
    <2>4. /\ NoService \in [checksum: Checksums, params: Ref] /\ NoService \in Service
          /\ NoService.params = Nil /\ NoService = [checksum |-> NoService.checksum, params |-> Nil]
      BY ValueAssumption DEF NoService, Service, Ref
    <2> HIDE DEF o, e
    <2> QED BY <1>6, <2>1, <2>2, <2>3, <2>4 DEF o, e
  <1> QED BY <1>5, <1>6

\* One service is edited; the others are what they were.
LEMMA OneServiceEdited ==
    ASSUME NEW m \in Memory, Isolated(m), NEW s \in ServiceNames,
           NEW x \in Stored,
           NEW cells \in [Cells -> Params],
           NEW owned \in SUBSET (m.owned \cup {"services", s}),
           ParamsRef(m, m.cur, s) # Nil =>
              cells[ParamsRef(m, m.cur, s)] = m.params[s][ParamsRef(m, m.cur, s)],
           s \in owned /\ x # None => x.params = Nil \/ x.params # ParamsRef(m, m.cur, s),
           NEW v, v = IF x = None THEN None
                      ELSE [checksum |-> x.checksum,
                            params |-> IF x.params = Nil THEN Nil ELSE cells[x.params]],
           NEW n, n = PutService(ensureServices(m), s, x, cells, owned)
    PROVE  Edited(m, n, [Deep(m, m.next) EXCEPT !.services =
                           [Entry(Deep(m, m.next).services, NoServices) EXCEPT ![s] = v]])
  <1> DEFINE e == ensureServices(m)
             k == e.next.services
             old == IF m.next.services = Nil THEN NoServices ELSE m.services[m.next.services]
  <1>1. /\ e \in Memory /\ e.cur = m.cur /\ e.groups = m.groups /\ e.params = m.params
        /\ e.next.groups = m.next.groups /\ k \in Cells /\ k # m.cur.services /\ k # Nil
        /\ m.cur.services # Nil => e.services[m.cur.services] = m.services[m.cur.services]
        /\ e.services[k] = old
    BY ensureServicesClones, AbsentAssumption
  <1>2. owned \in SUBSET ({"groups", "services"} \cup ServiceNames)
    BY MemoryType
  <1>3. /\ n \in Memory /\ n.cur = e.cur /\ n.next = e.next /\ n.owned = owned
        /\ n.groups = e.groups /\ n.services[k] = [e.services[k] EXCEPT ![s] = x]
        /\ \A d \in Cells \ {k} : n.services[d] = e.services[d]
        /\ n.params[s] = cells /\ \A t \in ServiceNames \ {s} : n.params[t] = e.params[t]
    <2>1. n = PutService(e, s, x, cells, owned) /\ k = e.next.services
      OBVIOUS
    <2> HIDE DEF e, k, old
    <2>2. e \in Memory /\ e.next.services \in Cells
      BY <1>1, <2>1
    <2>3. /\ n \in Memory /\ n.cur = e.cur /\ n.next = e.next /\ n.owned = owned
          /\ n.groups = e.groups
          /\ n.services[e.next.services] = [e.services[e.next.services] EXCEPT ![s] = x]
          /\ \A d \in Cells \ {e.next.services} : n.services[d] = e.services[d]
          /\ n.params[s] = cells /\ \A t \in ServiceNames \ {s} : n.params[t] = e.params[t]
      BY <1>2, <2>1, <2>2, ServicePut
    <2> QED BY <2>1, <2>3
  <1>4. old \in [ServiceNames -> Stored]
    BY MemoryType DEF NoServices, Ref, Stored
  <1> HIDE DEF e, k, old
  <1>5. n.services[k][s] = x /\ \A t \in ServiceNames \ {s} : n.services[k][t] = old[t]
    BY <1>1, <1>3, <1>4
  <1>6. /\ n.next.services = k /\ n.next.groups = m.next.groups
        /\ m.cur.services # Nil => n.services[m.cur.services] = m.services[m.cur.services]
    BY <1>1, <1>3, MemoryType DEF k, Ref
  <1>7. ASSUME NEW t \in ServiceNames, ParamsRef(m, m.cur, t) # Nil
        PROVE  n.params[t][ParamsRef(m, m.cur, t)] = m.params[t][ParamsRef(m, m.cur, t)]
    BY <1>1, <1>3, <1>7
  <1>8. ASSUME NEW t \in ServiceNames, t \in n.owned
        PROVE  \/ ParamsRef(n, n.next, t) = Nil
               \/ ParamsRef(n, n.next, t) # ParamsRef(m, m.cur, t)
    <2>1. CASE t = s
      BY <1>1, <1>3, <1>5, <1>6, <1>8, <2>1 DEF ParamsRef
    <2>2. CASE t # s
      <3>1. t \in m.owned
        BY <1>3, <1>8, <2>2, ValueAssumption
      <3>2. ParamsRef(n, n.next, t) = ParamsRef(m, m.next, t)
        BY <1>1, <1>5, <1>6, <2>2 DEF ParamsRef, old, NoServices
      <3> QED BY <3>1, <3>2 DEF Isolated
    <2> QED BY <2>1, <2>2, SMTT(30)
  <1>9. "groups" \in n.owned => "groups" \in m.owned
    <2>1. s # "groups"
      BY ValueAssumption
    <2> QED BY <1>3, <2>1
  <1>10. ASSUME NEW t \in ServiceNames
         PROVE  Seen(n, k, t) = IF t = s THEN v ELSE Entry(Deep(m, m.next).services, NoServices)[t]
    <2>1. CASE t = s
      BY <1>3, <1>5, <2>1 DEF Seen
    <2>2. CASE t # s
      <3>1. Entry(Deep(m, m.next).services, NoServices)[t]
              = IF m.next.services = Nil THEN None ELSE Seen(m, m.next.services, t)
        BY DeepParts, MemoryType, SMTT(30) DEF Entry, NoServices
      <3>2. Seen(n, k, t) = IF m.next.services = Nil THEN None ELSE Seen(m, m.next.services, t)
        <4>1. n.services[k][t] = old[t] /\ n.params[t] = m.params[t]
          BY <1>1, <1>3, <1>5, <2>2
        <4>2. Seen(n, k, t) = IF old[t] = None THEN None
                              ELSE [checksum |-> old[t].checksum,
                                    params |-> IF old[t].params = Nil THEN Nil
                                               ELSE m.params[t][old[t].params]]
          BY <4>1 DEF Seen
        <4>3. old[t] = IF m.next.services = Nil THEN None ELSE m.services[m.next.services][t]
          BY DEF old, NoServices
        <4> QED BY <4>2, <4>3 DEF Seen
      <3> QED BY <2>2, <3>1, <3>2
    <2> QED BY <2>1, <2>2
  <1>11. DOMAIN Entry(Deep(m, m.next).services, NoServices) = ServiceNames
         /\ Entry(Deep(m, m.next).services, NoServices) \in [ServiceNames -> Service \cup {None}]
    <2>1. Deep(m, m.next).services \in [ServiceNames -> Service \cup {None}] \cup {Nil}
      BY DeepParts, MemoryType DEF Config
    <2> QED BY <2>1 DEF Entry, NoServices
  <1>12. [t \in ServiceNames |-> Seen(n, k, t)]
           = [Entry(Deep(m, m.next).services, NoServices) EXCEPT ![s] = v]
    BY <1>10, <1>11
  <1>13. Edited(m, n, [Deep(m, m.next) EXCEPT !.services =
                         IF n.next.services = Nil THEN Nil
                         ELSE [t \in ServiceNames |-> Seen(n, n.next.services, t)]])
    BY <1>1, <1>3, <1>6, <1>7, <1>8, <1>9, ServicesEdited
  <1> QED BY <1>1, <1>6, <1>12, <1>13

\* The same operation on the document.
LEMMA EditsOneService ==
    ASSUME NEW m \in Memory, Isolated(m), NEW op, IsOperation(op),
           op.target \in {"service", "checksum", "params", "param"},
           op.type = "set" \/ HasService(m, op.name)
    PROVE  EditDocument(Deep(m, m.next), op) =
             [Deep(m, m.next) EXCEPT !.services =
                [Entry(Deep(m, m.next).services, NoServices) EXCEPT
                   ![op.name] = EditService(Old(m, op.name), op)]]
  <1> DEFINE c == Deep(m, m.next)
  <1>1. op.name \in ServiceNames
    BY DEF IsOperation
  <1>2. ~(op.type = "remove" /\ (c.services = Nil \/ c.services[op.name] = None))
    <2>1. CASE op.type = "set"
      BY <2>1
    <2>2. CASE HasService(m, op.name)
      <3>1. Old(m, op.name) # None
        BY <1>1, <2>2, FieldOwnerSeen
      <3> QED BY <1>1, <3>1 DEF Old, Entry, NoServices
    <2> QED BY <2>1, <2>2
  <1>3. EditDocument(c, op) = [c EXCEPT !.services = [Entry(c.services, NoServices) EXCEPT
                                 ![op.name] = EditService(Old(m, op.name), op)]]
    BY <1>2 DEF EditDocument, Old
  <1> QED BY <1>3

LEMMA replaceServiceEdits ==
    ASSUME NEW m \in Memory, Isolated(m), NEW op, IsOperation(op), op.target = "service",
           ~RefusesNil(op), op.type = "set" \/ HasService(m, op.name)
    PROVE  Edited(m, replaceService(m, op), EditDocument(Deep(m, m.next), op))
  <1> DEFINE e == ensureServices(m)
             s == op.name
             c == FreshParams(m, s)
             n == replaceService(m, op)
  <1>1. s \in ServiceNames
    BY DEF IsOperation
  <1>2. /\ c \in Cells /\ c # Nil /\ c # ParamsRef(m, m.cur, s)
    BY FreshCell, AbsentAssumption DEF FreshParams
  <1>3. /\ e \in Memory /\ e.params = m.params /\ e.owned = m.owned \cup {"services"}
        /\ e.next.services \in Cells
    BY ensureServicesClones
  <1>4. m.params[s] \in [Cells -> Params] /\ ParamsRef(m, m.cur, s) \in Cells \cup {Nil}
    BY <1>1, MemoryType, ParamsRefType DEF Ref
  <1>5. CASE op.type = "remove"
    <2> DEFINE owned == e.owned \ {s}
    <2>1. n = PutService(e, s, None, m.params[s], owned)
      <3>1. n = [e EXCEPT !.services[e.next.services][s] = None, !.owned = @ \ {s}]
        BY <1>5 DEF replaceService
      <3>2. [e EXCEPT !.params[s] = e.params[s]] = e
        BY <1>1, <1>3, MemoryType DEF Memory
      <3> HIDE DEF e
      <3> QED BY <1>1, <1>3, <3>1, <3>2 DEF PutService, Memory
    <2>2. EditService(Old(m, s), op) = None
      BY <1>5 DEF EditService
    <2>3. None \in Stored /\ owned \in SUBSET (m.owned \cup {"services", s})
      BY <1>3 DEF Stored
    <2> HIDE DEF n, e, owned
    <2>4. Edited(m, n, [Deep(m, m.next) EXCEPT !.services =
                          [Entry(Deep(m, m.next).services, NoServices) EXCEPT ![s] = None]])
      BY <1>1, <1>4, <2>1, <2>3, OneServiceEdited DEF e
    <2> QED BY <2>2, <2>4, EditsOneService DEF n
  <1>6. CASE op.type = "set"
    <2> DEFINE x == Boxed(op.value, c)
               cells == IF op.value.params = Nil THEN m.params[s]
                        ELSE [m.params[s] EXCEPT ![c] = op.value.params]
               owned == e.owned \cup {s}
    <2>1. op.value \in Service
      BY <1>6 DEF IsOperation, RefusesNil
    <2>2. op.value.checksum \in Checksums /\ op.value.params \in Params \cup {Nil}
          /\ op.value = [checksum |-> op.value.checksum, params |-> op.value.params]
      BY <2>1 DEF Service
    <2>3. /\ x \in Stored /\ x # None
          /\ x.checksum = op.value.checksum
          /\ x.params = IF op.value.params = Nil THEN Nil ELSE c
      <3>1. x = [checksum |-> op.value.checksum,
                 params |-> IF op.value.params = Nil THEN Nil ELSE c]
        BY DEF Boxed
      <3>2. x \in [checksum: Checksums, params: Ref]
        BY <1>2, <2>2, <3>1 DEF Ref
      <3> QED BY <3>1, <3>2, AbsentAssumption DEF Stored
    <2>4. /\ cells \in [Cells -> Params]
          /\ op.value.params # Nil => cells[c] = op.value.params
          /\ \A d \in Cells \ {c} : cells[d] = m.params[s][d]
      BY <1>2, <1>4, <2>2
    <2>5. n = PutService(e, s, x, cells, owned)
      <3>1. n = [e EXCEPT !.services[e.next.services][s] = x,
                          !.params[s] = IF op.value.params = Nil THEN @
                                        ELSE [@ EXCEPT ![c] = op.value.params],
                          !.owned = @ \cup {s}]
        BY <1>6 DEF replaceService
      <3> HIDE DEF e, x, c
      <3> QED BY <1>1, <1>3, <3>1 DEF PutService, Memory
    <2>6. owned \in SUBSET (m.owned \cup {"services", s})
      BY <1>3
    <2>7. EditService(Old(m, s), op) = op.value
      BY <1>6 DEF EditService
    <2> HIDE DEF n, e, x, cells, owned, c
    <2>8. op.value = IF x = None THEN None
                     ELSE [checksum |-> x.checksum,
                           params |-> IF x.params = Nil THEN Nil ELSE cells[x.params]]
      BY <1>2, <2>2, <2>3, <2>4
    <2>9. ParamsRef(m, m.cur, s) # Nil =>
            cells[ParamsRef(m, m.cur, s)] = m.params[s][ParamsRef(m, m.cur, s)]
      BY <1>2, <1>4, <2>4
    <2>10. x.params = Nil \/ x.params # ParamsRef(m, m.cur, s)
      BY <1>2, <2>3
    <2>11. Edited(m, n, [Deep(m, m.next) EXCEPT !.services =
                          [Entry(Deep(m, m.next).services, NoServices) EXCEPT ![s] = op.value]])
      BY <1>1, <2>3, <2>4, <2>5, <2>6, <2>8, <2>9, <2>10, OneServiceEdited DEF e
    <2> QED BY <2>7, <2>11, EditsOneService DEF n
  <1> QED BY <1>5, <1>6 DEF IsOperation

\* What an operation on a field of service s works with.
LEMMA FieldFacts ==
    ASSUME NEW m \in Memory, Isolated(m), NEW s \in ServiceNames
    PROVE  LET e == ensureServices(m)
               o == FieldOwner(e, s)
               old == IF Old(m, s) = None THEN NoService ELSE Old(m, s)
               c == FreshParams(m, s)
           IN /\ e \in Memory /\ e.params = m.params /\ e.owned = m.owned \cup {"services"}
              /\ e.next.services \in Cells
              /\ o = [checksum |-> o.checksum, params |-> o.params]
              /\ o.checksum \in Checksums /\ o.params \in Cells \cup {Nil}
              /\ old = [checksum |-> o.checksum, params |-> old.params]
              /\ old.params = IF o.params = Nil THEN Nil ELSE m.params[s][o.params]
              /\ old.params # Nil => old.params \in Params
              /\ old.params = Nil <=> o.params = Nil
              /\ c \in Cells /\ c # Nil /\ c # ParamsRef(m, m.cur, s)
              /\ s \in m.owned => o.params = Nil \/ o.params # ParamsRef(m, m.cur, s)
              /\ m.params[s] \in [Cells -> Params]
              /\ ParamsRef(m, m.cur, s) \in Cells \cup {Nil}
              /\ s # "services" /\ s # "groups"
  <1> DEFINE e == ensureServices(m)
             o == FieldOwner(e, s)
             old == IF Old(m, s) = None THEN NoService ELSE Old(m, s)
             c == FreshParams(m, s)
  <1>1. /\ e \in Memory /\ e.params = m.params /\ e.owned = m.owned \cup {"services"}
        /\ e.next.services \in Cells
    BY ensureServicesClones
  <1>2. /\ o \in [checksum: Checksums, params: Ref] /\ o.params = ParamsRef(m, m.next, s)
        /\ old = [checksum |-> o.checksum,
                  params |-> IF o.params = Nil THEN Nil ELSE m.params[s][o.params]]
    BY FieldOwnerSeen
  <1>3. c \in Cells /\ c # Nil /\ c # ParamsRef(m, m.cur, s)
    BY FreshCell, AbsentAssumption DEF FreshParams
  <1>4. m.params[s] \in [Cells -> Params] /\ ParamsRef(m, m.cur, s) \in Cells \cup {Nil}
    BY MemoryType, ParamsRefType DEF Ref
  <1>5. s # "services" /\ s # "groups"
    BY ValueAssumption
  <1> HIDE DEF e, o, old, c
  <1>6. /\ o = [checksum |-> o.checksum, params |-> o.params]
        /\ o.checksum \in Checksums /\ o.params \in Cells \cup {Nil}
    BY <1>2 DEF Ref
  <1>7. /\ old = [checksum |-> o.checksum, params |-> old.params]
        /\ old.params = IF o.params = Nil THEN Nil ELSE m.params[s][o.params]
    BY <1>2
  <1>8. o.params # Nil => m.params[s][o.params] \in Params
    BY <1>4, <1>6
  <1>9. /\ old.params # Nil => old.params \in Params
        /\ old.params = Nil <=> o.params = Nil
    BY <1>7, <1>8, AbsentAssumption
  <1>10. s \in m.owned => o.params = Nil \/ o.params # ParamsRef(m, m.cur, s)
    BY <1>2 DEF Isolated
  <1> QED BY <1>1, <1>3, <1>4, <1>5, <1>6, <1>7, <1>9, <1>10 DEF e, o, old, c

LEMMA applyChecksumEdits ==
    ASSUME NEW m \in Memory, Isolated(m), NEW op, IsOperation(op), op.target = "checksum",
           ~RefusesNil(op), op.type = "set" \/ HasService(m, op.name)
    PROVE  Edited(m, applyChecksum(m, op), EditDocument(Deep(m, m.next), op))
  <1> DEFINE e == ensureServices(m)
             s == op.name
             o == FieldOwner(e, s)
             old == IF Old(m, s) = None THEN NoService ELSE Old(m, s)
             sum == IF op.type = "remove" THEN "" ELSE op.value
             x == [o EXCEPT !.checksum = sum]
             n == applyChecksum(m, op)
  <1>1. s \in ServiceNames /\ sum \in Checksums
    BY ValueAssumption DEF IsOperation, RefusesNil
  <1>2. /\ e \in Memory /\ e.params = m.params /\ e.owned = m.owned \cup {"services"}
        /\ e.next.services \in Cells
        /\ o = [checksum |-> o.checksum, params |-> o.params]
        /\ o.params \in Cells \cup {Nil}
        /\ old = [checksum |-> o.checksum, params |-> old.params]
        /\ old.params = IF o.params = Nil THEN Nil ELSE m.params[s][o.params]
        /\ s \in m.owned => o.params = Nil \/ o.params # ParamsRef(m, m.cur, s)
        /\ m.params[s] \in [Cells -> Params] /\ s # "services"
    <2>1. s \in ServiceNames
      BY <1>1
    <2> HIDE DEF sum, s
    <2> QED BY <2>1, FieldFacts
  <1>3. n = PutService(e, s, x, m.params[s], e.owned)
    <2>1. n = [e EXCEPT !.services[e.next.services][s] = x]
      BY DEF applyChecksum
    <2> HIDE DEF e, x
    <2>2. [e.params EXCEPT ![s] = m.params[s]] = e.params
      BY <1>1, <1>2, MemoryType
    <2>3. PutService(e, s, x, m.params[s], e.owned)
            = [e EXCEPT !.services[e.next.services][s] = x,
                        !.params = [e.params EXCEPT ![s] = m.params[s]], !.owned = e.owned]
      BY <1>2 DEF PutService, Memory
    <2>4. [e EXCEPT !.services[e.next.services][s] = x]
            = [e EXCEPT !.services[e.next.services][s] = x,
                        !.params = e.params, !.owned = e.owned]
      BY <1>2 DEF Memory
    <2> QED BY <2>1, <2>2, <2>3, <2>4
  <1>4. EditService(Old(m, s), op) = [old EXCEPT !.checksum = sum]
    <2>1. CASE op.type = "set"
      BY <2>1 DEF EditService
    <2>2. CASE op.type = "remove"
      BY <2>2 DEF EditService
    <2> QED BY <2>1, <2>2 DEF IsOperation
  <1> HIDE DEF e, o, old, sum, n
  <1>5. x = [checksum |-> sum, params |-> o.params]
    BY <1>2
  <1>6. [old EXCEPT !.checksum = sum] = [checksum |-> sum, params |-> old.params]
    BY <1>2
  <1>7. x \in Stored /\ x # None /\ x.checksum = sum /\ x.params = o.params
    BY <1>1, <1>2, <1>5, AbsentAssumption DEF Stored, Ref
  <1> HIDE DEF x
  <1>8. [checksum |-> sum, params |-> old.params]
          = IF x = None THEN None
            ELSE [checksum |-> x.checksum,
                  params |-> IF x.params = Nil THEN Nil ELSE m.params[s][x.params]]
    BY <1>2, <1>7
  <1>9. s \in e.owned => x.params = Nil \/ x.params # ParamsRef(m, m.cur, s)
    BY <1>2, <1>7
  <1>10. e.owned \in SUBSET (m.owned \cup {"services", s})
    BY <1>2
  <1>11. Edited(m, n, [Deep(m, m.next) EXCEPT !.services =
                         [Entry(Deep(m, m.next).services, NoServices) EXCEPT
                            ![s] = [checksum |-> sum, params |-> old.params]]])
    BY <1>1, <1>2, <1>3, <1>7, <1>8, <1>9, <1>10, OneServiceEdited DEF e
  <1> QED BY <1>4, <1>6, <1>11, EditsOneService DEF n

LEMMA replaceParamsEdits ==
    ASSUME NEW m \in Memory, Isolated(m), NEW op, IsOperation(op), op.target = "params",
           ~RefusesNil(op), op.type = "set" \/ HasService(m, op.name)
    PROVE  Edited(m, replaceParams(m, op), EditDocument(Deep(m, m.next), op))
  <1> DEFINE e == ensureServices(m)
             s == op.name
             o == FieldOwner(e, s)
             old == IF Old(m, s) = None THEN NoService ELSE Old(m, s)
             c == FreshParams(m, s)
             x == [o EXCEPT !.params = IF op.type = "remove" THEN Nil ELSE c]
             cells == [m.params[s] EXCEPT ![c] = IF op.type = "remove" THEN @ ELSE op.value]
             owned == e.owned \cup {s}
             p == IF op.type = "set" THEN op.value ELSE Nil
             n == replaceParams(m, op)
  <1>1. s \in ServiceNames /\ (op.type = "set" => op.value \in Params)
        /\ (op.type = "remove" <=> op.type # "set")
    BY DEF IsOperation, RefusesNil
  <1>2. /\ e \in Memory /\ e.params = m.params /\ e.owned = m.owned \cup {"services"}
        /\ e.next.services \in Cells
        /\ o = [checksum |-> o.checksum, params |-> o.params]
        /\ o.checksum \in Checksums
        /\ old = [checksum |-> o.checksum, params |-> old.params]
        /\ c \in Cells /\ c # Nil /\ c # ParamsRef(m, m.cur, s)
        /\ m.params[s] \in [Cells -> Params]
        /\ ParamsRef(m, m.cur, s) \in Cells \cup {Nil}
    BY <1>1, FieldFacts
  <1>3. n = PutService(e, s, x, cells, owned)
    <2>1. n = [e EXCEPT !.services[e.next.services][s] = x,
                        !.params[s][c] = IF op.type = "remove" THEN @ ELSE op.value,
                        !.owned = @ \cup {s}]
      BY DEF replaceParams
    <2> HIDE DEF e, x, c
    <2> QED BY <1>1, <1>2, <2>1, MemoryType DEF PutService, Memory
  <1>4. EditService(Old(m, s), op) = [old EXCEPT !.params = p]
    BY DEF EditService
  <1> HIDE DEF e, o, old, n, c
  <1>5. [old EXCEPT !.params = p] = [checksum |-> o.checksum, params |-> p]
    BY <1>2
  <1>6. x = [checksum |-> o.checksum, params |-> IF op.type = "remove" THEN Nil ELSE c]
    BY <1>2
  <1>7. /\ x \in Stored /\ x # None /\ x.checksum = o.checksum
        /\ x.params = IF op.type = "remove" THEN Nil ELSE c
    BY <1>2, <1>6, AbsentAssumption DEF Stored, Ref
  <1>8. /\ cells \in [Cells -> Params] /\ (op.type = "set" => cells[c] = op.value)
        /\ \A d \in Cells \ {c} : cells[d] = m.params[s][d]
    BY <1>1, <1>2
  <1>9. owned \in SUBSET (m.owned \cup {"services", s})
    BY <1>2
  <1> HIDE DEF x, cells, owned
  <1>10. [checksum |-> o.checksum, params |-> p]
           = IF x = None THEN None
             ELSE [checksum |-> x.checksum,
                   params |-> IF x.params = Nil THEN Nil ELSE cells[x.params]]
    BY <1>1, <1>2, <1>7, <1>8
  <1>11. ParamsRef(m, m.cur, s) # Nil =>
            cells[ParamsRef(m, m.cur, s)] = m.params[s][ParamsRef(m, m.cur, s)]
    BY <1>2, <1>8
  <1>12. x.params = Nil \/ x.params # ParamsRef(m, m.cur, s)
    BY <1>2, <1>7
  <1> HIDE DEF p
  <1>13. Edited(m, n, [Deep(m, m.next) EXCEPT !.services =
                         [Entry(Deep(m, m.next).services, NoServices) EXCEPT
                            ![s] = [checksum |-> o.checksum, params |-> p]]])
    BY <1>1, <1>3, <1>7, <1>8, <1>9, <1>10, <1>11, <1>12, OneServiceEdited DEF e
  <1> QED BY <1>4, <1>5, <1>13, EditsOneService DEF n

LEMMA applyParamEdits ==
    ASSUME NEW m \in Memory, Isolated(m), NEW op, IsOperation(op), op.target = "param",
           ~RefusesNil(op), ~RefusesPath(m, op), op.type = "set" \/ HasService(m, op.name)
    PROVE  Edited(m, applyParam(m, op), EditDocument(Deep(m, m.next), op))
  <1> DEFINE e == ensureServices(m)
             s == op.name
             o == FieldOwner(e, s)
             ref == o.params
             old == IF Old(m, s) = None THEN NoService ELSE Old(m, s)
             d == FreshParams(m, s)
             c == IF ref # Nil /\ s \in m.owned THEN ref ELSE d
             base == IF ref = Nil THEN NoParams ELSE m.params[s][ref]
             v == IF op.type = "remove" THEN None ELSE op.value
             p == [base EXCEPT ![op.key] = v]
             n == applyParam(m, op)
  <1>1. /\ s \in ServiceNames /\ op.key \in Keys /\ v \in Values \cup {None}
        /\ op.type = "remove" <=> op.type # "set"
    BY DEF IsOperation, RefusesNil, RefusesPath
  <1>2. /\ e \in Memory /\ e.params = m.params /\ e.owned = m.owned \cup {"services"}
        /\ e.next.services \in Cells
        /\ o = [checksum |-> o.checksum, params |-> o.params]
        /\ o.checksum \in Checksums /\ o.params \in Cells \cup {Nil}
        /\ old = [checksum |-> o.checksum, params |-> old.params]
        /\ old.params = IF o.params = Nil THEN Nil ELSE m.params[s][o.params]
        /\ old.params # Nil => old.params \in Params
        /\ old.params = Nil <=> o.params = Nil
        /\ d \in Cells /\ d # Nil /\ d # ParamsRef(m, m.cur, s)
        /\ s \in m.owned => o.params = Nil \/ o.params # ParamsRef(m, m.cur, s)
        /\ m.params[s] \in [Cells -> Params]
        /\ ParamsRef(m, m.cur, s) \in Cells \cup {Nil} /\ s # "services"
    <2>1. s \in ServiceNames
      BY <1>1
    <2> HIDE DEF s, v
    <2> QED BY <2>1, FieldFacts
  <1>3. base \in Params /\ p \in Params /\ base = Entry(old.params, NoParams)
    <2> HIDE DEF o, old, v
    <2>1. base \in Params
      BY <1>2 DEF Params, NoParams
    <2>2. p \in Params
      BY <1>1, <2>1 DEF Params
    <2> QED BY <1>2, <2>1, <2>2 DEF Entry
  <1>4. CASE op.type = "remove" /\ (ref = Nil \/ m.params[s][ref][op.key] = None)
    <2>1. n = e
      BY <1>2, <1>4 DEF applyParam
    <2>2. HasService(m, s)
      BY <1>1, <1>4
    <2>3. o = e.services[e.next.services][s] /\ old = Old(m, s) /\ Old(m, s) # None
      BY <1>1, <2>2, FieldOwnerSeen
    <2>4. EditService(Old(m, s), op)
            = [old EXCEPT !.params = IF @ = Nil THEN Nil ELSE [@ EXCEPT ![op.key] = None]]
      BY <1>4 DEF EditService
    <2> HIDE DEF e, o, old, n
    <2>5. old.params # Nil => [old.params EXCEPT ![op.key] = None] = old.params
      BY <1>2, <1>4 DEF Params
    <2>6. [old EXCEPT !.params = IF @ = Nil THEN Nil ELSE [@ EXCEPT ![op.key] = None]] = old
      BY <1>2, <2>5
    <2>7. n = PutService(e, s, o, m.params[s], e.owned)
      <3>1. [e.params EXCEPT ![s] = m.params[s]] = e.params
        BY <1>1, <1>2, MemoryType
      <3>2. [e.services EXCEPT ![e.next.services][s] = o] = e.services
        BY <1>1, <1>2, <2>3, MemoryType
      <3>3. PutService(e, s, o, m.params[s], e.owned)
              = [e EXCEPT !.services = [e.services EXCEPT ![e.next.services][s] = o],
                          !.params = [e.params EXCEPT ![s] = m.params[s]], !.owned = e.owned]
        BY <1>2 DEF PutService, Memory
      <3>4. e = [e EXCEPT !.services = e.services, !.params = e.params, !.owned = e.owned]
        BY <1>2 DEF Memory
      <3> QED BY <2>1, <3>1, <3>2, <3>3, <3>4
    <2>8. o \in Stored /\ o # None
      <3>1. o \in [checksum: Checksums, params: Ref]
        BY <1>2 DEF Ref
      <3> QED BY <3>1, AbsentAssumption DEF Stored
    <2>9. old = IF o = None THEN None
                ELSE [checksum |-> o.checksum,
                      params |-> IF o.params = Nil THEN Nil ELSE m.params[s][o.params]]
      BY <1>2, <2>8
    <2>10. s \in e.owned => o.params = Nil \/ o.params # ParamsRef(m, m.cur, s)
      BY <1>2
    <2>11. e.owned \in SUBSET (m.owned \cup {"services", s})
      BY <1>2
    <2>12. Edited(m, n, [Deep(m, m.next) EXCEPT !.services =
                           [Entry(Deep(m, m.next).services, NoServices) EXCEPT ![s] = old]])
      BY <1>1, <1>2, <2>7, <2>8, <2>9, <2>10, <2>11, OneServiceEdited DEF e
    <2> QED BY <2>4, <2>6, <2>12, EditsOneService DEF n
  <1>5. CASE ~(op.type = "remove" /\ (ref = Nil \/ m.params[s][ref][op.key] = None))
    <2> DEFINE x == [o EXCEPT !.params = c]
               cells == [m.params[s] EXCEPT ![c] = p]
               owned == e.owned \cup {s}
    <2>1. n = PutService(e, s, x, cells, owned)
      <3>1. n = [e EXCEPT !.services[e.next.services][s] = x, !.params[s][c] = p,
                          !.owned = @ \cup {s}]
        BY <1>2, <1>5 DEF applyParam
      <3> HIDE DEF e, x, c, p
      <3> QED BY <1>1, <1>2, <3>1, MemoryType DEF PutService, Memory
    <2>2. EditService(Old(m, s), op) = [old EXCEPT !.params = p]
      <3>1. CASE op.type = "set"
        <4>1. EditService(Old(m, s), op)
                = [old EXCEPT !.params = [Entry(@, NoParams) EXCEPT ![op.key] = op.value]]
          BY <3>1 DEF EditService
        <4> QED BY <1>1, <1>3, <3>1, <4>1
      <3>2. CASE op.type = "remove"
        <4>1. EditService(Old(m, s), op)
                = [old EXCEPT !.params = IF @ = Nil THEN Nil ELSE [@ EXCEPT ![op.key] = None]]
          BY <3>2 DEF EditService
        <4>2. old.params # Nil /\ base = old.params
          BY <1>2, <1>5, <3>2
        <4> QED BY <3>2, <4>1, <4>2
      <3> QED BY <1>1, <3>1, <3>2
    <2>3. c \in Cells /\ c # Nil /\ c # ParamsRef(m, m.cur, s)
      BY <1>2, AbsentAssumption
    <2> HIDE DEF e, o, old, n, c, p
    <2>4. [old EXCEPT !.params = p] = [checksum |-> o.checksum, params |-> p]
      BY <1>2
    <2>5. x = [checksum |-> o.checksum, params |-> c]
      BY <1>2
    <2>6. x \in Stored /\ x # None /\ x.checksum = o.checksum /\ x.params = c
      BY <1>2, <2>3, <2>5, AbsentAssumption DEF Stored, Ref
    <2>7. /\ cells \in [Cells -> Params] /\ cells[c] = p
          /\ \A k \in Cells \ {c} : cells[k] = m.params[s][k]
      BY <1>2, <1>3, <2>3
    <2>8. owned \in SUBSET (m.owned \cup {"services", s})
      BY <1>2
    <2> HIDE DEF x, cells, owned
    <2>9. [checksum |-> o.checksum, params |-> p]
            = IF x = None THEN None
              ELSE [checksum |-> x.checksum,
                    params |-> IF x.params = Nil THEN Nil ELSE cells[x.params]]
      BY <2>3, <2>6, <2>7
    <2>10. ParamsRef(m, m.cur, s) # Nil =>
             cells[ParamsRef(m, m.cur, s)] = m.params[s][ParamsRef(m, m.cur, s)]
      BY <1>2, <2>3, <2>7
    <2>11. x.params # ParamsRef(m, m.cur, s)
      BY <2>3, <2>6
    <2>12. Edited(m, n, [Deep(m, m.next) EXCEPT !.services =
                           [Entry(Deep(m, m.next).services, NoServices) EXCEPT
                              ![s] = [checksum |-> o.checksum, params |-> p]]])
      BY <1>1, <2>1, <2>6, <2>7, <2>8, <2>9, <2>10, <2>11, OneServiceEdited DEF e
    <2> QED BY <2>2, <2>4, <2>12, EditsOneService DEF n
  <1> QED BY <1>4, <1>5

LEMMA replaceServicesEdits ==
    ASSUME NEW m \in Memory, Isolated(m), NEW op, IsOperation(op), op.target = "services",
           ~RefusesNil(op)
    PROVE  Edited(m, replaceServices(m, op), EditDocument(Deep(m, m.next), op))
  <1> DEFINE n == replaceServices(m, op)
             doc1 == Deep(m, m.next)
  <1>1. "groups" # "services" /\ "groups" \notin ServiceNames /\ "services" \notin ServiceNames
    BY ValueAssumption
  <1>2. CASE op.type = "remove"
    <2> DEFINE owned == {"services"} \cup (m.owned \cap {"groups"})
    <2>1. n = [m EXCEPT !.next.services = Nil, !.owned = owned]
      BY <1>2 DEF replaceServices
    <2>2. EditDocument(doc1, op) = [doc1 EXCEPT !.services = Nil]
      BY <1>2 DEF EditDocument
    <2>3. owned \subseteq {"groups", "services"} \cup ServiceNames
          /\ ("groups" \in owned => "groups" \in m.owned)
          /\ \A s \in ServiceNames : s \notin owned
      BY <1>1
    <2> HIDE DEF n, owned, doc1
    <2>4. /\ n.cur = m.cur /\ n.services = m.services /\ n.params = m.params
          /\ n.next = [groups |-> m.next.groups, services |-> Nil]
          /\ n.owned = owned /\ n.groups = m.groups
          /\ n = [cur |-> n.cur, next |-> n.next, owned |-> n.owned, groups |-> n.groups,
                  services |-> n.services, params |-> n.params]
      BY <2>1 DEF Memory, Root
    <2>5. n.next \in Root
      BY <2>4, MemoryType DEF Root, Ref
    <2>6. n \in Memory
      BY <2>3, <2>4, <2>5, MemoryType, MemoryMade
    <2>7. n.next.groups = m.next.groups /\ n.next.services = Nil
      BY <2>4
    <2>8. Edited(m, n, [doc1 EXCEPT !.services = IF n.next.services = Nil THEN Nil
                          ELSE [s \in ServiceNames |-> Seen(n, n.next.services, s)]])
      BY <2>3, <2>4, <2>6, <2>7, ServicesEdited DEF doc1
    <2>9. Edited(m, n, [doc1 EXCEPT !.services = Nil])
      BY <2>7, <2>8
    <2> QED BY <2>2, <2>9 DEF n, doc1
  <1>3. CASE op.type = "set"
    <2> DEFINE c == FreshServices(m)
               owned == {"services"} \cup (m.owned \cap {"groups"})
                          \cup {s \in ServiceNames : op.value[s] # None}
               f == [s \in ServiceNames |-> IF op.value[s] = None THEN None
                                            ELSE Boxed(op.value[s], FreshParams(m, s))]
               g == [s \in ServiceNames |->
                       IF op.value[s] = None \/ op.value[s].params = Nil THEN m.params[s]
                       ELSE [m.params[s] EXCEPT ![FreshParams(m, s)] = op.value[s].params]]
    <2>1. op.value \in [ServiceNames -> Service \cup {None}]
      BY <1>3 DEF IsOperation, RefusesNil
    <2>2. n = [m EXCEPT !.next.services = c, !.owned = owned, !.services[c] = f, !.params = g]
      BY <1>3 DEF replaceServices
    <2>3. EditDocument(doc1, op) = [doc1 EXCEPT !.services = op.value]
      BY <1>3 DEF EditDocument
    <2>4. c \in Cells /\ c # m.cur.services /\ c # Nil
      BY FreshCell, AbsentAssumption DEF FreshServices
    <2>5. owned \subseteq {"groups", "services"} \cup ServiceNames
          /\ ("groups" \in owned => "groups" \in m.owned)
      BY <1>1
    <2>6. ASSUME NEW s \in ServiceNames
          PROVE  LET d == FreshParams(m, s)
                     r == ParamsRef(m, m.cur, s)
                 IN /\ d \in Cells /\ d # Nil /\ d # r
                    /\ f[s] \in Stored
                    /\ f[s] = None <=> op.value[s] = None
                    /\ f[s] # None => /\ f[s].checksum = op.value[s].checksum
                                      /\ f[s].params = IF op.value[s].params = Nil THEN Nil ELSE d
                    /\ g[s] \in [Cells -> Params]
                    /\ r # Nil => g[s][r] = m.params[s][r]
                    /\ (op.value[s] # None /\ op.value[s].params # Nil)
                          => g[s][d] = op.value[s].params
                    /\ op.value[s] # None =>
                         op.value[s] = [checksum |-> op.value[s].checksum,
                                        params |-> op.value[s].params]
      <3> DEFINE d == FreshParams(m, s)
                 r == ParamsRef(m, m.cur, s)
                 w == op.value[s]
      <3>1. d \in Cells /\ d # Nil /\ d # r
        BY FreshCell, AbsentAssumption DEF FreshParams
      <3>2. w \in Service \cup {None}
        BY <2>1
      <3>3. w # None => /\ w.checksum \in Checksums /\ w.params \in Params \cup {Nil}
                        /\ w = [checksum |-> w.checksum, params |-> w.params]
        BY <3>2 DEF Service
      <3>4. /\ f[s] = IF w = None THEN None
                      ELSE [checksum |-> w.checksum, params |-> IF w.params = Nil THEN Nil ELSE d]
            /\ g[s] = IF w = None \/ w.params = Nil THEN m.params[s]
                      ELSE [m.params[s] EXCEPT ![d] = w.params]
        BY DEF Boxed
      <3>5. m.params[s] \in [Cells -> Params] /\ r \in Cells \cup {Nil}
        BY MemoryType, ParamsRefType DEF Ref
      <3> HIDE DEF d, r, w, f, g
      <3>6. w # None => f[s] \in [checksum: Checksums, params: Ref]
        BY <3>1, <3>3, <3>4 DEF Ref
      <3>7. /\ f[s] \in Stored /\ (f[s] = None <=> w = None)
            /\ f[s] # None => /\ f[s].checksum = w.checksum
                              /\ f[s].params = IF w.params = Nil THEN Nil ELSE d
        BY <3>4, <3>6, AbsentAssumption DEF Stored
      <3>8. /\ g[s] \in [Cells -> Params] /\ (r # Nil => g[s][r] = m.params[s][r])
            /\ (w # None /\ w.params # Nil) => g[s][d] = w.params
        BY <3>1, <3>3, <3>4, <3>5
      <3> QED BY <3>1, <3>3, <3>7, <3>8 DEF d, r, w
    <2>7. f \in [ServiceNames -> Stored]
      <3>1. f = [s \in ServiceNames |-> f[s]]
        OBVIOUS
      <3> HIDE DEF f
      <3> QED BY <2>6, <3>1
    <2>8. g \in [ServiceNames -> [Cells -> Params]]
      <3>1. g = [s \in ServiceNames |-> g[s]]
        OBVIOUS
      <3> HIDE DEF g
      <3> QED BY <2>6, <3>1
    <2>9. \A s \in ServiceNames : s \in owned => f[s] # None
      BY <1>1, <2>6
    <2> HIDE DEF n, owned, c, f, g, doc1
    <2>10. /\ n.cur = m.cur /\ n.services = [m.services EXCEPT ![c] = f] /\ n.params = g
           /\ n.next = [groups |-> m.next.groups, services |-> c]
           /\ n.owned = owned /\ n.groups = m.groups
           /\ n = [cur |-> n.cur, next |-> n.next, owned |-> n.owned, groups |-> n.groups,
                   services |-> n.services, params |-> n.params]
      BY <2>2 DEF Memory, Root
    <2>11. n.next \in Root /\ n.next.groups = m.next.groups /\ n.next.services = c
      BY <2>4, <2>10, MemoryType DEF Root, Ref
    <2>12. m.services \in [Cells -> [ServiceNames -> Stored]]
      BY MemoryType DEF Stored
    <2>13. /\ n.services \in [Cells -> [ServiceNames -> Stored]] /\ n.services[c] = f
           /\ \A d \in Cells \ {c} : n.services[d] = m.services[d]
      BY <2>4, <2>7, <2>10, <2>12
    <2>14. n \in Memory
      BY <2>5, <2>8, <2>10, <2>11, <2>13, MemoryType, MemoryMade DEF Stored
    <2>15. m.cur.services # Nil => n.services[m.cur.services] = m.services[m.cur.services]
      BY <2>4, <2>13, MemoryType DEF Ref
    <2>16. ASSUME NEW s \in ServiceNames, s \in n.owned
           PROVE  \/ ParamsRef(n, n.next, s) = Nil
                  \/ ParamsRef(n, n.next, s) # ParamsRef(m, m.cur, s)
      <3>1. f[s] # None
        BY <2>9, <2>10, <2>16
      <3>2. ParamsRef(n, n.next, s) = f[s].params
        BY <2>4, <2>11, <2>13, <3>1 DEF ParamsRef
      <3> QED BY <2>6, <3>1, <3>2
    <2>17. ASSUME NEW s \in ServiceNames PROVE Seen(n, c, s) = op.value[s]
      BY <2>6, <2>10, <2>13, ZenonT(40) DEF Seen
    <2>18. [s \in ServiceNames |-> Seen(n, c, s)] = op.value
      BY <2>1, <2>17
    <2>19. ASSUME NEW s \in ServiceNames, ParamsRef(m, m.cur, s) # Nil
           PROVE  n.params[s][ParamsRef(m, m.cur, s)] = m.params[s][ParamsRef(m, m.cur, s)]
      BY <2>6, <2>10, <2>19
    <2>20. Edited(m, n, [doc1 EXCEPT !.services = IF n.next.services = Nil THEN Nil
                           ELSE [s \in ServiceNames |-> Seen(n, n.next.services, s)]])
      BY <2>4, <2>5, <2>10, <2>11, <2>14, <2>15, <2>16, <2>19, ServicesEdited DEF doc1
    <2>21. Edited(m, n, [doc1 EXCEPT !.services = op.value])
      BY <2>4, <2>11, <2>18, <2>20
    <2> QED BY <2>3, <2>21 DEF n, doc1
  <1> QED BY <1>2, <1>3 DEF IsOperation

\* An operation of the editor computes what the same operation does to a document,
\* leaves the configuration in force alone, and keeps the editor's maps apart.
LEMMA applyEdits ==
    ASSUME NEW m \in Memory, Isolated(m), NEW op, IsOperation(op),
           ~RefusesNil(op), ~RefusesPath(m, op)
    PROVE  Edited(m, apply(m, op), EditDocument(Deep(m, m.next), op))
  <1>1. CASE op.target \in {"groups", "group"}
    BY <1>1, applyGroupsEdits DEF apply
  <1>2. CASE op.target = "services"
    <2>1. apply(m, op) = replaceServices(m, op)
      BY <1>2 DEF apply, applyServices
    <2> QED BY <1>2, <2>1, replaceServicesEdits
  <1>3. CASE /\ op.target \in {"service", "checksum", "params", "param"}
             /\ op.type = "remove" /\ ~HasService(m, op.name)
    <2>1. apply(m, op) = m
      BY <1>3 DEF apply, applyServices
    <2>2. op.name \in ServiceNames
      BY <1>3 DEF IsOperation
    <2>3. Old(m, op.name) = None
      BY <1>3, <2>2, FieldOwnerSeen
    <2>4. Deep(m, m.next).services = Nil \/ Deep(m, m.next).services[op.name] = None
      BY <2>3 DEF Old, Entry
    <2>5. EditDocument(Deep(m, m.next), op) = Deep(m, m.next)
      BY <1>3, <2>4 DEF EditDocument
    <2> QED BY <2>1, <2>5 DEF Edited
  <1>4. CASE /\ op.target \in {"service", "checksum", "params", "param"}
             /\ ~(op.type = "remove" /\ ~HasService(m, op.name))
    <2>1. op.type = "set" \/ HasService(m, op.name)
      BY <1>4 DEF IsOperation
    <2>2. CASE op.target = "service"
      <3>1. apply(m, op) = replaceService(m, op)
        BY <1>4, <2>2 DEF apply, applyServices
      <3> QED BY <2>1, <2>2, <3>1, replaceServiceEdits
    <2>3. CASE op.target = "checksum"
      <3>1. apply(m, op) = applyChecksum(m, op)
        BY <1>4, <2>3 DEF apply, applyServices
      <3> QED BY <2>1, <2>3, <3>1, applyChecksumEdits
    <2>4. CASE op.target = "params"
      <3>1. apply(m, op) = replaceParams(m, op)
        BY <1>4, <2>4 DEF apply, applyServices
      <3> QED BY <2>1, <2>4, <3>1, replaceParamsEdits
    <2>5. CASE op.target = "param"
      <3>1. apply(m, op) = applyParam(m, op)
        BY <1>4, <2>5 DEF apply, applyServices
      <3> QED BY <2>1, <2>5, <3>1, applyParamEdits
    <2> QED BY <1>4, <2>2, <2>3, <2>4, <2>5
  <1> QED BY <1>1, <1>2, <1>3, <1>4 DEF IsOperation

-----------------------------------------------------------------------------
(* Memory between transactions and at the start of one.                    *)

LEMMA ConfigParts ==
    ASSUME NEW c \in Config
    PROVE  /\ c = [groups |-> c.groups, services |-> c.services]
           /\ c.groups # Nil => c.groups \in Groups
           /\ c.services # Nil => c.services \in [ServiceNames -> Service \cup {None}]
           /\ \A s \in ServiceNames : c.services # Nil /\ c.services[s] # None =>
                /\ c.services[s] = [checksum |-> c.services[s].checksum,
                                    params |-> c.services[s].params]
                /\ c.services[s].checksum \in Checksums
                /\ c.services[s].params # Nil => c.services[s].params \in Params
  BY DEF Config, Service

\* A service boxed with its params in cell k is what it was.
LEMMA BoxedSeen ==
    ASSUME NEW m, NEW s, NEW a, NEW k \in Cells, NEW w \in Service,
           m.services[a][s] = Boxed(w, k),
           w.params # Nil => m.params[s][k] = w.params
    PROVE  Seen(m, a, s) = w /\ Boxed(w, k) \in Stored /\ Boxed(w, k) # None
           /\ Boxed(w, k).params \in {k, Nil}
  <1>1. w = [checksum |-> w.checksum, params |-> w.params] /\ w.checksum \in Checksums
    BY DEF Service
  <1>2. Boxed(w, k) = [checksum |-> w.checksum, params |-> IF w.params = Nil THEN Nil ELSE k]
    BY DEF Boxed
  <1>3. Boxed(w, k) \in [checksum: Checksums, params: Ref]
    BY <1>1, <1>2 DEF Ref
  <1>4. Boxed(w, k) # None
    BY <1>3, AbsentAssumption
  <1>5. k # Nil
    BY AbsentAssumption
  <1>6. Boxed(w, k).checksum = w.checksum
        /\ Boxed(w, k).params = IF w.params = Nil THEN Nil ELSE k
    BY <1>2
  <1>7. Seen(m, a, s) = [checksum |-> w.checksum, params |-> w.params]
    BY <1>4, <1>5, <1>6 DEF Seen
  <1> QED BY <1>1, <1>3, <1>4, <1>6, <1>7 DEF Stored

LEMMA HoldingDeep ==
    ASSUME NEW c \in Config
    PROVE  LET h == Holding(c)
           IN /\ h \in Memory /\ h.next = h.cur /\ h.owned = {} /\ Isolated(h)
              /\ Deep(h, h.cur) = c
              /\ h.cur.groups \in {0, Nil} /\ h.cur.services \in {0, Nil}
              /\ \A s \in ServiceNames : ParamsRef(h, h.cur, s) \in {0, Nil}
  <1> DEFINE h == Holding(c)
             root == [groups |-> IF c.groups = Nil THEN Nil ELSE 0,
                      services |-> IF c.services = Nil THEN Nil ELSE 0]
             G == [i \in Cells |-> IF i = 0 /\ c.groups # Nil THEN c.groups ELSE NoGroups]
             f == [s \in ServiceNames |->
                     IF c.services[s] = None THEN None ELSE Boxed(c.services[s], 0)]
             S == [i \in Cells |-> IF i = 0 /\ c.services # Nil THEN f ELSE NoServices]
             P == [s \in ServiceNames |-> [i \in Cells |->
                     IF /\ i = 0 /\ c.services # Nil
                        /\ c.services[s] # None /\ c.services[s].params # Nil
                     THEN c.services[s].params ELSE NoParams]]
  <1>1. h = [cur |-> root, next |-> root, owned |-> {}, groups |-> G, services |-> S, params |-> P]
    BY DEF Holding
  <1>2. /\ h.cur = root /\ h.next = root /\ h.owned = {} /\ h.groups = G /\ h.services = S
        /\ h.params = P
        /\ h = [cur |-> h.cur, next |-> h.next, owned |-> h.owned, groups |-> h.groups,
                services |-> h.services, params |-> h.params]
    BY <1>1
  <1>3. 0 \in Cells /\ 0 # Nil
    BY AbsentAssumption DEF Cells
  <1>4. /\ root.groups = IF c.groups = Nil THEN Nil ELSE 0
        /\ root.services = IF c.services = Nil THEN Nil ELSE 0
        /\ root \in Root
    BY <1>3 DEF Root, Ref
  <1>5. G \in [Cells -> Groups] /\ (c.groups # Nil => G[0] = c.groups)
    <2>1. NoGroups \in Groups
      BY DEF NoGroups, Groups
    <2> QED BY <1>3, <2>1, ConfigParts
  <1>6. P \in [ServiceNames -> [Cells -> Params]]
    <2>1. NoParams \in Params
      BY DEF NoParams, Params
    <2> QED BY <1>3, <2>1, ConfigParts
  <1>7. ASSUME NEW s \in ServiceNames, c.services # Nil, c.services[s] # None
        PROVE  /\ c.services[s] \in Service /\ h.services[0][s] = Boxed(c.services[s], 0)
               /\ c.services[s].params # Nil => h.params[s][0] = c.services[s].params
    <2>1. c.services[s] \in Service
      BY <1>7, ConfigParts
    <2>2. S[0][s] = Boxed(c.services[s], 0)
      BY <1>3, <1>7
    <2>3. c.services[s].params # Nil => P[s][0] = c.services[s].params
      BY <1>3, <1>7
    <2> HIDE DEF h, root, G, S, P
    <2> QED BY <1>2, <2>1, <2>2, <2>3
  <1>8. ASSUME c.services # Nil, NEW s \in ServiceNames
        PROVE  /\ Seen(h, 0, s) = c.services[s] /\ h.services[0][s] \in Stored
               /\ h.services[0][s] # None => h.services[0][s].params \in {0, Nil}
    <2>1. CASE c.services[s] = None
      <3>1. S[0][s] = None
        BY <1>3, <1>8, <2>1
      <3> HIDE DEF h, root, G, S, P
      <3> QED BY <1>2, <2>1, <3>1 DEF Seen, Stored
    <2>2. CASE c.services[s] # None
      <3> HIDE DEF h, root, G, S, P
      <3> QED BY <1>3, <1>7, <1>8, <2>2, BoxedSeen
    <2> QED BY <2>1, <2>2
  <1>9. S \in [Cells -> [ServiceNames -> Stored]]
    <2>1. NoServices \in [ServiceNames -> Stored]
      BY DEF NoServices, Stored
    <2>2. c.services # Nil => f \in [ServiceNames -> Stored]
      <3> SUFFICES ASSUME c.services # Nil, NEW s \in ServiceNames PROVE f[s] \in Stored
        OBVIOUS
      <3>1. S[0] = f
        BY <1>3
      <3> HIDE DEF h, root, G, S, P, f
      <3> QED BY <1>2, <1>8, <3>1
    <2> HIDE DEF f
    <2> QED BY <2>1, <2>2
  <1> HIDE DEF h, root, G, S, P
  <1>10. h \in Memory
    BY <1>2, <1>4, <1>5, <1>6, <1>9, MemoryMade DEF Stored
  <1>11. Isolated(h)
    BY <1>2 DEF Isolated
  <1>12. Deep(h, h.cur) = c
    <2>1. c.services # Nil => c.services = [s \in ServiceNames |-> Seen(h, 0, s)]
      BY <1>8, ConfigParts
    <2>2. Deep(h, root) = [groups |-> c.groups, services |-> c.services]
      BY <1>2, <1>3, <1>4, <1>5, <1>10, <2>1, DeepParts
    <2> QED BY <1>2, <2>2, ConfigParts
  <1>13. ASSUME NEW s \in ServiceNames PROVE ParamsRef(h, h.cur, s) \in {0, Nil}
    BY <1>2, <1>4, <1>8 DEF ParamsRef
  <1> QED BY <1>2, <1>4, <1>10, <1>11, <1>12, <1>13 DEF h

\* newEditor starts from what was decoded, whether it shares the maps in force or
\* not, and touches none of those.
LEMMA StartEditorEdits ==
    ASSUME NEW m \in Memory, NEW d \in Config, m = Holding(Deep(m, m.cur))
    PROVE  Edited(m, StartEditor(m, Deep(m, m.cur), d), d)
  <1> DEFINE n == StartEditor(m, Deep(m, m.cur), d)
  <1>1. Deep(m, m.cur) \in Config
    BY DeepParts, MemoryType
  <1>2. /\ m.next = m.cur /\ m.owned = {} /\ Isolated(m)
        /\ m.cur.groups \in {0, Nil} /\ m.cur.services \in {0, Nil}
        /\ \A s \in ServiceNames : ParamsRef(m, m.cur, s) \in {0, Nil}
    BY <1>1, HoldingDeep
  <1>3. CASE Deep(m, m.cur) = d
    <2>1. n = [m EXCEPT !.next = m.cur, !.owned = {}]
      BY <1>3 DEF StartEditor
    <2>2. n = m
      BY <1>2, <2>1, ZenonT(40) DEF Memory
    <2> QED BY <1>2, <1>3, <2>2 DEF Edited
  <1>4. CASE Deep(m, m.cur) # d
    <2> DEFINE root == [groups |-> IF d.groups = Nil THEN Nil ELSE 1,
                        services |-> IF d.services = Nil THEN Nil ELSE 1]
               v == Entry(d.groups, NoGroups)
               f == IF d.services = Nil THEN NoServices
                    ELSE [s \in ServiceNames |->
                            IF d.services[s] = None THEN None ELSE Boxed(d.services[s], 1)]
               g == [s \in ServiceNames |->
                       IF d.services = Nil THEN m.params[s]
                       ELSE IF d.services[s] = None THEN m.params[s]
                       ELSE [m.params[s] EXCEPT ![1] = Entry(d.services[s].params, NoParams)]]
    <2>1. n = [m EXCEPT !.next = root, !.owned = {}, !.groups[1] = v, !.services[1] = f,
                        !.params = g]
      BY <1>4 DEF StartEditor
    <2>2. 1 \in Cells /\ 1 # Nil /\ 1 # 0
      BY AbsentAssumption DEF Cells
    <2>3. /\ root.groups = IF d.groups = Nil THEN Nil ELSE 1
          /\ root.services = IF d.services = Nil THEN Nil ELSE 1
          /\ root \in Root
      BY <2>2 DEF Root, Ref
    <2>4. v \in Groups /\ (d.groups # Nil => v = d.groups)
      BY ConfigParts DEF Entry, NoGroups, Groups
    <2>5. ASSUME NEW s \in ServiceNames
          PROVE  /\ g[s] \in [Cells -> Params]
                 /\ ParamsRef(m, m.cur, s) # Nil =>
                      g[s][ParamsRef(m, m.cur, s)] = m.params[s][ParamsRef(m, m.cur, s)]
                 /\ (d.services # Nil /\ d.services[s] # None /\ d.services[s].params # Nil)
                      => g[s][1] = d.services[s].params
      <3> DEFINE w == Entry(d.services[s].params, NoParams)
      <3>1. m.params[s] \in [Cells -> Params]
        BY MemoryType
      <3>2. CASE d.services = Nil \/ d.services[s] = None
        <4>1. g[s] = m.params[s]
          BY <3>2
        <4> HIDE DEF g
        <4> QED BY <3>1, <3>2, <4>1
      <3>3. CASE d.services # Nil /\ d.services[s] # None
        <4>1. w \in Params /\ (d.services[s].params # Nil => w = d.services[s].params)
          BY <3>3, ConfigParts DEF Entry, NoParams, Params
        <4>2. g[s] = [m.params[s] EXCEPT ![1] = w]
          BY <3>3
        <4>3. ParamsRef(m, m.cur, s) \in {0, Nil} /\ 0 \in Cells
          BY <1>2 DEF Cells
        <4> HIDE DEF g, w
        <4> QED BY <2>2, <3>1, <4>1, <4>2, <4>3
      <3> QED BY <3>2, <3>3
    <2>6. g \in [ServiceNames -> [Cells -> Params]]
      <3>1. g = [s \in ServiceNames |-> g[s]]
        OBVIOUS
      <3> HIDE DEF g
      <3> QED BY <2>5, <3>1
    <2>7. ASSUME d.services # Nil, NEW s \in ServiceNames
          PROVE  /\ d.services[s] = None => f[s] = None
                 /\ d.services[s] # None => /\ d.services[s] \in Service
                                            /\ f[s] = Boxed(d.services[s], 1)
      BY <2>7, ConfigParts
    <2>8. f \in [ServiceNames -> Stored]
      <3>1. CASE d.services = Nil
        BY <3>1 DEF NoServices, Stored
      <3>2. CASE d.services # Nil
        <4>1. f = [s \in ServiceNames |-> f[s]]
          BY <3>2
        <4>2. ASSUME NEW w \in Service PROVE Boxed(w, 1) \in Stored
          <5>1. w.checksum \in Checksums
            BY DEF Service
          <5> QED BY <2>2, <5>1 DEF Boxed, Stored, Ref
        <4>3. None \in Stored
          BY DEF Stored
        <4> HIDE DEF f
        <4> QED BY <2>7, <3>2, <4>1, <4>2, <4>3
      <3> QED BY <3>1, <3>2
    <2> HIDE DEF n, root, v, f, g
    <2>9. /\ n.cur = m.cur /\ n.next = root /\ n.owned = {}
          /\ n.groups = [m.groups EXCEPT ![1] = v]
          /\ n.services = [m.services EXCEPT ![1] = f] /\ n.params = g
          /\ n = [cur |-> n.cur, next |-> n.next, owned |-> n.owned, groups |-> n.groups,
                  services |-> n.services, params |-> n.params]
      BY <2>1 DEF Memory
    <2>10. /\ n.groups \in [Cells -> Groups] /\ n.groups[1] = v
           /\ \A i \in Cells \ {1} : n.groups[i] = m.groups[i]
      BY <2>2, <2>4, <2>9, MemoryType
    <2>11. m.services \in [Cells -> [ServiceNames -> Stored]]
      BY MemoryType DEF Stored
    <2>12. /\ n.services \in [Cells -> [ServiceNames -> Stored]] /\ n.services[1] = f
           /\ \A i \in Cells \ {1} : n.services[i] = m.services[i]
      BY <2>2, <2>8, <2>9, <2>11
    <2>13. n \in Memory
      BY <2>3, <2>6, <2>9, <2>10, <2>12, MemoryType, MemoryMade DEF Stored
    <2>14. Isolated(n)
      BY <2>9 DEF Isolated
    <2>15. 0 \in Cells \ {1}
      BY DEF Cells
    <2>16. Deep(n, m.cur) = Deep(m, m.cur)
      <3>1. m.cur.groups # Nil => n.groups[m.cur.groups] = m.groups[m.cur.groups]
        BY <1>2, <2>10, <2>15
      <3>2. m.cur.services # Nil => n.services[m.cur.services] = m.services[m.cur.services]
        BY <1>2, <2>12, <2>15
      <3>3. \A s \in ServiceNames : ParamsRef(m, m.cur, s) # Nil =>
               n.params[s][ParamsRef(m, m.cur, s)] = m.params[s][ParamsRef(m, m.cur, s)]
        BY <2>5, <2>9
      <3>4. m.cur \in Root
        BY MemoryType
      <3> QED BY <2>13, <3>1, <3>2, <3>3, <3>4, SameDeep
    <2>17. ASSUME d.services # Nil, NEW s \in ServiceNames PROVE Seen(n, 1, s) = d.services[s]
      <3>1. CASE d.services[s] = None
        BY <2>7, <2>12, <2>17, <3>1 DEF Seen
      <3>2. CASE d.services[s] # None
        <4>1. n.services[1][s] = Boxed(d.services[s], 1) /\ d.services[s] \in Service
          BY <2>7, <2>12, <2>17, <3>2
        <4>2. d.services[s].params # Nil => n.params[s][1] = d.services[s].params
          BY <2>5, <2>9, <2>17, <3>2
        <4> QED BY <2>2, <4>1, <4>2, BoxedSeen
      <3> QED BY <3>1, <3>2
    <2>18. Deep(n, n.next) = d
      <3>1. d.services # Nil => d.services = [s \in ServiceNames |-> Seen(n, 1, s)]
        BY <2>17, ConfigParts
      <3>2. Deep(n, root) = [groups |-> d.groups, services |-> d.services]
        BY <2>2, <2>3, <2>4, <2>10, <2>13, <3>1, DeepParts
      <3> QED BY <2>9, <3>2, ConfigParts
    <2> QED BY <2>9, <2>13, <2>14, <2>16, <2>18 DEF Edited, n
  <1> QED BY <1>3, <1>4

-----------------------------------------------------------------------------
(* Transactions: sequences of operations, and what they compute.           *)

\* A set of numbers that is not empty has a least element.
LEMMA Least ==
    ASSUME NEW T \in SUBSET Nat, T # {}
    PROVE  \E n \in T : \A k \in T : ~(k < n)
  <1> DEFINE R == {pair \in Nat \X Nat : pair[1] < pair[2]}
  <1>1. IsWellFoundedOn(R, Nat)
    BY NatLessThanWellFounded DEF OpToRel
  <1>2. PICK n \in T : \A k \in T : ~(<<k, n>> \in R)
    <2> HIDE DEF R
    <2> QED BY <1>1, WFMin
  <1>3. ASSUME NEW k \in T, k < n PROVE FALSE
    <2>1. <<k, n>> \in R
      BY <1>3
    <2> QED BY <1>2, <2>1
  <1> QED BY <1>3

\* f lists the documents between the first k operations of t, from c on.
Documents(c, t, f, k) ==
    f = [n \in 0 .. k |-> IF n = 0 THEN c ELSE EditDocument(f[n - 1], t[n])]

LEMMA DocumentsExist ==
    ASSUME NEW c, NEW t, NEW k \in Nat
    PROVE  \E f : Documents(c, t, f, k)
  <1> DEFINE T == {n \in Nat : ~ \E f : Documents(c, t, f, n)}
  <1> SUFFICES ASSUME T # {} PROVE FALSE
    OBVIOUS
  <1>1. PICK n \in T : \A i \in T : ~(i < n)
    <2>1. T \in SUBSET Nat
      OBVIOUS
    <2> HIDE DEF T
    <2> QED BY <2>1, Least
  <1>2. n \in Nat /\ ~ \E f : Documents(c, t, f, n)
    OBVIOUS
  <1>3. CASE n = 0
    <2> DEFINE f == [i \in 0 .. 0 |-> c]
    <2>1. f = [i \in 0 .. 0 |-> IF i = 0 THEN c ELSE EditDocument(f[i - 1], t[i])]
      OBVIOUS
    <2> HIDE DEF f
    <2> QED BY <1>2, <1>3, <2>1 DEF Documents
  <1>4. CASE n # 0
    <2>1. n - 1 \in Nat /\ n - 1 < n
      BY <1>2, <1>4
    <2>2. n - 1 \notin T
      BY <1>1, <2>1
    <2>3. PICK g : Documents(c, t, g, n - 1)
      BY <2>1, <2>2
    <2> DEFINE f == [i \in 0 .. n |-> IF i = n THEN EditDocument(g[n - 1], t[n]) ELSE g[i]]
    <2>4. ASSUME NEW i \in 0 .. n
          PROVE  f[i] = IF i = 0 THEN c ELSE EditDocument(f[i - 1], t[i])
      <3>1. CASE i = 0
        <4>1. f[0] = g[0] /\ 0 \in 0 .. n - 1
          BY <1>4, <2>1
        <4>2. g[0] = c
          BY <2>3, <4>1 DEF Documents
        <4> QED BY <3>1, <4>1, <4>2
      <3>2. CASE i # 0
        <4>1. i - 1 \in 0 .. n /\ i - 1 # n /\ i \in Nat
          BY <3>2
        <4>2. f[i - 1] = g[i - 1]
          BY <4>1
        <4>3. CASE i = n
          <5>1. f[i] = EditDocument(g[n - 1], t[n])
            BY <4>3
          <5> QED BY <3>2, <4>2, <4>3, <5>1
        <4>4. CASE i # n
          <5>1. f[i] = g[i] /\ i \in 0 .. n - 1
            BY <2>1, <4>1, <4>4
          <5>2. g[i] = EditDocument(g[i - 1], t[i])
            BY <2>3, <3>2, <5>1 DEF Documents
          <5> QED BY <3>2, <4>2, <5>1, <5>2
        <4> QED BY <4>3, <4>4
      <3> QED BY <3>1, <3>2
    <2>5. f = [i \in 0 .. n |-> f[i]]
      OBVIOUS
    <2> HIDE DEF f
    <2>6. f = [i \in 0 .. n |-> IF i = 0 THEN c ELSE EditDocument(f[i - 1], t[i])]
      BY <2>4, <2>5
    <2> QED BY <1>2, <2>6 DEF Documents
  <1> QED BY <1>3, <1>4

\* Two transactions with a common prefix compute the same documents along it.
LEMMA DocumentsAgree ==
    ASSUME NEW c, NEW t, NEW u, NEW k \in Nat, NEW l \in Nat, k <= l,
           \A i \in 1 .. k : t[i] = u[i],
           NEW f, Documents(c, t, f, k), NEW g, Documents(c, u, g, l)
    PROVE  f[k] = g[k]
  <1> DEFINE T == {n \in 0 .. k : f[n] # g[n]}
  <1> SUFFICES ASSUME T # {} PROVE FALSE
    OBVIOUS
  <1>1. PICK n \in T : \A i \in T : ~(i < n)
    <2>1. T \in SUBSET Nat
      OBVIOUS
    <2> HIDE DEF T
    <2> QED BY <2>1, Least
  <1>2. n \in 0 .. k /\ f[n] # g[n] /\ n \in 0 .. l
    OBVIOUS
  <1>3. /\ f[n] = IF n = 0 THEN c ELSE EditDocument(f[n - 1], t[n])
        /\ g[n] = IF n = 0 THEN c ELSE EditDocument(g[n - 1], u[n])
    BY <1>2 DEF Documents
  <1>4. n # 0 => n - 1 \in 0 .. k /\ n - 1 < n /\ n \in 1 .. k
    BY <1>2
  <1>5. n # 0 => f[n - 1] = g[n - 1]
    BY <1>1, <1>4
  <1> QED BY <1>2, <1>3, <1>4, <1>5

LEMMA EditAllDocuments ==
    ASSUME NEW c, NEW t, Len(t) \in Nat
    PROVE  \E f : Documents(c, t, f, Len(t)) /\ EditAll(c, t) = f[Len(t)]
  <1> DEFINE g == CHOOSE f : Documents(c, t, f, Len(t))
  <1>1. Documents(c, t, g, Len(t))
    <2>1. \E f : Documents(c, t, f, Len(t))
      BY DocumentsExist
    <2> QED BY <2>1, Zenon
  <1>2. EditAll(c, t) = g[Len(t)]
    BY DEF EditAll, Documents
  <1> QED BY <1>1, <1>2

LEMMA TransactionSeq ==
    ASSUME NEW t, IsTransaction(t)
    PROVE  t \in Seq({t[i] : i \in 1 .. Len(t)})
  <1> DEFINE S == {t[i] : i \in 1 .. Len(t)}
  <1>1. Len(t) \in Nat /\ t = [i \in 1 .. Len(t) |-> t[i]]
    BY DEF IsTransaction
  <1>2. \A i \in 1 .. Len(t) : t[i] \in S
    OBVIOUS
  <1> HIDE DEF S
  <1>3. t \in [1 .. Len(t) -> S]
    BY <1>1, <1>2
  <1> QED BY <1>1, <1>3 DEF S

\* A sequence of operations is a transaction.
LEMMA SeqTransaction ==
    ASSUME NEW S, NEW t \in Seq(S), \A i \in 1 .. Len(t) : IsOperation(t[i])
    PROVE  IsTransaction(t)
  <1>1. Len(t) \in Nat /\ t \in [1 .. Len(t) -> S]
    BY LenProperties
  <1>2. t = [i \in 1 .. Len(t) |-> t[i]]
    BY <1>1
  <1> QED BY <1>1, <1>2 DEF IsTransaction

LEMMA EmptyTransaction == IsTransaction(<<>>) /\ Len(<<>>) = 0
  <1>1. <<>> \in Seq({}) /\ Len(<<>>) = 0
    BY EmptySeq
  <1>2. \A i \in 1 .. Len(<<>>) : IsOperation(<<>>[i])
    BY <1>1
  <1> QED BY <1>1, <1>2, SeqTransaction

LEMMA TransactionTail ==
    ASSUME NEW t, IsTransaction(t), t # <<>>
    PROVE  /\ IsTransaction(Tail(t)) /\ IsOperation(Head(t)) /\ Head(t) = t[1]
           /\ Len(t) \in Nat /\ Len(t) >= 1 /\ Len(Tail(t)) = Len(t) - 1
           /\ \A i \in 1 .. Len(t) - 1 : Tail(t)[i] = t[i + 1]
  <1> DEFINE S == {t[i] : i \in 1 .. Len(t)}
  <1>1. t \in Seq(S)
    BY TransactionSeq
  <1> HIDE DEF S
  <1>2. Len(t) \in Nat \ {0} /\ Head(t) = t[1]
    BY <1>1, EmptySeq
  <1>3. /\ Tail(t) \in Seq(S) /\ Len(Tail(t)) = Len(t) - 1
        /\ \A i \in 1 .. Len(Tail(t)) : Tail(t)[i] = t[i + 1]
    BY <1>1, HeadTailProperties
  <1>4. \A i \in 1 .. Len(t) : IsOperation(t[i])
    BY DEF IsTransaction
  <1>5. \A i \in 1 .. Len(Tail(t)) : IsOperation(Tail(t)[i])
    BY <1>2, <1>3, <1>4
  <1>6. IsTransaction(Tail(t))
    BY <1>3, <1>5, SeqTransaction
  <1>7. IsOperation(Head(t))
    BY <1>2, <1>4
  <1> QED BY <1>2, <1>3, <1>6, <1>7

LEMMA TransactionPrefix ==
    ASSUME NEW t, IsTransaction(t), NEW n \in 0 .. Len(t)
    PROVE  /\ Len(SubSeq(t, 1, n)) = n
           /\ \A i \in 1 .. n : SubSeq(t, 1, n)[i] = t[i]
           /\ n = Len(t) => SubSeq(t, 1, n) = t
  <1> DEFINE S == {t[i] : i \in 1 .. Len(t)}
  <1>1. t \in Seq(S)
    BY TransactionSeq
  <1>2. Len(t) \in Nat
    BY DEF IsTransaction
  <1>3. n \in Int /\ 1 \in Int /\ (\A i \in 1 .. n : t[i] \in S)
    BY <1>2
  <1> HIDE DEF S
  <1>4. /\ Len(SubSeq(t, 1, n)) = IF 1 <= n THEN n - 1 + 1 ELSE 0
        /\ \A i \in 1 .. n - 1 + 1 : SubSeq(t, 1, n)[i] = t[1 + i - 1]
    BY <1>3, SubSeqProperties
  <1>5. SubSeq(t, 1, Len(t)) = t
    BY <1>1, SubSeqFull
  <1>6. \A i \in 1 .. n : i \in 1 .. n - 1 + 1 /\ 1 + i - 1 = i
    BY <1>2
  <1>7. \A i \in 1 .. n : SubSeq(t, 1, n)[i] = t[i]
    BY <1>4, <1>6
  <1>8. Len(SubSeq(t, 1, n)) = n
    BY <1>2, <1>4
  <1> QED BY <1>5, <1>7, <1>8

\* No operation leaves the document as it is.
LEMMA EditNone ==
    ASSUME NEW c, NEW t, Len(t) = 0
    PROVE  EditAll(c, t) = c
  <1>1. PICK f : Documents(c, t, f, 0) /\ EditAll(c, t) = f[0]
    BY EditAllDocuments
  <1> QED BY <1>1 DEF Documents

\* One operation more edits the document once more.
LEMMA EditOneMore ==
    ASSUME NEW c, NEW t, IsTransaction(t), NEW n \in Nat, n < Len(t)
    PROVE  EditAll(c, SubSeq(t, 1, n + 1)) = EditDocument(EditAll(c, SubSeq(t, 1, n)), t[n + 1])
  <1> DEFINE u == SubSeq(t, 1, n)
             v == SubSeq(t, 1, n + 1)
  <1>1. Len(t) \in Nat
    BY DEF IsTransaction
  <1>2. n \in 0 .. Len(t) /\ n + 1 \in 0 .. Len(t)
    BY <1>1
  <1>3. /\ Len(u) = n /\ \A i \in 1 .. n : u[i] = t[i]
        /\ Len(v) = n + 1 /\ \A i \in 1 .. n + 1 : v[i] = t[i]
    BY <1>2, TransactionPrefix
  <1> HIDE DEF u, v
  <1>4. PICK f : Documents(c, u, f, n) /\ EditAll(c, u) = f[n]
    BY <1>3, EditAllDocuments
  <1>5. PICK g : Documents(c, v, g, n + 1) /\ EditAll(c, v) = g[n + 1]
    BY <1>3, EditAllDocuments
  <1>6. n + 1 \in Nat /\ n <= n + 1 /\ \A i \in 1 .. n : u[i] = v[i]
    BY <1>3
  <1>7. f[n] = g[n]
    BY <1>4, <1>5, <1>6, DocumentsAgree
  <1>8. n + 1 \in 0 .. n + 1 /\ n + 1 # 0 /\ (n + 1) - 1 = n
    OBVIOUS
  <1>9. g[n + 1] = EditDocument(g[n], v[n + 1])
    BY <1>5, <1>8 DEF Documents
  <1>10. v[n + 1] = t[n + 1]
    BY <1>3
  <1> QED BY <1>4, <1>5, <1>7, <1>9, <1>10 DEF u, v

\* A patch becomes a transaction, whatever the order of its values.
LEMMA PatchTransaction ==
    ASSUME NEW p \in Patches, NEW t \in PatchOperations(p)
    PROVE  IsTransaction(t)
  <1> DEFINE K == Keys \cup {""}
  <1>1. /\ p.name \in ServiceNames /\ p.delete \in Seq(K)
        /\ p.set \in [Keys -> Values \cup {None}]
    BY ValueAssumption
  <1> DEFINE keys == {k \in Keys : p.set[k] # None}
  <1>2. PICK order \in SetToSeqs(keys) :
           t = Deletes(p) \o [i \in DOMAIN order |->
                                Op("set", "param", p.name, order[i], p.set[order[i]])]
    BY DEF PatchOperations, Sets
  <1> DEFINE a == Deletes(p)
             b == [i \in DOMAIN order |-> Op("set", "param", p.name, order[i], p.set[order[i]])]
             N == Cardinality(keys)
  <1>3. N \in Nat /\ order \in [1 .. N -> keys]
    <2>1. keys \in SUBSET Keys /\ IsFiniteSet(Keys)
      BY ValueAssumption
    <2>2. IsFiniteSet(keys)
      BY <2>1, FS_Subset
    <2> HIDE DEF keys
    <2>3. Cardinality(keys) \in Nat
      BY <2>2, FS_CardinalityType
    <2>4. order \in [1 .. Cardinality(keys) -> keys]
      BY DEF SetToSeqs
    <2> QED BY <2>3, <2>4
  <1>4. \A k \in K : IsOperation(Op("remove", "param", p.name, k, Nil))
    BY <1>1 DEF IsOperation, Op
  <1> HIDE DEF K
  <1>5. \A k \in keys : IsOperation(Op("set", "param", p.name, k, p.set[k]))
    <2> SUFFICES ASSUME NEW k \in keys PROVE IsOperation(Op("set", "param", p.name, k, p.set[k]))
      OBVIOUS
    <2>1. k \in Keys /\ p.set[k] \in Values
      BY <1>1
    <2> QED BY <1>1, <2>1 DEF IsOperation, Op
  <1>6. /\ Len(p.delete) \in Nat /\ DOMAIN p.delete = 1 .. Len(p.delete)
        /\ \A i \in 1 .. Len(p.delete) : p.delete[i] \in K
    BY <1>1, LenProperties
  <1> DEFINE A == {Op("remove", "param", p.name, k, Nil) : k \in K}
             B == {Op("set", "param", p.name, k, p.set[k]) : k \in keys}
  <1>7. a \in [1 .. Len(p.delete) -> A \cup B]
    BY <1>6 DEF Deletes
  <1>8. b \in [1 .. N -> A \cup B]
    BY <1>3
  <1>9. \A op \in A \cup B : IsOperation(op)
    BY <1>4, <1>5
  <1> HIDE DEF a, b, A, B, N
  <1>10. a \in Seq(A \cup B) /\ b \in Seq(A \cup B)
    BY <1>3, <1>6, <1>7, <1>8
  <1>11. t = a \o b
    BY <1>2 DEF a, b
  <1>12. t \in Seq(A \cup B)
    BY <1>10, <1>11, ConcatProperties
  <1>13. \A i \in 1 .. Len(t) : t[i] \in A \cup B
    BY <1>12, ElementOfSeq
  <1> QED BY <1>9, <1>12, <1>13, SeqTransaction

\* An operation turns a configuration into one, whatever became of the services it
\* was meant for.
LEMMA EditDocumentType ==
    ASSUME NEW c \in Config, NEW op, IsOperation(op), ~RefusesNil(op),
           op.target = "param" /\ op.key = "" => op.type = "remove"
    PROVE  EditDocument(c, op) \in Config
  <1> DEFINE h == Holding(c)
  <1>1. h \in Memory /\ Isolated(h) /\ h.next = h.cur /\ Deep(h, h.next) = c
    BY HoldingDeep
  <1>2. CASE ~RefusesPath(h, op)
    <2>1. Edited(h, apply(h, op), EditDocument(Deep(h, h.next), op))
      BY <1>1, <1>2, applyEdits
    <2> DEFINE n == apply(h, op)
    <2>2. n \in Memory /\ Deep(n, n.next) = EditDocument(c, op)
      BY <1>1, <2>1 DEF Edited
    <2> HIDE DEF n
    <2> QED BY <2>2, DeepParts, MemoryType
  <1>3. CASE RefusesPath(h, op)
    <2>1. op.target = "param" /\ op.type = "remove" /\ op.key \notin Keys
      BY <1>3, ValueAssumption, Zenon DEF RefusesPath
    <2>2. op.name \in ServiceNames
      BY <2>1 DEF IsOperation
    <2>3. CASE c.services = Nil \/ c.services[op.name] = None
      BY <2>1, <2>3 DEF EditDocument
    <2>4. CASE c.services # Nil /\ c.services[op.name] # None
      <3> DEFINE w == c.services[op.name]
                 q == IF w.params = Nil THEN Nil ELSE [w.params EXCEPT ![op.key] = None]
      <3>1. /\ c.services \in [ServiceNames -> Service \cup {None}]
            /\ w = [checksum |-> w.checksum, params |-> w.params]
            /\ w.params # Nil => w.params \in Params
        BY <2>2, <2>4, ConfigParts
      <3>2. q = w.params
        BY <2>1, <3>1 DEF Params
      <3>3. EditService(w, op) = [w EXCEPT !.params = q]
        BY <2>1, <2>4 DEF EditService
      <3> HIDE DEF q
      <3>4. EditService(w, op) = w
        BY <3>1, <3>2, <3>3
      <3>5. EditDocument(c, op) = [c EXCEPT !.services = [c.services EXCEPT ![op.name] =
                                     EditService(w, op)]]
        BY <2>1, <2>4 DEF EditDocument, Entry
      <3>6. [c.services EXCEPT ![op.name] = w] = c.services
        BY <2>2, <3>1
      <3> HIDE DEF w
      <3>7. EditDocument(c, op) = [c EXCEPT !.services = c.services]
        BY <3>4, <3>5, <3>6
      <3> QED BY <3>7, ConfigParts
    <2> QED BY <2>3, <2>4
  <1> QED BY <1>2, <1>3

-----------------------------------------------------------------------------
(* The invariant.                                                          *)

Working == pc \in {"edit", "persist", "publish"}

\* Between operations memory holds the configuration in force and nothing else.
QuietInv == ~Working => mem = Holding(Effective)

\* A transaction: its editor's maps are its own, and what is left to do of it is
\* the end of it.
EditInv ==
    Working =>
        /\ Isolated(mem) /\ source \in Config /\ doc \in Config
        /\ IsTransaction(txn) /\ IsTransaction(todo)
        /\ Len(todo) <= Len(txn)
        /\ \A i \in 1 .. Len(todo) : todo[i] = txn[Len(txn) - Len(todo) + i]
        /\ pc # "edit" => todo = <<>>
        /\ outcome = "none"

\* The transaction a patch asked for.
PatchInv == Working /\ patch # None => patch \in Patches /\ txn \in PatchOperations(patch)

\* What is written and published has been compared and validated.
PersistInv == pc \in {"persist", "publish"} => Candidate = doc /\ ValidConfig(doc)

\* The file is what this process knows of it, unless others wrote.
DiskInv ==
    /\ pc \in {"edit", "persist"} /\ ~foreign => file = source
    /\ pc = "publish" /\ ~foreign => file = doc

ConfInv ==
    /\ TypeOK /\ QuietInv /\ EditInv /\ PatchInv /\ PersistInv /\ DiskInv
    /\ EditorComputesTransaction /\ FileCanBeLoaded /\ InForceIsOnDisk

\* What is in force and what the editor has made of it are configurations.
LEMMA ConfigsInMemory ==
    ASSUME mem \in Memory
    PROVE  Effective \in Config /\ Candidate \in Config
  BY DeepParts, MemoryType DEF Effective, Candidate

LEMMA IndexType ==
    ASSUME NEW groups
    PROVE  indexGroupsByUser(groups) \in [Users -> SUBSET GroupNames]
  BY DEF indexGroupsByUser

\* Memory that was emptied but for c has c in force.
LEMMA NowHolding ==
    ASSUME NEW c \in Config, mem' = Holding(c)
    PROVE  mem' \in Memory /\ Effective' = c /\ mem' = Holding(Effective')
  <1>1. mem' \in Memory /\ Deep(mem', mem'.cur) = c
    BY HoldingDeep
  <1>2. Effective' = c
    BY <1>1 DEF Effective
  <1> QED BY <1>1, <1>2

LEMMA EditsBounded == MaxEdits \in Nat
  BY ValueAssumption, Zenon

LEMMA DefaultsValid == Defaults \in Config /\ ValidConfig(Defaults)
  BY DEF Defaults, Config, ValidConfig

LEMMA DecodedFile ==
    ASSUME TypeOK, FileCanBeLoaded, Decodes(file)
    PROVE  file \in Config /\ ValidConfig(file)
  BY DEF TypeOK, FileCanBeLoaded, Decodes

\* No operation is under way in the next state: all there is to show is the file,
\* what is in force, and that memory holds nothing else.
LEMMA QuietStep ==
    ASSUME TypeOK', ~Working', (mem = Holding(Effective))', FileCanBeLoaded', InForceIsOnDisk'
    PROVE  ConfInv'
  BY DEF ConfInv, QuietInv, EditInv, PatchInv, PersistInv, DiskInv, EditorComputesTransaction,
         Working

LEMMA InitInv == Init => ConfInv
  <1> SUFFICES ASSUME Init PROVE ConfInv
    OBVIOUS
  <1>1. mem \in Memory /\ Effective = Defaults
    BY DefaultsValid, HoldingDeep DEF Init, Effective
  <1>2. file \in Config \cup {Missing, Broken} /\ FileCanBeLoaded
    BY FileAssumption DEF Init, FileCanBeLoaded, Decodes
  <1>3. TypeOK
    <2>1. edits \in 0 .. MaxEdits
      BY EditsBounded DEF Init
    <2> QED BY <1>1, <1>2, <2>1, IndexType DEF Init, TypeOK
  <1>4. QuietInv /\ EditInv /\ PatchInv /\ PersistInv /\ DiskInv /\ EditorComputesTransaction
    BY <1>1 DEF Init, QuietInv, EditInv, PatchInv, PersistInv, DiskInv,
                EditorComputesTransaction, Working
  <1>5. InForceIsOnDisk
    BY <1>1 DEF Init, InForceIsOnDisk, Defaults
  <1> QED BY <1>2, <1>3, <1>4, <1>5 DEF ConfInv

\* An operation that fails leaves in force what was.
LEMMA Returned ==
    ASSUME ConfInv, NEW result \in {"error", "no_path"}, Return(result),
           UNCHANGED <<path, file, edits, index, foreign>>
    PROVE  ConfInv' /\ Effective' = Effective
  <1>1. Effective \in Config
    BY ConfigsInMemory DEF ConfInv, TypeOK
  <1>2. mem' \in Memory /\ Effective' = Effective /\ mem' = Holding(Effective')
    BY <1>1, NowHolding DEF Return
  <1>3. TypeOK'
    BY <1>2 DEF ConfInv, TypeOK, Return, EndTransaction
  <1>4. FileCanBeLoaded' /\ InForceIsOnDisk'
    <2>1. index' = indexGroupsByUser(Effective'.groups)
      BY <1>2 DEF ConfInv, InForceIsOnDisk
    <2>2. outcome' # "ok"
      BY DEF Return
    <2> QED BY <2>1, <2>2 DEF ConfInv, FileCanBeLoaded, InForceIsOnDisk
  <1>5. ~Working'
    BY DEF Return, Working
  <1> QED BY <1>2, <1>3, <1>4, <1>5, QuietStep

\* What is published becomes the configuration in force, and its index with it.
LEMMA Published ==
    ASSUME ConfInv, NEW c \in Config, publishLocked(c), pc' = "idle", outcome' = "ok",
           path' \in BOOLEAN, foreign' \in BOOLEAN, edits' = edits,
           patch' \in Patches \cup {None}, source' \in Config \cup {Nil},
           doc' \in Config \cup {Nil},
           file' \in Config \cup {Missing, Broken}, FileCanBeLoaded',
           ~foreign' => file' = c
    PROVE  ConfInv'
  <1>1. mem' \in Memory /\ Effective' = c /\ mem' = Holding(Effective')
    BY NowHolding DEF publishLocked
  <1>2. index' = indexGroupsByUser(c.groups) /\ index' \in [Users -> SUBSET GroupNames]
    BY IndexType DEF publishLocked
  <1>3. TypeOK'
    BY <1>1, <1>2 DEF ConfInv, TypeOK
  <1>4. InForceIsOnDisk'
    BY <1>1, <1>2 DEF InForceIsOnDisk
  <1>5. ~Working'
    BY DEF Working
  <1> QED BY <1>1, <1>3, <1>4, <1>5, QuietStep

\* A step that leaves memory and the transaction alone.
LEMMA SameMemory ==
    ASSUME mem' = mem
    PROVE  Effective' = Effective /\ Candidate' = Candidate
  BY DEF Effective, Candidate

LEMMA WriteFileInv ==
    ASSUME ConfInv, NEW content \in ForeignFiles, WriteFile(content)
    PROVE  ConfInv' /\ Effective' = Effective
  <1>1. Effective' = Effective /\ Candidate' = Candidate
    BY SameMemory DEF WriteFile
  <1>2. file' \in Config \cup {Missing, Broken} /\ FileCanBeLoaded'
    BY FileAssumption DEF WriteFile, FileCanBeLoaded, Decodes
  <1>3. TypeOK'
    <2>1. edits' \in 0 .. MaxEdits
      BY EditsBounded DEF ConfInv, TypeOK, WriteFile
    <2> QED BY <1>2, <2>1 DEF ConfInv, TypeOK, WriteFile, txnVars
  <1>4. EditorComputesTransaction' /\ PatchInv' /\ PersistInv' /\ QuietInv' /\ EditInv'
    BY <1>1 DEF ConfInv, WriteFile, txnVars, EditorComputesTransaction, PatchInv, PersistInv,
                QuietInv, EditInv, Working
  <1>5. DiskInv' /\ InForceIsOnDisk'
    BY <1>1 DEF ConfInv, WriteFile, DiskInv, InForceIsOnDisk
  <1> QED BY <1>1, <1>2, <1>3, <1>4, <1>5 DEF ConfInv

LEMMA CrashInv ==
    ASSUME ConfInv, Crash
    PROVE  ConfInv'
  <1>1. mem' \in Memory /\ Effective' = Defaults /\ mem' = Holding(Effective')
    BY DefaultsValid, NowHolding DEF Crash
  <1>2. TypeOK'
    BY <1>1, IndexType DEF ConfInv, TypeOK, Crash, EndTransaction
  <1>3. FileCanBeLoaded' /\ InForceIsOnDisk'
    BY <1>1 DEF ConfInv, Crash, FileCanBeLoaded, InForceIsOnDisk, Defaults
  <1>4. ~Working'
    BY DEF Crash, Working
  <1> QED BY <1>1, <1>2, <1>3, <1>4, QuietStep

\* A step between operations that does not change what is in force.
LEMMA StaysQuiet ==
    ASSUME ConfInv, ~Working, UNCHANGED <<file, edits, mem, index, txnVars, foreign>>,
           path' = path, pc' \in {"down", "create", "load", "idle"},
           outcome' \in {"none", "ok", "error", "no_path"}, pc' = "idle" => outcome' # "ok"
    PROVE  ConfInv' /\ Effective' = Effective
  <1>1. Effective' = Effective
    BY SameMemory
  <1>2. TypeOK'
    BY DEF ConfInv, TypeOK, txnVars
  <1>3. ~Working' /\ (mem = Holding(Effective))'
    BY <1>1 DEF ConfInv, QuietInv, Working
  <1>4. FileCanBeLoaded' /\ InForceIsOnDisk'
    BY <1>1 DEF ConfInv, FileCanBeLoaded, InForceIsOnDisk
  <1> QED BY <1>1, <1>2, <1>3, <1>4, QuietStep

LEMMA LoadInv ==
    ASSUME ConfInv, StatFile \/ CreateFile \/ LoadFile \/ Reload
    PROVE  ConfInv' /\ (Effective' # Effective => pc \in {"create", "load", "idle"} /\ outcome' = "ok")
  <1>1. CASE StatFile
    <2>1. ~Working /\ pc' \in {"create", "load"}
      BY <1>1 DEF StatFile, Working
    <2>2. outcome' = outcome /\ outcome \in {"none", "ok", "error", "no_path"}
      BY <1>1 DEF StatFile, ConfInv, TypeOK
    <2> QED BY <1>1, <2>1, <2>2, StaysQuiet DEF StatFile
  <1>2. CASE CreateFile
    <2>1. ~Working /\ pc = "create"
      BY <1>2 DEF CreateFile, Working
    <2>2. CASE file = Missing /\ file' = Defaults /\ publishLocked(Defaults)
               /\ pc' = "idle" /\ path' = TRUE /\ outcome' = "ok" /\ foreign' = FALSE
      <3>1. FileCanBeLoaded' /\ Defaults \in Config
        BY <2>2, DefaultsValid DEF FileCanBeLoaded
      <3>2. /\ edits' = edits /\ patch' \in Patches \cup {None}
            /\ source' \in Config \cup {Nil} /\ doc' \in Config \cup {Nil}
        BY <1>2 DEF CreateFile, txnVars, ConfInv, TypeOK
      <3> QED BY <2>1, <2>2, <3>1, <3>2, Published
    <2>3. CASE file # Missing /\ pc' = "load"
               /\ UNCHANGED <<path, file, mem, index, outcome, foreign>>
      <3>1. outcome' \in {"none", "ok", "error", "no_path"}
        BY <2>3 DEF ConfInv, TypeOK
      <3> QED BY <1>2, <2>1, <2>3, <3>1, StaysQuiet DEF CreateFile
    <2>4. CASE pc' = "idle" /\ outcome' = "error" /\ UNCHANGED <<path, file, mem, index, foreign>>
      BY <1>2, <2>1, <2>4, StaysQuiet DEF CreateFile
    <2> QED BY <1>2, <2>2, <2>3, <2>4 DEF CreateFile
  <1>3. CASE LoadFile
    <2>1. ~Working /\ pc = "load" /\ pc' = "idle" /\ UNCHANGED <<file, edits, txnVars>>
      BY <1>3 DEF LoadFile, Working
    <2>2. CASE Decodes(file)
      <3>1. publishLocked(file) /\ path' = TRUE /\ outcome' = "ok" /\ foreign' = FALSE
        BY <1>3, <2>2 DEF LoadFile
      <3>2. file \in Config /\ FileCanBeLoaded'
        BY <2>1, <2>2, DecodedFile DEF ConfInv, FileCanBeLoaded
      <3>3. /\ patch' \in Patches \cup {None}
            /\ source' \in Config \cup {Nil} /\ doc' \in Config \cup {Nil}
        BY <2>1 DEF txnVars, ConfInv, TypeOK
      <3> QED BY <2>1, <3>1, <3>2, <3>3, Published
    <2>3. CASE ~Decodes(file)
      <3>1. outcome' = "error" /\ UNCHANGED <<path, mem, index, foreign>>
        BY <1>3, <2>3 DEF LoadFile
      <3> QED BY <2>1, <3>1, StaysQuiet
    <2> QED BY <2>2, <2>3
  <1>4. CASE Reload
    <2>1. ~Working /\ pc = "idle" /\ pc' = "idle" /\ UNCHANGED <<path, file, edits, txnVars>>
      BY <1>4 DEF Reload, Working
    <2>2. CASE path /\ Decodes(file)
      <3>1. publishLocked(file) /\ outcome' = "ok" /\ foreign' = FALSE
        BY <1>4, <2>2 DEF Reload
      <3>2. file \in Config /\ FileCanBeLoaded'
        BY <2>1, <2>2, DecodedFile DEF ConfInv, FileCanBeLoaded
      <3>3. /\ patch' \in Patches \cup {None} /\ path' \in BOOLEAN
            /\ source' \in Config \cup {Nil} /\ doc' \in Config \cup {Nil}
        BY <2>1 DEF txnVars, ConfInv, TypeOK
      <3> QED BY <2>1, <3>1, <3>2, <3>3, Published
    <2>3. CASE ~(path /\ Decodes(file))
      <3>1. outcome' \in {"error", "no_path"} /\ UNCHANGED <<mem, index, foreign>>
        BY <1>4, <2>3 DEF Reload, ReadFailure
      <3> QED BY <2>1, <3>1, StaysQuiet
    <2> QED BY <2>2, <2>3
  <1> QED BY <1>1, <1>2, <1>3, <1>4

LEMMA BeginUpdateInv ==
    ASSUME ConfInv, NEW t, IsTransaction(t), NEW p \in Patches \cup {None},
           p # None => t \in PatchOperations(p), BeginUpdate(t, p)
    PROVE  ConfInv' /\ Effective' = Effective
  <1>1. pc = "idle" /\ UNCHANGED <<path, file, edits, index>>
    BY DEF BeginUpdate
  <1>2. CASE ~(path /\ Decodes(file))
    <2>1. Return(ReadFailure) /\ foreign' = foreign
      BY <1>2 DEF BeginUpdate
    <2>2. ReadFailure \in {"error", "no_path"}
      BY DEF ReadFailure
    <2> QED BY <1>1, <2>1, <2>2, Returned
  <1>3. CASE path /\ Decodes(file)
    <2>1. /\ pc' = "edit" /\ patch' = p /\ txn' = t /\ todo' = t /\ source' = file
          /\ doc' = file /\ outcome' = "none" /\ foreign' = FALSE
          /\ mem' = StartEditor(mem, Effective, file)
      BY <1>3 DEF BeginUpdate
    <2>2. file \in Config
      BY <1>3, DecodedFile DEF ConfInv
    <2>3. mem \in Memory /\ mem = Holding(Deep(mem, mem.cur))
      BY <1>1 DEF ConfInv, TypeOK, QuietInv, Working, Effective
    <2>4. Edited(mem, mem', file)
      BY <2>1, <2>2, <2>3, StartEditorEdits DEF Effective
    <2>5. mem' \in Memory /\ Isolated(mem') /\ Effective' = Effective /\ Candidate' = file
      BY <2>4 DEF Edited, Effective, Candidate
    <2>6. TypeOK'
      BY <1>1, <2>1, <2>2, <2>5 DEF ConfInv, TypeOK
    <2>7. EditInv'
      <3>1. Len(t) \in Nat
        BY DEF IsTransaction
      <3>2. /\ Len(t) <= Len(t)
            /\ \A i \in 1 .. Len(t) : t[i] = t[Len(t) - Len(t) + i]
        BY <3>1
      <3>3. Isolated(mem)'
        BY <2>5 DEF Isolated, ParamsRef
      <3> QED BY <2>1, <2>2, <3>2, <3>3 DEF EditInv
    <2>8. EditorComputesTransaction'
      <3>1. Len(t) \in Nat
        BY DEF IsTransaction
      <3>2. Len(t) - Len(t) = 0 /\ 0 \in 0 .. Len(t)
        BY <3>1
      <3>3. Len(SubSeq(t, 1, 0)) = 0
        BY <3>2, TransactionPrefix
      <3>4. EditAll(file, SubSeq(t, 1, Len(t) - Len(t))) = file
        BY <3>2, <3>3, EditNone
      <3> QED BY <2>1, <2>5, <3>4 DEF EditorComputesTransaction
    <2>9. QuietInv' /\ PersistInv' /\ DiskInv' /\ PatchInv'
      BY <1>1, <2>1 DEF QuietInv, PersistInv, DiskInv, PatchInv, Working
    <2>10. FileCanBeLoaded' /\ InForceIsOnDisk'
      BY <1>1, <2>1, <2>5 DEF ConfInv, FileCanBeLoaded, InForceIsOnDisk
    <2> QED BY <2>5, <2>6, <2>7, <2>8, <2>9, <2>10 DEF ConfInv
  <1> QED BY <1>2, <1>3

\* The operations done so far and one more.
LEMMA OneMoreDone ==
    ASSUME EditInv, pc = "edit", todo # <<>>
    PROVE  LET n == Len(txn) - Len(todo)
           IN /\ n \in Nat /\ n < Len(txn) /\ Len(txn) - Len(Tail(todo)) = n + 1
              /\ Head(todo) = txn[n + 1] /\ IsOperation(Head(todo))
              /\ IsTransaction(Tail(todo)) /\ Len(Tail(todo)) <= Len(txn)
              /\ \A i \in 1 .. Len(Tail(todo)) :
                   Tail(todo)[i] = txn[Len(txn) - Len(Tail(todo)) + i]
  <1>1. /\ IsTransaction(txn) /\ IsTransaction(todo) /\ Len(todo) <= Len(txn)
        /\ \A i \in 1 .. Len(todo) : todo[i] = txn[Len(txn) - Len(todo) + i]
    BY DEF EditInv, Working
  <1>2. Len(txn) \in Nat
    BY <1>1 DEF IsTransaction
  <1>3. /\ IsTransaction(Tail(todo)) /\ IsOperation(Head(todo)) /\ Head(todo) = todo[1]
        /\ Len(todo) \in Nat /\ Len(todo) >= 1 /\ Len(Tail(todo)) = Len(todo) - 1
        /\ \A i \in 1 .. Len(todo) - 1 : Tail(todo)[i] = todo[i + 1]
    BY <1>1, TransactionTail
  <1>4. Head(todo) = txn[Len(txn) - Len(todo) + 1]
    BY <1>1, <1>3
  <1>5. ASSUME NEW i \in 1 .. Len(Tail(todo))
        PROVE  Tail(todo)[i] = txn[Len(txn) - Len(Tail(todo)) + i]
    <2>1. Tail(todo)[i] = todo[i + 1] /\ i + 1 \in 1 .. Len(todo) /\ i \in Int
      BY <1>3, <1>5
    <2>2. todo[i + 1] = txn[Len(txn) - Len(todo) + (i + 1)]
      BY <1>1, <2>1
    <2>3. Len(txn) - Len(todo) + (i + 1) = Len(txn) - Len(Tail(todo)) + i
      BY <1>2, <1>3, <2>1
    <2> QED BY <2>1, <2>2, <2>3
  <1> QED BY <1>1, <1>2, <1>3, <1>4, <1>5

LEMMA ApplyOperationInv ==
    ASSUME ConfInv, ApplyOperation
    PROVE  /\ ConfInv' /\ Effective' = Effective
           /\ pc' = "edit" => Candidate' = EditDocument(Candidate, Head(todo))
  <1> DEFINE op == Head(todo)
  <1>1. pc = "edit" /\ todo # <<>> /\ UNCHANGED <<path, file, edits, index, foreign>>
    BY DEF ApplyOperation
  <1>2. CASE Return("error")
    BY <1>1, <1>2, Returned DEF Return
  <1>3. CASE /\ ~RefusesNil(op) /\ ~RefusesPath(mem, op)
             /\ mem' = apply(mem, op) /\ doc' \in {EditDocument(doc, op), doc}
             /\ todo' = Tail(todo) /\ UNCHANGED <<pc, patch, txn, source, outcome>>
    <2> DEFINE n == Len(txn) - Len(todo)
    <2>1. /\ n \in Nat /\ n < Len(txn) /\ Len(txn) - Len(Tail(todo)) = n + 1
          /\ op = txn[n + 1] /\ IsOperation(op)
          /\ IsTransaction(Tail(todo)) /\ Len(Tail(todo)) <= Len(txn)
          /\ \A i \in 1 .. Len(Tail(todo)) :
               Tail(todo)[i] = txn[Len(txn) - Len(Tail(todo)) + i]
      BY <1>1, OneMoreDone DEF ConfInv
    <2>2. mem \in Memory /\ Isolated(mem) /\ doc \in Config /\ source \in Config
          /\ IsTransaction(txn) /\ outcome = "none"
      BY <1>1 DEF ConfInv, TypeOK, EditInv, Working
    <2>3. Edited(mem, mem', EditDocument(Candidate, op))
      BY <1>3, <2>1, <2>2, applyEdits DEF Candidate
    <2>4. /\ mem' \in Memory /\ Isolated(mem') /\ Effective' = Effective
          /\ Candidate' = EditDocument(Candidate, op)
      BY <2>3 DEF Edited, Effective, Candidate
    <2>5. doc' \in Config
      <3>1. op.target = "param" /\ op.key = "" => op.type = "remove"
        BY <1>3, <2>1, Zenon DEF RefusesPath, IsOperation
      <3>2. EditDocument(doc, op) \in Config
        BY <1>3, <2>1, <2>2, <3>1, EditDocumentType
      <3> QED BY <1>3, <2>2, <3>2
    <2>6. TypeOK'
      BY <1>1, <1>3, <2>4, <2>5 DEF ConfInv, TypeOK
    <2>7. EditInv'
      <3>1. Isolated(mem)'
        BY <2>4 DEF Isolated, ParamsRef
      <3> HIDE DEF op, n
      <3> QED BY <1>1, <1>3, <2>1, <2>2, <2>5, <3>1 DEF EditInv
    <2>8. EditorComputesTransaction'
      <3>1. Candidate = EditAll(source, SubSeq(txn, 1, n))
        BY <1>1 DEF ConfInv, EditorComputesTransaction
      <3>2. EditAll(source, SubSeq(txn, 1, n + 1)) = EditDocument(Candidate, op)
        <4> HIDE DEF n, op
        <4>1. EditAll(source, SubSeq(txn, 1, n + 1))
                = EditDocument(EditAll(source, SubSeq(txn, 1, n)), txn[n + 1])
          BY <2>1, <2>2, EditOneMore
        <4> QED BY <2>1, <3>1, <4>1
      <3>3. Candidate' = EditAll(source', SubSeq(txn', 1, Len(txn') - Len(todo')))
        BY <1>3, <2>1, <2>4, <3>2
      <3> QED BY <3>3 DEF EditorComputesTransaction
    <2>9. QuietInv' /\ PersistInv' /\ PatchInv'
      BY <1>1, <1>3 DEF ConfInv, QuietInv, PersistInv, PatchInv, Working
    <2>10. DiskInv' /\ FileCanBeLoaded' /\ InForceIsOnDisk'
      BY <1>1, <1>3, <2>4 DEF ConfInv, DiskInv, FileCanBeLoaded, InForceIsOnDisk
    <2> QED BY <2>4, <2>6, <2>7, <2>8, <2>9, <2>10 DEF ConfInv
  <1> QED BY <1>2, <1>3 DEF ApplyOperation

LEMMA ValidateInv ==
    ASSUME ConfInv, Validate
    PROVE  ConfInv' /\ Effective' = Effective
  <1>1. pc = "edit" /\ todo = <<>> /\ UNCHANGED <<path, file, edits, index, foreign>>
    BY DEF Validate
  <1>2. CASE ~(ValidConfig(Candidate) /\ Candidate = doc)
    BY <1>1, <1>2, Returned DEF Validate
  <1>3. CASE ValidConfig(Candidate) /\ Candidate = doc
    <2>1. /\ pc' = "persist" \/ (doc = source /\ pc' = "publish")
          /\ UNCHANGED <<mem, txnVars, outcome>>
      BY <1>3 DEF Validate
    <2>2. Effective' = Effective /\ Candidate' = Candidate
      BY <2>1, SameMemory
    <2>3. TypeOK'
      BY <1>1, <2>1 DEF ConfInv, TypeOK, txnVars
    <2>4. EditInv' /\ EditorComputesTransaction'
      BY <1>1, <2>1, <2>2 DEF ConfInv, EditInv, EditorComputesTransaction, Working, txnVars
    <2>5. PersistInv' /\ QuietInv' /\ PatchInv'
      BY <1>1, <1>3, <2>1, <2>2 DEF ConfInv, PersistInv, QuietInv, PatchInv, Working, txnVars
    <2>6. DiskInv' /\ FileCanBeLoaded' /\ InForceIsOnDisk'
      BY <1>1, <2>1, <2>2 DEF ConfInv, DiskInv, FileCanBeLoaded, InForceIsOnDisk, txnVars
    <2> QED BY <2>2, <2>3, <2>4, <2>5, <2>6 DEF ConfInv
  <1> QED BY <1>2, <1>3

\* After the last operation the candidate is the whole transaction.
LEMMA WholeTransaction ==
    ASSUME ConfInv, pc \in {"persist", "publish"}
    PROVE  Candidate = EditAll(source, txn) /\ doc = EditAll(source, txn)
  <1>1. IsTransaction(txn) /\ todo = <<>> /\ Candidate = doc
    BY DEF ConfInv, EditInv, PersistInv, Working
  <1>2. Len(txn) \in Nat
    BY <1>1 DEF IsTransaction
  <1>3. Len(txn) - Len(todo) = Len(txn) /\ Len(txn) \in 0 .. Len(txn)
    BY <1>1, <1>2, EmptyTransaction
  <1>4. SubSeq(txn, 1, Len(txn)) = txn
    BY <1>1, <1>3, TransactionPrefix
  <1>5. Candidate = EditAll(source, SubSeq(txn, 1, Len(txn) - Len(todo)))
    BY DEF ConfInv, EditorComputesTransaction
  <1> QED BY <1>1, <1>3, <1>4, <1>5

LEMMA PersistStepInv ==
    ASSUME ConfInv, Persist
    PROVE  /\ ConfInv' /\ Effective' = Effective
           /\ pc' = "publish" => file' = EditAll(source, txn)
  <1>1. pc = "persist" /\ UNCHANGED <<path, edits, index>>
    BY DEF Persist
  <1>2. CASE Return("error") /\ UNCHANGED <<file, foreign>>
    BY <1>1, <1>2, Returned DEF Return
  <1>3. CASE file' = doc /\ foreign' = FALSE /\ pc' = "publish" /\ UNCHANGED <<mem, txnVars, outcome>>
    <2>1. Effective' = Effective /\ Candidate' = Candidate
      BY <1>3, SameMemory
    <2>2. doc \in Config /\ ValidConfig(doc)
      BY <1>1 DEF ConfInv, EditInv, PersistInv, Working
    <2>3. TypeOK'
      BY <1>1, <1>3, <2>2 DEF ConfInv, TypeOK, txnVars
    <2>4. EditInv' /\ EditorComputesTransaction'
      BY <1>1, <1>3, <2>1 DEF ConfInv, EditInv, EditorComputesTransaction, Working, txnVars
    <2>5. PersistInv' /\ QuietInv' /\ PatchInv'
      BY <1>1, <1>3, <2>1 DEF ConfInv, PersistInv, QuietInv, PatchInv, Working, txnVars
    <2>6. DiskInv' /\ FileCanBeLoaded' /\ InForceIsOnDisk'
      BY <1>1, <1>3, <2>1, <2>2 DEF ConfInv, DiskInv, FileCanBeLoaded, InForceIsOnDisk, txnVars
    <2>7. file' = EditAll(source, txn)
      BY <1>1, <1>3, WholeTransaction
    <2> QED BY <2>1, <2>3, <2>4, <2>5, <2>6, <2>7 DEF ConfInv
  <1> QED BY <1>2, <1>3 DEF Persist

LEMMA EndUpdateInv ==
    ASSUME ConfInv, EndUpdate
    PROVE  ConfInv' /\ Effective' = EditAll(source, txn)
  <1>1. /\ pc = "publish" /\ pc' = "idle" /\ outcome' = "ok" /\ EndTransaction
        /\ UNCHANGED <<path, file, edits, foreign>>
    BY DEF EndUpdate
  <1>2. Candidate = EditAll(source, txn) /\ Candidate = doc
    BY <1>1, WholeTransaction
  <1>3. Candidate \in Config
    BY ConfigsInMemory DEF ConfInv, TypeOK
  <1>4. publishLocked(Candidate)
    BY DEF EndUpdate, publishLocked, ConfInv, InForceIsOnDisk
  <1>5. Effective' = Candidate
    BY <1>3, <1>4, NowHolding DEF publishLocked
  <1>6. /\ FileCanBeLoaded' /\ (~foreign' => file' = Candidate)
        /\ file' \in Config \cup {Missing, Broken} /\ path' \in BOOLEAN /\ foreign' \in BOOLEAN
    BY <1>1, <1>2 DEF ConfInv, TypeOK, FileCanBeLoaded, DiskInv
  <1>7. patch' \in Patches \cup {None} /\ source' \in Config \cup {Nil} /\ doc' \in Config \cup {Nil}
    BY <1>1 DEF EndTransaction
  <1>8. ConfInv'
    BY <1>1, <1>3, <1>4, <1>6, <1>7, Published
  <1> QED BY <1>2, <1>5, <1>8

-----------------------------------------------------------------------------
(* The steps together.                                                     *)

\* The transaction a request asks for.
LEMMA RequestedTransaction ==
    /\ \A i \in DOMAIN Transactions : IsTransaction(Transactions[i])
    /\ \A p \in Patches : p # None /\ \A t \in PatchOperations(p) : IsTransaction(t)
  BY TransactionAssumption, AbsentAssumption, PatchTransaction

\* What a step may do, in the words of the action properties.
LEMMA StepInv ==
    ASSUME ConfInv, [Next]_vars
    PROVE  /\ ConfInv'
           /\ Effective' # Effective =>
                \/ pc' = "down"
                \/ pc \in {"create", "load", "idle", "publish"} /\ outcome' = "ok"
           /\ (pc = "persist" /\ pc' = "publish") => file' = EditAll(source, txn)
           /\ (pc = "publish" /\ outcome' = "ok") =>
                Effective' = EditAll(source, txn)
  <1>0. pc = "publish" => outcome = "none"
    BY DEF ConfInv, EditInv, Working
  <1>1. CASE UNCHANGED vars
    <2>1. Effective' = Effective /\ Candidate' = Candidate
      BY <1>1, SameMemory DEF vars
    <2>2. TypeOK' /\ FileCanBeLoaded' /\ InForceIsOnDisk'
      BY <1>1, <2>1 DEF vars, txnVars, ConfInv, TypeOK, FileCanBeLoaded, InForceIsOnDisk
    <2>3. EditInv' /\ EditorComputesTransaction' /\ PersistInv' /\ QuietInv' /\ PatchInv' /\ DiskInv'
      BY <1>1, <2>1 DEF vars, txnVars, ConfInv, EditInv, EditorComputesTransaction, PersistInv,
                        QuietInv, PatchInv, DiskInv, Working
    <2> QED BY <1>0, <1>1, <2>1, <2>2, <2>3 DEF ConfInv, vars
  <1>2. ASSUME NEW content \in ForeignFiles, WriteFile(content) PROVE pc' = pc /\ outcome' = outcome
    BY <1>2 DEF WriteFile
  <1>3. CASE \E content \in ForeignFiles : WriteFile(content)
    BY <1>0, <1>2, <1>3, WriteFileInv
  <1>4. CASE Crash
    BY <1>4, CrashInv DEF Crash
  <1>5. CASE StatFile \/ CreateFile \/ LoadFile \/ Reload
    <2>1. pc \notin {"persist", "publish"}
      BY <1>5 DEF StatFile, CreateFile, LoadFile, Reload
    <2> QED BY <1>5, <2>1, LoadInv
  <1>6. CASE \E i \in DOMAIN Transactions : BeginUpdate(Transactions[i], None)
    <2>1. PICK i \in DOMAIN Transactions : BeginUpdate(Transactions[i], None)
      BY <1>6
    <2>2. pc = "idle"
      BY <2>1 DEF BeginUpdate
    <2> QED BY <2>1, <2>2, RequestedTransaction, BeginUpdateInv
  <1>7. CASE \E p \in Patches : BeginPatch(p)
    <2>1. PICK p \in Patches : BeginPatch(p)
      BY <1>7
    <2>2. PICK t \in PatchOperations(p) : BeginUpdate(t, p)
      BY <2>1 DEF BeginPatch
    <2>3. pc = "idle"
      BY <2>2 DEF BeginUpdate
    <2> QED BY <2>2, <2>3, RequestedTransaction, BeginUpdateInv
  <1>8. CASE ApplyOperation
    <2>1. pc = "edit"
      BY <1>8 DEF ApplyOperation
    <2> QED BY <1>8, <2>1, ApplyOperationInv
  <1>9. CASE Validate
    <2>1. pc = "edit"
      BY <1>9 DEF Validate
    <2> QED BY <1>9, <2>1, ValidateInv
  <1>10. CASE Persist
    <2>1. pc = "persist"
      BY <1>10 DEF Persist
    <2> QED BY <1>10, <2>1, PersistStepInv
  <1>11. CASE EndUpdate
    <2>1. pc = "publish" /\ outcome' = "ok"
      BY <1>11 DEF EndUpdate
    <2> QED BY <1>11, <2>1, EndUpdateInv
  <1> QED BY <1>1, <1>3, <1>4, <1>5, <1>6, <1>7, <1>8, <1>9, <1>10, <1>11 DEF Next, Update

LEMMA Invariant == Spec => []ConfInv
  <1>1. ConfInv /\ [Next]_vars => ConfInv'
    BY StepInv
  <1> QED BY <1>1, InitInv, PTL DEF Spec

\* File, memory, transaction and outcome keep their shape.
THEOREM TypeCorrect == Spec => []TypeOK
  <1>1. ConfInv => TypeOK
    BY DEF ConfInv
  <1> QED BY <1>1, Invariant, PTL

\* The editor's candidate is, after any number of operations, the file that was
\* read with these operations applied in order, for transactions of every length.
THEOREM EditorSafety == Spec => []EditorComputesTransaction
  <1>1. ConfInv => EditorComputesTransaction
    BY DEF ConfInv
  <1> QED BY <1>1, Invariant, PTL

\* What this process leaves in the file passes the validation of the next load.
THEOREM FileSafety == Spec => []FileCanBeLoaded
  <1>1. ConfInv => FileCanBeLoaded
    BY DEF ConfInv
  <1> QED BY <1>1, Invariant, PTL

\* File, configuration and index agree after every successful operation.
THEOREM DiskSafety == Spec => []InForceIsOnDisk
  <1>1. ConfInv => InForceIsOnDisk
    BY DEF ConfInv
  <1> QED BY <1>1, Invariant, PTL

\* Nothing but the publication of a complete result changes what is in force,
\* although the editor shares its maps.
THEOREM EffectiveSafety == Spec => EffectiveOnlyPublished
  <1>1. ConfInv /\ [Next]_vars =>
          (Effective' # Effective =>
             \/ pc' = "down"
             \/ pc \in {"create", "load", "idle", "publish"} /\ outcome' = "ok")
    BY StepInv
  <1> QED BY <1>1, Invariant, PTL DEF Spec, EffectiveOnlyPublished

\* The file is replaced by the result of whole transactions only.
THEOREM WriteSafety == Spec => WritesWholeTransactions
  <1>1. ConfInv /\ [Next]_vars =>
          ((pc = "persist" /\ pc' = "publish") => file' = EditAll(source, txn))
    BY StepInv
  <1> QED BY <1>1, Invariant, PTL DEF Spec, WritesWholeTransactions

-----------------------------------------------------------------------------
(* Patches of params: what the operations add up to.                       *)

\* A param of a service's own.
Own(c, s, k) == ParamsOf(Configured(c, s))[k]

LEMMA NoServiceParts ==
    NoService \in Service /\ NoService.params = Nil
  <1>1. "" \in Checksums
    BY ValueAssumption, Zenon
  <1> DEFINE e == ""
  <1>2. NoService = [checksum |-> e, params |-> Nil] /\ e \in Checksums
    BY <1>1, Zenon DEF NoService
  <1> HIDE DEF e
  <1> QED BY <1>2 DEF Service

LEMMA ConfiguredType ==
    ASSUME NEW c \in Config, NEW s \in ServiceNames
    PROVE  /\ Configured(c, s) \in Service \cup {None}
           /\ Configured(c, s) = Entry(c.services, NoServices)[s]
           /\ Entry(c.services, NoServices) \in [ServiceNames -> Service \cup {None}]
  BY ConfigParts DEF Configured, Entry, NoServices

\* An operation on a param changes that param of that service and nothing else
\* that a service is told.
LEMMA ParamEdited ==
    ASSUME NEW c \in Config, NEW op, IsOperation(op), ~RefusesNil(op), op.target = "param",
           op.type = "set" => op.key \in Keys
    PROVE  LET d == EditDocument(c, op)
           IN /\ d \in Config
              /\ \A r \in ServiceNames \ {op.name} : Configured(d, r) = Configured(c, r)
              /\ \A k \in Keys : Own(d, op.name, k) =
                   IF k # op.key THEN Own(c, op.name, k)
                   ELSE IF op.type = "set" THEN op.value ELSE None
  <1> DEFINE d == EditDocument(c, op)
             s == op.name
             w == Configured(c, s)
             old == IF w = None THEN NoService ELSE w
             base == Entry(old.params, NoParams)
             services == Entry(c.services, NoServices)
  <1>1. d \in Config
    <2>1. op.target = "param" /\ op.key = "" => op.type = "remove"
      BY ValueAssumption, Zenon DEF IsOperation
    <2> QED BY <2>1, EditDocumentType
  <1>2. /\ s \in ServiceNames /\ op.type \in {"set", "remove"}
        /\ op.type = "set" => op.value \in Values
    BY Zenon DEF IsOperation, RefusesNil
  <1>3. /\ w \in Service \cup {None} /\ w = services[s]
        /\ services \in [ServiceNames -> Service \cup {None}]
        /\ \A r \in ServiceNames : Configured(c, r) = services[r]
    BY <1>2, ConfiguredType
  <1>4. old \in Service
    BY <1>3, NoServiceParts
  <1>5. /\ old = [checksum |-> old.checksum, params |-> old.params]
        /\ old.checksum \in Checksums /\ old.params \in Params \cup {Nil}
    BY <1>4 DEF Service
  <1>6. base \in Params /\ ParamsOf(w) = base
    <2>1. base \in Params
      BY <1>5 DEF Entry, NoParams, Params
    <2>2. ParamsOf(w) = base
      BY NoServiceParts DEF ParamsOf, Entry
    <2> QED BY <2>1, <2>2
  <1>7. CASE op.type = "remove" /\ w = None
    <2>1. d = c
      BY <1>7 DEF EditDocument, Configured
    <2>2. \A k \in Keys : Own(c, s, k) = None
      BY <1>7 DEF Own, ParamsOf, NoParams
    <2> QED BY <1>1, <1>7, <2>1, <2>2
  <1>8. CASE op.type = "set" \/ w # None
    <2> DEFINE q == IF op.type = "set" THEN [base EXCEPT ![op.key] = op.value]
                    ELSE IF old.params = Nil THEN Nil ELSE [old.params EXCEPT ![op.key] = None]
               x == EditService(w, op)
    <2>1. x = [old EXCEPT !.params = q]
      BY <1>2 DEF EditService
    <2>2. q \in Params \cup {Nil}
      BY <1>2, <1>5, <1>6 DEF Params
    <2>3. ASSUME NEW k \in Keys
          PROVE  Entry(q, NoParams)[k] = IF k # op.key THEN base[k]
                                         ELSE IF op.type = "set" THEN op.value ELSE None
      <3>1. CASE op.type = "set"
        <4>1. q = [base EXCEPT ![op.key] = op.value] /\ q \in Params /\ q # Nil
          BY <1>2, <1>6, <3>1, AbsentAssumption DEF Params
        <4>2. q[k] = IF k # op.key THEN base[k] ELSE op.value
          BY <1>6, <4>1, <3>1 DEF Params
        <4> HIDE DEF q, base
        <4> QED BY <3>1, <4>1, <4>2 DEF Entry
      <3>2. CASE op.type = "remove" /\ old.params = Nil
        <4>1. q = Nil /\ base = NoParams
          BY <3>2 DEF Entry
        <4>2. NoParams[k] = None
          BY DEF NoParams
        <4> HIDE DEF q, base
        <4> QED BY <3>2, <4>1, <4>2 DEF Entry
      <3>3. CASE op.type = "remove" /\ old.params # Nil
        <4>1. q = [old.params EXCEPT ![op.key] = None] /\ base = old.params
          BY <3>3 DEF Entry
        <4>2. q \in Params /\ q # Nil /\ old.params \in Params
          BY <1>5, <3>3, <4>1, AbsentAssumption DEF Params
        <4>3. q[k] = IF k # op.key THEN base[k] ELSE None
          BY <4>1, <4>2 DEF Params
        <4> HIDE DEF q, base, old
        <4> QED BY <3>3, <4>2, <4>3 DEF Entry
      <3> QED BY <1>2, <3>1, <3>2, <3>3
    <2>4. d = [c EXCEPT !.services = [services EXCEPT ![s] = x]]
      <3>1. ~(op.type = "remove" /\ (c.services = Nil \/ c.services[s] = None))
        BY <1>8 DEF Configured
      <3>2. w = services[s]
        BY <1>3
      <3> HIDE DEF w
      <3> QED BY <3>1, <3>2 DEF EditDocument
    <2> HIDE DEF d, s, w, old, base, services, q, x
    <2>5. x = [checksum |-> old.checksum, params |-> q]
      BY <1>5, <2>1
    <2>6. x \in Service /\ x.params = q
      BY <1>5, <2>2, <2>5 DEF Service
    <2>7. d.services = [services EXCEPT ![s] = x]
      BY <2>4, ConfigParts
    <2>8. /\ d.services \in [ServiceNames -> Service \cup {None}]
          /\ d.services[s] = x /\ \A r \in ServiceNames \ {s} : d.services[r] = services[r]
      BY <1>2, <1>3, <2>6, <2>7
    <2>9. d.services # Nil /\ x # None
      BY <2>6, <2>8, AbsentAssumption
    <2>10. Configured(d, s) = x /\ \A r \in ServiceNames \ {s} : Configured(d, r) = Configured(c, r)
      BY <1>3, <2>8, <2>9 DEF Configured
    <2>11. ParamsOf(Configured(d, s)) = Entry(q, NoParams)
      BY <2>6, <2>9, <2>10 DEF ParamsOf
    <2>12. \A k \in Keys : Own(d, s, k) = IF k # op.key THEN Own(c, s, k)
                                          ELSE IF op.type = "set" THEN op.value ELSE None
      BY <1>6, <2>3, <2>11 DEF Own, w
    <2> QED BY <1>1, <2>10, <2>12 DEF d, s
  <1> QED BY <1>2, <1>7, <1>8

\* The operations of a patch: m deletions, then the values set, all of them.
PatchShape(p, t, m) ==
    /\ m \in Nat /\ m <= Len(t)
    /\ m = Len(p.delete)
    /\ \A i \in 1 .. m : t[i] = Op("remove", "param", p.name, p.delete[i], Nil)
    /\ \A i \in m + 1 .. Len(t) :
         t[i].key \in Keys /\ t[i] = Op("set", "param", p.name, t[i].key, p.set[t[i].key])
    /\ \A k \in Keys : p.set[k] # None <=> \E i \in m + 1 .. Len(t) : t[i].key = k

LEMMA OpParts ==
    ASSUME NEW a, NEW b, NEW n, NEW k, NEW v
    PROVE  LET op == Op(a, b, n, k, v)
           IN op.type = a /\ op.target = b /\ op.name = n /\ op.key = k /\ op.value = v
  BY DEF Op

LEMMA PatchHasShape ==
    ASSUME NEW p \in Patches, NEW t \in PatchOperations(p)
    PROVE  PatchShape(p, t, Len(p.delete))
  <1> DEFINE K == Keys \cup {""}
             keys == {k \in Keys : p.set[k] # None}
             a == Deletes(p)
             N == Cardinality(keys)
             m == Len(p.delete)
  <1>1. p.delete \in Seq(K)
    BY ValueAssumption
  <1> HIDE DEF K
  <1>2. m \in Nat /\ DOMAIN p.delete = 1 .. m
    BY <1>1, LenProperties
  <1>3. PICK order \in SetToSeqs(keys) :
           t = a \o [i \in DOMAIN order |->
                       Op("set", "param", p.name, order[i], p.set[order[i]])]
    BY DEF PatchOperations, Sets
  <1> DEFINE b == [i \in DOMAIN order |-> Op("set", "param", p.name, order[i], p.set[order[i]])]
  <1>4. IsFiniteSet(keys) /\ N \in Nat
    <2>1. keys \in SUBSET Keys /\ IsFiniteSet(Keys)
      BY ValueAssumption
    <2>2. IsFiniteSet(keys)
      BY <2>1, FS_Subset
    <2> HIDE DEF keys
    <2> QED BY <2>2, FS_CardinalityType
  <1>5. order \in [1 .. N -> keys] /\ \A i, j \in 1 .. N : i # j => order[i] # order[j]
    <2> HIDE DEF keys
    <2> QED BY DEF SetToSeqs
  \* As many values as keys, no key twice: every key.
  <1>6. \A k \in keys : \E i \in 1 .. N : order[i] = k
    <2> HIDE DEF keys, N
    <2>1. order \in Injection(1 .. N, keys)
      BY <1>5 DEF Injection, IsInjective
    <2>2. Cardinality(1 .. N) = N
      <3>1. Cardinality(1 .. N) = IF 1 > N THEN 0 ELSE N - 1 + 1
        BY <1>4, FS_Interval
      <3> QED BY <1>4, <3>1
    <2>3. order \in Surjection(1 .. N, keys)
      BY <1>4, <2>1, <2>2, FS_Injection DEF N
    <2> QED BY <2>3 DEF Surjection
  <1> DEFINE S == {a[i] : i \in 1 .. m} \cup {b[i] : i \in 1 .. N}
  <1>7. a = [i \in 1 .. m |-> a[i]] /\ \A i \in 1 .. m :
          a[i] = Op("remove", "param", p.name, p.delete[i], Nil)
    BY <1>2 DEF Deletes
  <1>8. b = [i \in 1 .. N |-> b[i]] /\ \A i \in 1 .. N :
          b[i] = Op("set", "param", p.name, order[i], p.set[order[i]])
    BY <1>5
  <1> HIDE DEF a, b, N, m, keys
  <1>9. a \in [1 .. m -> S] /\ b \in [1 .. N -> S]
    BY <1>7, <1>8
  <1> HIDE DEF S
  <1>10. a \in Seq(S) /\ b \in Seq(S) /\ Len(a) = m /\ Len(b) = N
    BY <1>2, <1>4, <1>9
  <1>11. /\ Len(t) = m + N
         /\ \A i \in 1 .. m + N : t[i] = IF i <= m THEN a[i] ELSE b[i - m]
    BY <1>3, <1>10, ConcatProperties DEF b
  <1>12. ASSUME NEW i \in m + 1 .. Len(t)
         PROVE  /\ i - m \in 1 .. N /\ t[i] = b[i - m] /\ t[i].key = order[i - m]
                /\ order[i - m] \in keys
    <2>1. i - m \in 1 .. N /\ i \in 1 .. m + N /\ ~(i <= m)
      BY <1>2, <1>4, <1>11
    <2>2. t[i] = b[i - m]
      BY <1>11, <2>1
    <2>3. b[i - m].key = order[i - m]
      BY <1>8, <2>1, OpParts
    <2> QED BY <1>5, <2>1, <2>2, <2>3
  <1>13. \A i \in 1 .. m : t[i] = Op("remove", "param", p.name, p.delete[i], Nil)
    <2>1. \A i \in 1 .. m : i \in 1 .. m + N /\ i <= m
      BY <1>2, <1>4
    <2> QED BY <1>7, <1>11, <2>1
  <1>14. \A i \in m + 1 .. Len(t) :
           t[i].key \in Keys /\ t[i] = Op("set", "param", p.name, t[i].key, p.set[t[i].key])
    BY <1>8, <1>12 DEF keys
  <1>15. ASSUME NEW k \in Keys, p.set[k] # None PROVE \E i \in m + 1 .. Len(t) : t[i].key = k
    <2>1. PICK j \in 1 .. N : order[j] = k
      BY <1>6, <1>15 DEF keys
    <2>2. j + m \in m + 1 .. Len(t) /\ (j + m) - m = j
      BY <1>2, <1>4, <1>11
    <2>3. t[j + m].key = order[j]
      BY <1>12, <2>2
    <2> QED BY <2>1, <2>2, <2>3
  <1>16. ASSUME NEW i \in m + 1 .. Len(t) PROVE p.set[t[i].key] # None
    BY <1>12 DEF keys
  <1>17. m <= Len(t)
    BY <1>2, <1>4, <1>11
  <1> QED BY <1>2, <1>13, <1>14, <1>15, <1>16, <1>17 DEF PatchShape, m

\* After n operations of a patch: the values set so far are there, the keys
\* deleted and not set are gone, nothing else has changed.
PatchProgress(p, c, t, m, n) ==
    LET d == EditAll(c, SubSeq(t, 1, n))
    IN /\ d \in Config
       /\ \A r \in ServiceNames \ {p.name} : Configured(d, r) = Configured(c, r)
       /\ \A k \in Keys : Own(d, p.name, k) =
            IF \E i \in m + 1 .. n : t[i].key = k THEN p.set[k]
            ELSE IF \E i \in 1 .. m : i <= n /\ p.delete[i] = k THEN None
            ELSE Own(c, p.name, k)

\* One more operation keeps it so: deletions come first.
LEMMA PatchProgresses ==
    ASSUME NEW p \in Patches, NEW t, IsTransaction(t), NEW m, PatchShape(p, t, m),
           NEW c \in Config, NEW n \in Nat, n < Len(t), PatchProgress(p, c, t, m, n)
    PROVE  PatchProgress(p, c, t, m, n + 1)
  <1> DEFINE d == EditAll(c, SubSeq(t, 1, n))
             e == EditAll(c, SubSeq(t, 1, n + 1))
             op == t[n + 1]
             key == op.key
  <1>1. Len(t) \in Nat /\ m \in Nat /\ m <= Len(t) /\ n + 1 \in 1 .. Len(t)
    BY DEF IsTransaction, PatchShape
  <1>2. e = EditDocument(d, op)
    BY EditOneMore
  <1>3. IsOperation(op)
    BY <1>1 DEF IsTransaction
  <1>4. /\ op.target = "param" /\ op.name = p.name
        /\ n + 1 <= m => op.type = "remove" /\ key = p.delete[n + 1]
        /\ n + 1 > m => op.type = "set" /\ key \in Keys /\ op.value = p.set[key]
    <2>1. CASE n + 1 <= m
      <3>1. op = Op("remove", "param", p.name, p.delete[n + 1], Nil)
        BY <1>1, <2>1 DEF PatchShape
      <3> HIDE DEF op
      <3> QED BY <1>1, <2>1, <3>1, OpParts DEF key
    <2>2. CASE n + 1 > m
      <3>1. key \in Keys /\ op = Op("set", "param", p.name, key, p.set[key])
        BY <1>1, <2>2 DEF PatchShape
      <3>2. op.type = "set" /\ op.target = "param" /\ op.name = p.name /\ op.value = p.set[key]
        <4> HIDE DEF op, key
        <4> QED BY <3>1, OpParts
      <3> QED BY <1>1, <2>2, <3>1, <3>2
    <2> QED BY <1>1, <2>1, <2>2
  <1>5. ~RefusesNil(op)
    <2>1. CASE n + 1 <= m
      BY <1>4, <2>1 DEF RefusesNil
    <2>2. CASE n + 1 > m
      <3>1. p.set \in [Keys -> Values \cup {None}]
        BY ValueAssumption
      <3>2. \E i \in m + 1 .. Len(t) : t[i].key = key
        BY <1>1, <2>2
      <3>3. p.set[key] # None
        BY <1>4, <2>2, <3>2 DEF PatchShape
      <3> QED BY <1>4, <2>2, <3>1, <3>3, AbsentAssumption DEF RefusesNil
    <2> QED BY <1>1, <2>1, <2>2
  <1>6. /\ d \in Config
        /\ \A r \in ServiceNames \ {p.name} : Configured(d, r) = Configured(c, r)
        /\ \A k \in Keys : Own(d, p.name, k) =
             IF \E i \in m + 1 .. n : t[i].key = k THEN p.set[k]
             ELSE IF \E i \in 1 .. m : i <= n /\ p.delete[i] = k THEN None
             ELSE Own(c, p.name, k)
    BY DEF PatchProgress
  <1>7. op.type = "set" => key \in Keys
    BY <1>1, <1>4
  <1> HIDE DEF d, e, op
  <1>8. /\ e \in Config
        /\ \A r \in ServiceNames \ {p.name} : Configured(e, r) = Configured(d, r)
        /\ \A k \in Keys : Own(e, p.name, k) =
             IF k # key THEN Own(d, p.name, k)
             ELSE IF op.type = "set" THEN op.value ELSE None
    BY <1>2, <1>3, <1>4, <1>5, <1>6, <1>7, ParamEdited
  <1>9. ASSUME NEW k \in Keys
        PROVE  Own(e, p.name, k) =
                 IF \E i \in m + 1 .. n + 1 : t[i].key = k THEN p.set[k]
                 ELSE IF \E i \in 1 .. m : i <= n + 1 /\ p.delete[i] = k THEN None
                 ELSE Own(c, p.name, k)
    <2>1. CASE n + 1 <= m
      <3>1. ~ \E i \in m + 1 .. n + 1 : t[i].key = k
        BY <1>1, <2>1
      <3>2. ~ \E i \in m + 1 .. n : t[i].key = k
        BY <1>1, <2>1
      <3>3. (\E i \in 1 .. m : i <= n + 1 /\ p.delete[i] = k)
              <=> (\E i \in 1 .. m : i <= n /\ p.delete[i] = k) \/ k = key
        <4>1. \A i \in 1 .. m : i <= n + 1 <=> i <= n \/ i = n + 1
          BY <1>1
        <4>2. n + 1 \in 1 .. m /\ p.delete[n + 1] = key
          BY <1>1, <1>4, <2>1
        <4> QED BY <4>1, <4>2
      <3>4. Own(e, p.name, k) = IF k # key THEN Own(d, p.name, k) ELSE None
        BY <1>4, <1>8, <2>1
      <3> QED BY <1>6, <3>1, <3>2, <3>3, <3>4
    <2>2. CASE n + 1 > m
      <3>1. (\E i \in m + 1 .. n + 1 : t[i].key = k)
              <=> (\E i \in m + 1 .. n : t[i].key = k) \/ k = key
        <4>1. \A i \in m + 1 .. n + 1 : i \in m + 1 .. n \/ i = n + 1
          BY <1>1
        <4>2. n + 1 \in m + 1 .. n + 1 /\ \A i \in m + 1 .. n : i \in m + 1 .. n + 1
          BY <1>1, <2>2
        <4> QED BY <4>1, <4>2 DEF op
      <3>2. (\E i \in 1 .. m : i <= n + 1 /\ p.delete[i] = k)
              <=> (\E i \in 1 .. m : i <= n /\ p.delete[i] = k)
        <4>1. \A i \in 1 .. m : i <= n + 1 /\ i <= n
          BY <1>1, <2>2
        <4> QED BY <4>1
      <3>3. Own(e, p.name, k) = IF k # key THEN Own(d, p.name, k) ELSE p.set[k]
        BY <1>4, <1>8, <2>2
      <3> QED BY <1>6, <3>1, <3>2, <3>3
    <2> QED BY <1>1, <2>1, <2>2
  <1>10. \A r \in ServiceNames \ {p.name} : Configured(e, r) = Configured(c, r)
    BY <1>6, <1>8
  <1> QED BY <1>8, <1>9, <1>10 DEF PatchProgress, e

\* So it is after all of them.
LEMMA PatchComplete ==
    ASSUME NEW p \in Patches, NEW t \in PatchOperations(p), NEW c \in Config
    PROVE  LET d == EditAll(c, t)
           IN /\ \A r \in ServiceNames \ {p.name} : Configured(d, r) = Configured(c, r)
              /\ \A k \in Keys : Own(d, p.name, k) =
                   IF p.set[k] # None THEN p.set[k]
                   ELSE IF k \in Range(p.delete) THEN None
                   ELSE Own(c, p.name, k)
  <1> DEFINE m == Len(p.delete)
             L == Len(t)
             T == {n \in 0 .. L : ~PatchProgress(p, c, t, m, n)}
  <1>1. IsTransaction(t) /\ PatchShape(p, t, m)
    BY PatchTransaction, PatchHasShape
  <1>2. L \in Nat /\ m \in Nat /\ m <= L
    BY <1>1 DEF IsTransaction, PatchShape
  <1>3. SubSeq(t, 1, L) = t /\ Len(SubSeq(t, 1, 0)) = 0
    <2>1. L \in 0 .. L /\ 0 \in 0 .. L
      BY <1>2
    <2> QED BY <1>1, <2>1, TransactionPrefix
  <1>4. PatchProgress(p, c, t, m, 0)
    <2>1. EditAll(c, SubSeq(t, 1, 0)) = c
      BY <1>3, EditNone
    <2>2. /\ ~ \E i \in m + 1 .. 0 : TRUE
          /\ ~ \E i \in 1 .. m : i <= 0
      BY <1>2
    <2> HIDE DEF m
    <2> QED BY <2>1, <2>2 DEF PatchProgress
  <1>5. T = {}
    <2> SUFFICES ASSUME T # {} PROVE FALSE
      OBVIOUS
    <2>1. PICK n \in T : \A i \in T : ~(i < n)
      <3>1. T \in SUBSET Nat
        BY <1>2
      <3> HIDE DEF T
      <3> QED BY <3>1, Least
    <2>2. n \in 0 .. L /\ ~PatchProgress(p, c, t, m, n)
      OBVIOUS
    <2>3. n # 0
      BY <1>4, <2>2
    <2>4. n - 1 \in Nat /\ n - 1 < L /\ n - 1 \in 0 .. L /\ n - 1 < n /\ (n - 1) + 1 = n
      BY <1>2, <2>2, <2>3
    <2>5. PatchProgress(p, c, t, m, n - 1)
      BY <2>1, <2>4
    <2>6. PatchProgress(p, c, t, m, (n - 1) + 1)
      <3> HIDE DEF m, L, T
      <3> QED BY <1>1, <2>4, <2>5, PatchProgresses DEF L
    <2> QED BY <2>2, <2>4, <2>6
  <1>6. PatchProgress(p, c, t, m, L)
    <2>1. L \in 0 .. L
      BY <1>2
    <2> QED BY <1>5, <2>1
  <1>7. \A k \in Keys : p.set[k] # None <=> \E i \in m + 1 .. L : t[i].key = k
    BY <1>1 DEF PatchShape
  <1>8. ASSUME NEW k \in Keys
        PROVE  k \in Range(p.delete) <=> \E i \in 1 .. m : i <= L /\ p.delete[i] = k
    <2>1. DOMAIN p.delete = 1 .. m
      <3> DEFINE K == Keys \cup {""}
      <3>1. p.delete \in Seq(K)
        BY ValueAssumption
      <3> HIDE DEF K
      <3> QED BY <3>1, LenProperties
    <2>2. \A i \in 1 .. m : i <= L
      BY <1>2
    <2> HIDE DEF m, L
    <2> QED BY <2>1, <2>2 DEF Range
  <1> HIDE DEF m, L, T
  <1>9. /\ \A r \in ServiceNames \ {p.name} : Configured(EditAll(c, t), r) = Configured(c, r)
        /\ \A k \in Keys : Own(EditAll(c, t), p.name, k) =
             IF \E i \in m + 1 .. L : t[i].key = k THEN p.set[k]
             ELSE IF \E i \in 1 .. m : i <= L /\ p.delete[i] = k THEN None
             ELSE Own(c, p.name, k)
    BY <1>3, <1>6 DEF PatchProgress
  <1> QED BY <1>7, <1>8, <1>9

\* What a service is told: its own params, else those of "default".
LEMMA ToldParams ==
    ASSUME NEW c \in Config, NEW s \in ServiceNames
    PROVE  currentServiceConfig(c, s).params =
             [k \in Keys |-> IF s # "default" /\ Own(c, s, k) # None THEN Own(c, s, k)
                             ELSE Own(c, "default", k)]
  <1> DEFINE base == IF Configured(c, "default") = None THEN NoService
                     ELSE Configured(c, "default")
             over == IF s # "default" /\ Configured(c, s) # None
                     THEN Configured(c, s) ELSE NoService
  <1>1. NoService # None
    BY NoServiceParts, AbsentAssumption
  <1>2. ParamsOf(NoService) = NoParams /\ ParamsOf(None) = NoParams
    BY <1>1, NoServiceParts DEF ParamsOf, Entry
  <1>3. /\ ParamsOf(base) = ParamsOf(Configured(c, "default"))
        /\ ParamsOf(over) = IF s # "default" THEN ParamsOf(Configured(c, s)) ELSE NoParams
    BY <1>2
  <1> HIDE DEF base, over
  <1>4. currentServiceConfig(c, s).params =
          [k \in Keys |-> IF ParamsOf(over)[k] # None THEN ParamsOf(over)[k] ELSE ParamsOf(base)[k]]
    <2>1. currentServiceConfig(c, s) = mergeServiceConfig(base, over)
      BY DEF currentServiceConfig, base, over
    <2> DEFINE sum == IF over.checksum # "" THEN over.checksum ELSE base.checksum
               par == [k \in Keys |-> IF ParamsOf(over)[k] # None THEN ParamsOf(over)[k]
                                      ELSE ParamsOf(base)[k]]
    <2>2. mergeServiceConfig(base, over) = [checksum |-> sum, params |-> par]
      BY Zenon DEF mergeServiceConfig
    <2> HIDE DEF sum
    <2> QED BY <2>1, <2>2
  <1>5. ASSUME NEW k \in Keys
        PROVE  (IF ParamsOf(over)[k] # None THEN ParamsOf(over)[k] ELSE ParamsOf(base)[k])
                 = IF s # "default" /\ Own(c, s, k) # None THEN Own(c, s, k)
                   ELSE Own(c, "default", k)
    <2>1. NoParams[k] = None
      BY DEF NoParams
    <2> QED BY <1>3, <2>1 DEF Own
  <1> QED BY <1>4, <1>5

\* A patch tells the service what it says.
LEMMA PatchTold ==
    ASSUME NEW p \in Patches, NEW t \in PatchOperations(p), NEW c \in Config,
           EditAll(c, t) \in Config
    PROVE  GetServiceParams(EditAll(c, t), p.name) =
             ResolveParams([k \in Keys |-> Patched(p, c, k)])
  <1> DEFINE d == EditAll(c, t)
             s == p.name
  <1>1. s \in ServiceNames /\ "default" \in ServiceNames
    BY ValueAssumption, Zenon
  <1>2. /\ \A r \in ServiceNames \ {s} : Configured(d, r) = Configured(c, r)
        /\ \A k \in Keys : Own(d, s, k) =
             IF p.set[k] # None THEN p.set[k]
             ELSE IF k \in Range(p.delete) THEN None
             ELSE Own(c, s, k)
    BY PatchComplete
  <1> HIDE DEF d, s
  <1>3. currentServiceConfig(d, s).params =
          [k \in Keys |-> IF s # "default" /\ Own(d, s, k) # None THEN Own(d, s, k)
                          ELSE Own(d, "default", k)]
    BY <1>1, ToldParams DEF d
  <1>4. ASSUME NEW k \in Keys
        PROVE  (IF s # "default" /\ Own(d, s, k) # None THEN Own(d, s, k)
                ELSE Own(d, "default", k)) = Patched(p, c, k)
    <2>1. Patched(p, c, k) =
            CASE p.set[k] # None -> p.set[k]
              [] p.set[k] = None /\ Own(c, s, k) # None /\ k \notin Range(p.delete) -> Own(c, s, k)
              [] OTHER -> IF s = "default" THEN None ELSE Own(c, "default", k)
      BY DEF Patched, Own, s
    <2>2. s # "default" => Own(d, "default", k) = Own(c, "default", k)
      BY <1>1, <1>2 DEF Own
    <2> QED BY <1>2, <2>1, <2>2
  <1>5. currentServiceConfig(d, s).params = [k \in Keys |-> Patched(p, c, k)]
    BY <1>3, <1>4
  <1> QED BY <1>5 DEF GetServiceParams, d, s

\* A patch that succeeded is what the service is told, whatever the order of its
\* values, on top of what was read from the file.
THEOREM PatchSafety == Spec => PatchIsEffective
  <1>1. ASSUME ConfInv, [Next]_vars, pc = "publish", patch # None, outcome' = "ok"
        PROVE  GetServiceParams(Effective', patch.name) =
                 ResolveParams([k \in Keys |-> Patched(patch, source, k)])
    <2>1. Effective' = EditAll(source, txn) /\ ConfInv'
      BY <1>1, StepInv
    <2>2. patch \in Patches /\ txn \in PatchOperations(patch) /\ source \in Config
      BY <1>1 DEF ConfInv, PatchInv, EditInv, Working
    <2>3. EditAll(source, txn) \in Config
      BY <1>1, WholeTransaction, ConfigsInMemory DEF ConfInv, TypeOK
    <2> QED BY <2>1, <2>2, <2>3, PatchTold
  <1>2. ConfInv /\ [Next]_vars =>
          ((pc = "publish" /\ patch # None /\ outcome' = "ok") =>
             GetServiceParams(Effective', patch.name) =
               ResolveParams([k \in Keys |-> Patched(patch, source, k)]))
    BY <1>1
  <1> QED BY <1>2, Invariant, PTL DEF Spec, PatchIsEffective

=============================================================================
