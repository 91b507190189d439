------------------------------ MODULE MCSockets ------------------------------
(***************************************************************************)
(* Two services that own the namespace in turn, one public with an event   *)
(* for authenticated users, one for the members of a group.                *)
(***************************************************************************)
EXTENDS Sockets, TLC

CONSTANTS a, b, u

MCOwners == {a, b}
SameUser == [t \in Tokens |-> u]
MCRoutePolicy == (a :> "public") @@ (b :> "group")
MCEventPolicy == (a :> "auth") @@ (b :> "public")
MCHandles == (a :> {"event", "disconnect"}) @@ (b :> {"event"})

=============================================================================
