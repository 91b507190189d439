----------------------------- MODULE MCChannels -----------------------------
(***************************************************************************)
(* A gRPC service whose handlers may hang and change bindings, and a WASM  *)
(* module.                                                                 *)
(***************************************************************************)
EXTENDS Channels

CONSTANTS g, w

Both == {g, w}
OnlyG == {g}
OnlyW == {w}
ToModule == {<<g, w>>}
EachOther == {<<g, w>>, <<w, g>>, <<g, g>>, <<w, w>>}
Once == [s \in Services |-> 1]
Twice == [s \in Services |-> 2]

=============================================================================
