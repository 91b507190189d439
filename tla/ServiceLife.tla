---------------------------- MODULE ServiceLife -----------------------------
(***************************************************************************)
(* The life of a service as its callers know it, without the requests that *)
(* race for it, the scans, the locks and the registry: at most one backend *)
(* at a time, launched and ended while the service is starting or stopping;*)
(* bindings only while the backend runs; service only with both.           *)
(***************************************************************************)

CONSTANT Services

VARIABLES
    state, \* "stopped", "starting", "running" or "stopping"
    up,    \* the services whose backend runs
    bound  \* the services that may own bindings

vars == <<state, up, bound>>

Goes(s, from, to) == state[s] = from /\ state' = [state EXCEPT ![s] = to]
Between(s) == state[s] \in {"starting", "stopping"}

Start(s) == s \notin up /\ Goes(s, "stopped", "starting") /\ UNCHANGED <<up, bound>>

Launch(s) ==
    /\ state[s] = "starting" /\ s \notin up
    /\ up' = up \cup {s}
    /\ UNCHANGED <<state, bound>>

Bind(s) ==
    /\ state[s] = "starting" /\ s \in up
    /\ bound' = bound \cup {s}
    /\ UNCHANGED <<state, up>>

Serve(s) == s \in up \cap bound /\ Goes(s, "starting", "running") /\ UNCHANGED <<up, bound>>

Stop(s) == Goes(s, "running", "stopping") /\ UNCHANGED <<up, bound>>

Unbind(s) ==
    /\ Between(s)
    /\ bound' = bound \ {s}
    /\ UNCHANGED <<state, up>>

Exit(s) ==
    /\ Between(s) /\ s \notin bound
    /\ up' = up \ {s}
    /\ UNCHANGED <<state, bound>>

Settle(s) ==
    /\ s \notin up \cup bound
    /\ Goes(s, "starting", "stopped") \/ Goes(s, "stopping", "stopped")
    /\ UNCHANGED <<up, bound>>

Init == state = [s \in Services |-> "stopped"] /\ up = {} /\ bound = {}

Next ==
    \E s \in Services : \/ Start(s) \/ Launch(s) \/ Bind(s) \/ Serve(s) \/ Stop(s)
                        \/ Unbind(s) \/ Exit(s) \/ Settle(s)

Spec == Init /\ [][Next]_vars

=============================================================================
