----------------------------- MODULE ConnLease ------------------------------
(***************************************************************************)
(* What the connection pool promises the layers of the maps being drawn    *)
(* (mappool.c, "Other Notes"): an open connection may be used several      *)
(* times by one thread, is never used by two threads at once, and becomes  *)
(* available to other threads, or is closed, only when nobody uses it.     *)
(***************************************************************************)
CONSTANTS Layers, Handles, NoHandle, ThreadOf

VARIABLES
    live,       \* the handles of open connections
    uses        \* the handle each layer uses

leaseVars == <<live, uses>>

Users(h) == {l \in Layers : uses[l] = h}

Init ==
    /\ live = {}
    /\ uses = [l \in Layers |-> NoHandle]

Open(l, h) ==
    /\ uses[l] = NoHandle
    /\ h \notin live
    /\ live' = live \cup {h}
    /\ uses' = [uses EXCEPT ![l] = h]

Share(l, h) ==
    /\ uses[l] = NoHandle
    /\ h \in live
    /\ \A m \in Users(h) : ThreadOf[m] = ThreadOf[l]
    /\ uses' = [uses EXCEPT ![l] = h]
    /\ UNCHANGED live

\* The connection is kept for others.
Leave(l) ==
    /\ uses[l] # NoHandle
    /\ uses' = [uses EXCEPT ![l] = NoHandle]
    /\ UNCHANGED live

\* The last user leaves and the connection is closed with it.
LeaveAndClose(l) ==
    /\ uses[l] # NoHandle
    /\ Users(uses[l]) = {l}
    /\ live' = live \ {uses[l]}
    /\ uses' = [uses EXCEPT ![l] = NoHandle]

Close(h) ==
    /\ h \in live
    /\ Users(h) = {}
    /\ live' = live \ {h}
    /\ UNCHANGED uses

Next ==
    \/ \E l \in Layers : Leave(l) \/ LeaveAndClose(l)
    \/ \E l \in Layers, h \in Handles : Open(l, h) \/ Share(l, h)
    \/ \E h \in Handles : Close(h)

Spec == Init /\ [][Next]_leaseVars
=============================================================================
