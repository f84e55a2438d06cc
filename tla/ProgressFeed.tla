---------------------------- MODULE ProgressFeed ----------------------------
(***************************************************************************)
(* What a transfer promises to the clients that watch its progress.  Items *)
(* are numbered in the order in which the transfer publishes them.  A      *)
(* client may be shown some items only, but in order; the feed lets go of  *)
(* it only when it has seen what was published before it asked to leave,   *)
(* or the last item of all.                                                *)
(***************************************************************************)
EXTENDS Naturals

CONSTANTS Watchers

VARIABLES
    latest,   \* the number of items published
    over,     \* the transfer has finished
    client,   \* "off", "on", "leaving" or "gone"
    shown,    \* the last item each client was shown, 0 for none
    owed      \* the item a client that leaves must have been shown

vars == <<latest, over, client, shown, owed>>

Init ==
    /\ latest = 0 /\ over = FALSE
    /\ client = [w \in Watchers |-> "off"]
    /\ shown = [w \in Watchers |-> 0] /\ owed = [w \in Watchers |-> 0]

Publish ==
    /\ ~over
    /\ latest' = latest + 1
    /\ UNCHANGED <<over, client, shown, owed>>

Finish ==
    /\ over' = TRUE
    /\ UNCHANGED <<latest, client, shown, owed>>

\* A client that comes after the end is shown nothing.
Attach(w) ==
    /\ client[w] = "off"
    /\ \/ client' = [client EXCEPT ![w] = "on"]
       \/ over /\ client' = [client EXCEPT ![w] = "gone"]
    /\ UNCHANGED <<latest, over, shown, owed>>

Show(w) ==
    /\ client[w] \in {"on", "leaving"}
    /\ \E p \in (shown[w] + 1) .. latest : shown' = [shown EXCEPT ![w] = p]
    /\ UNCHANGED <<latest, over, client, owed>>

Leave(w) ==
    /\ client[w] = "on"
    /\ client' = [client EXCEPT ![w] = "leaving"]
    /\ owed' = [owed EXCEPT ![w] = latest]
    /\ UNCHANGED <<latest, over, shown>>

Detach(w) ==
    /\ \/ client[w] = "leaving" /\ shown[w] >= owed[w]
       \/ client[w] = "on" /\ over /\ shown[w] = latest
    /\ client' = [client EXCEPT ![w] = "gone"]
    /\ UNCHANGED <<latest, over, shown, owed>>

Next == \/ Publish \/ Finish
        \/ \E w \in Watchers : Attach(w) \/ Show(w) \/ Leave(w) \/ Detach(w)

Spec == Init /\ [][Next]_vars
=============================================================================
