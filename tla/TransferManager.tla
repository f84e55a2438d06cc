-------------------------- MODULE TransferManager --------------------------
(***************************************************************************)
(* The transfer manager of distribution/xfer/transfer.go, which schedules  *)
(* and deduplicates the layer downloads of "docker pull" and the uploads   *)
(* of "docker push".                                                       *)
(*                                                                         *)
(* Callers ask for the transfer of a key.  The first one creates it, later *)
(* ones join it as watchers; when the last watcher releases a transfer     *)
(* that is still tracked, its context is cancelled.  At most               *)
(* concurrencyLimit transfers hold a slot (0: no limit), the others wait   *)
(* in FIFO order for their start channel to be closed.  One goroutine per  *)
(* transfer returns the slot, removes the transfer from the map and closes *)
(* it, and the last of "closed" and "unwatched" closes the released        *)
(* channel, which lets the download drop its layer reference.              *)
(*                                                                         *)
(* Every action is one critical section of tm.mu or of transfer.mu, or one *)
(* step of the DoFunc goroutine between two channel operations.  A         *)
(* transfer object that no goroutine refers to any more is garbage, and    *)
(* its identity is used again by a later NewTransfer; so the set Transfers *)
(* bounds the transfers alive at a time, not their total number.           *)
(***************************************************************************)
EXTENDS Naturals, Sequences, FiniteSets

CONSTANTS
    Keys,        \* keys of descriptors (Key() of an upload or a download)
    Callers,     \* goroutines that call Transfer and Release
    Transfers,   \* identities of transfer objects
    Limits,      \* values given to SetConcurrency, 0 meaning no limit
    NoXfer       \* no entry in the map, or no transfer

ASSUME TransfersFinite == IsFiniteSet(Transfers)
ASSUME LimitsNat == Limits \subseteq Nat /\ Limits # {}
ASSUME NoXferFresh == NoXfer \notin Transfers

VARIABLES
    concurrencyLimit,  \* tm.concurrencyLimit
    activeTransfers,   \* tm.activeTransfers
    transfers,         \* tm.transfers: Keys -> Transfers \cup {NoXfer}
    waitingTransfers,  \* tm.waitingTransfers: the start channels, by owner
    start,             \* transfers whose start channel is closed
    inactive,          \* transfers whose DoFunc has closed inactive
    returned,          \* transfers whose slot was returned (inactive = nil)
    doFunc,            \* control point of the goroutine of the DoFunc
    mgr,               \* control point of the goroutine that tm started
    keyOf,             \* the key that goroutine deletes
    cancelled,         \* transfers whose context is cancelled
    closed,            \* t.closed
    released,          \* transfers whose released channel is closed
    watchers,          \* t.watchers, by the caller that holds the watcher
    caller             \* per caller: control point and transfer

tmVars == <<concurrencyLimit, activeTransfers, transfers, waitingTransfers>>
doVars == <<start, inactive, returned, doFunc, mgr, keyOf>>
xferVars == <<cancelled, closed, released, watchers>>
vars == <<tmVars, doVars, xferVars, caller>>

DoPhases == {"unborn", "waiting", "running", "waitingParent", "done"}
MgrPhases == {"none", "tracking", "closing", "gone"}
CallerPhases == {"idle", "retry", "watching"}

----------------------------------------------------------------------------
\* NewTransfer may use the identity t for caller c: the goroutine that tracked
\* it has returned, nobody watches it and no other caller waits for it.
Fresh(c, t) ==
    /\ mgr[t] \in {"none", "gone"}
    /\ watchers[t] = {}
    /\ \A d \in Callers \ {c} : caller[d].xfer # t

\* <-xfer.Done(): Broadcast closes t.running once the DoFunc has closed its
\* progress channel.
Done(t) == doFunc[t] = "done"

\* Mutant of ContextDone: hand out whatever transfer is in the map.
ContextNeverDone(t) == FALSE

\* select on xfer.Context().Done() when Transfer finds the key in the map.
ContextDone(t) == t \in cancelled

\* Mutant of Present: do not wait for a cancelled transfer, replace it.
PresentUnlessCancelled(k) ==
    transfers[k] # NoXfer /\ transfers[k] \notin cancelled

\* xfer, present := tm.transfers[key]
Present(k) == transfers[k] # NoXfer

\* A new transfer starts at once unless the limit is reached.
MayStart == concurrencyLimit = 0 \/ activeTransfers < concurrencyLimit

\* Mutant of Inactivate: the slot is given back but no waiting transfer is
\* started.
InactivateWithoutHandover(t) ==
    IF t \notin start
    THEN UNCHANGED <<activeTransfers, waitingTransfers, start>>
    ELSE /\ activeTransfers' = activeTransfers - 1
         /\ UNCHANGED <<waitingTransfers, start>>

\* Mutant of Inactivate: the slot is both handed over and given back.
InactivateTwice(t) ==
    IF t \notin start
    THEN UNCHANGED <<activeTransfers, waitingTransfers, start>>
    ELSE /\ activeTransfers' = activeTransfers - 1
         /\ IF waitingTransfers # <<>>
            THEN /\ start' = start \cup {Head(waitingTransfers)}
                 /\ waitingTransfers' = Tail(waitingTransfers)
            ELSE UNCHANGED <<waitingTransfers, start>>

\* (tm *transferManager) inactivate: a transfer that was started hands its
\* slot to the first waiting transfer, or gives it back.
Inactivate(t) ==
    IF t \notin start
    THEN UNCHANGED <<activeTransfers, waitingTransfers, start>>
    ELSE IF waitingTransfers # <<>>
    THEN /\ start' = start \cup {Head(waitingTransfers)}
         /\ waitingTransfers' = Tail(waitingTransfers)
         /\ UNCHANGED activeTransfers
    ELSE /\ activeTransfers' = activeTransfers - 1
         /\ UNCHANGED <<waitingTransfers, start>>

----------------------------------------------------------------------------
Init ==
    /\ concurrencyLimit \in Limits
    /\ activeTransfers = 0
    /\ transfers = [k \in Keys |-> NoXfer]
    /\ waitingTransfers = <<>>
    /\ start = {}
    /\ inactive = {}
    /\ returned = {}
    /\ doFunc = [t \in Transfers |-> "unborn"]
    /\ mgr = [t \in Transfers |-> "none"]
    /\ keyOf \in [Transfers -> Keys]
    /\ cancelled = {}
    /\ closed = {}
    /\ released = {}
    /\ watchers = [t \in Transfers |-> {}]
    /\ caller = [c \in Callers |-> [pc |-> "idle", xfer |-> NoXfer]]

\* SetConcurrency, on a daemon configuration reload.
SetConcurrency(n) ==
    /\ concurrencyLimit' = n
    /\ UNCHANGED <<activeTransfers, transfers, waitingTransfers, doVars,
                   xferVars, caller>>

\* A caller is at the head of the loop of Transfer(k): it has just called,
\* or it waited for the Done of a cancelled transfer and holds tm.mu again.
AtTransferLoop(c, k) ==
    \/ caller[c].pc = "idle"
    \/ /\ caller[c].pc = "retry"
       /\ keyOf[caller[c].xfer] = k
       /\ Done(caller[c].xfer)

\* Transfer, key in the map and not cancelled: join as a watcher.
TransferJoin(c, k) ==
    /\ AtTransferLoop(c, k)
    /\ Present(k)
    /\ ~ContextDone(transfers[k])
    /\ watchers' = [watchers EXCEPT ![transfers[k]] = @ \cup {c}]
    /\ caller' = [caller EXCEPT ![c] = [pc |-> "watching",
                                        xfer |-> transfers[k]]]
    /\ UNCHANGED <<tmVars, doVars, cancelled, closed, released>>

\* Transfer, key in the map but cancelled: the watcher just added is released
\* again, which leaves the watchers as they were, and the caller waits for
\* the cancelled transfer without tm.mu.
TransferWaitCancelled(c, k) ==
    /\ AtTransferLoop(c, k)
    /\ Present(k)
    /\ ContextDone(transfers[k])
    /\ caller' = [caller EXCEPT ![c] = [pc |-> "retry",
                                        xfer |-> transfers[k]]]
    /\ UNCHANGED <<tmVars, doVars, xferVars>>

\* Transfer, key not in the map: create the transfer t, give it a slot or
\* queue it, call the DoFunc, watch it and start the goroutine that tracks it.
TransferNew(c, k, t) ==
    /\ AtTransferLoop(c, k)
    /\ ~Present(k)
    /\ Fresh(c, t)
    /\ IF MayStart
       THEN /\ activeTransfers' = activeTransfers + 1
            /\ start' = start \cup {t}
            /\ UNCHANGED waitingTransfers
       ELSE /\ waitingTransfers' = Append(waitingTransfers, t)
            /\ start' = start \ {t}
            /\ UNCHANGED activeTransfers
    /\ inactive' = inactive \ {t}
    /\ returned' = returned \ {t}
    /\ doFunc' = [doFunc EXCEPT ![t] = "waiting"]
    /\ mgr' = [mgr EXCEPT ![t] = "tracking"]
    /\ keyOf' = [keyOf EXCEPT ![t] = k]
    /\ cancelled' = cancelled \ {t}
    /\ closed' = closed \ {t}
    /\ released' = released \ {t}
    /\ watchers' = [watchers EXCEPT ![t] = {c}]
    /\ transfers' = [transfers EXCEPT ![k] = t]
    /\ caller' = [caller EXCEPT ![c] = [pc |-> "watching",
                                        xfer |-> t]]
    /\ UNCHANGED concurrencyLimit

\* (t *transfer) Release: the last watcher closes released when the manager
\* has already closed the transfer, and cancels the transfer otherwise.
Release(c) ==
    LET t == caller[c].xfer
        last == watchers[t] \ {c} = {}
    IN  /\ caller[c].pc = "watching"
        /\ watchers' = [watchers EXCEPT ![t] = @ \ {c}]
        /\ released' = IF last /\ t \in closed THEN released \cup {t}
                       ELSE released
        /\ cancelled' = IF last /\ t \notin closed THEN cancelled \cup {t}
                        ELSE cancelled
        /\ caller' = [caller EXCEPT ![c] = [pc |-> "idle",
                                            xfer |-> NoXfer]]
        /\ UNCHANGED <<tmVars, doVars, closed>>

----------------------------------------------------------------------------
\* The goroutine of makeDownloadFunc, makeDownloadFuncFromDownload and
\* makeUploadFunc: all of them block on start before anything else, even when
\* the transfer has been cancelled.
DoStart(t) ==
    /\ doFunc[t] = "waiting"
    /\ t \in start
    /\ doFunc' = [doFunc EXCEPT ![t] = "running"]
    /\ UNCHANGED <<tmVars, start, inactive, returned, mgr, keyOf, xferVars,
                   caller>>

\* close(inactive): the data is there, the rest waits for the parent layer.
DoInactive(t) ==
    /\ doFunc[t] = "running"
    /\ doFunc' = [doFunc EXCEPT ![t] = "waitingParent"]
    /\ inactive' = inactive \cup {t}
    /\ UNCHANGED <<tmVars, start, returned, mgr, keyOf, xferVars, caller>>

\* close(progressChan), on success, failure or cancellation: Broadcast sees
\* it and closes t.running.
DoReturn(t) ==
    /\ doFunc[t] \in {"running", "waitingParent"}
    /\ doFunc' = [doFunc EXCEPT ![t] = "done"]
    /\ UNCHANGED <<tmVars, start, inactive, returned, mgr, keyOf, xferVars,
                   caller>>

\* case <-inactive of the goroutine that tracks t.
MgrInactive(t) ==
    /\ mgr[t] = "tracking"
    /\ t \in inactive \ returned
    /\ Inactivate(t)
    /\ returned' = returned \cup {t}
    /\ UNCHANGED <<concurrencyLimit, transfers, inactive, doFunc, mgr, keyOf,
                   xferVars, caller>>

\* if inactive != nil, when xfer.Done() is seen.
HoldsSlot(t) == t \notin returned

\* case <-xfer.Done(): give the slot back unless that was done before, and
\* delete the key from the map.
MgrDone(t) ==
    /\ mgr[t] = "tracking"
    /\ Done(t)
    /\ IF HoldsSlot(t) THEN Inactivate(t)
       ELSE UNCHANGED <<activeTransfers, waitingTransfers, start>>
    /\ returned' = returned \cup {t}
    /\ transfers' = [transfers EXCEPT ![keyOf[t]] = NoXfer]
    /\ mgr' = [mgr EXCEPT ![t] = "closing"]
    /\ UNCHANGED <<concurrencyLimit, inactive, doFunc, keyOf, xferVars, caller>>

\* Mutants of Unwatched: Close always, or never, closes released.
UnwatchedAlways(t) == TRUE
UnwatchedNever(t) == FALSE

\* len(t.watchers) == 0 in Close.
Unwatched(t) == watchers[t] = {}

\* (t *transfer) Close, after tm.mu was released.
MgrClose(t) ==
    /\ mgr[t] = "closing"
    /\ closed' = closed \cup {t}
    /\ released' = IF Unwatched(t) THEN released \cup {t} ELSE released
    /\ mgr' = [mgr EXCEPT ![t] = "gone"]
    /\ UNCHANGED <<tmVars, start, inactive, returned, doFunc, keyOf, cancelled,
                   watchers, caller>>

Next ==
    \/ \E n \in Limits : SetConcurrency(n)
    \/ \E c \in Callers, k \in Keys :
          \/ TransferJoin(c, k)
          \/ TransferWaitCancelled(c, k)
          \/ \E t \in Transfers : TransferNew(c, k, t)
    \/ \E c \in Callers : Release(c)
    \/ \E t \in Transfers :
          \/ DoStart(t) \/ DoInactive(t) \/ DoReturn(t)
          \/ MgrInactive(t) \/ MgrDone(t) \/ MgrClose(t)

Spec == Init /\ [][Next]_vars

\* Fairness: Go runs every goroutine that can run.  DoReturn assumes that the
\* network and the layer store answer, with a result or with an error.  The
\* callers are under no obligation to call or to release.
Fairness ==
    \A t \in Transfers :
        /\ WF_vars(DoStart(t))
        /\ WF_vars(DoReturn(t))
        /\ WF_vars(MgrInactive(t))
        /\ WF_vars(MgrDone(t))
        /\ WF_vars(MgrClose(t))

FairSpec == Spec /\ Fairness

----------------------------------------------------------------------------
(***************************************************************************)
(* Properties                                                              *)
(***************************************************************************)
\* The values the variables of transferManager and transfer may have.
TypeOK ==
    /\ concurrencyLimit \in Limits
    /\ activeTransfers \in Nat
    /\ transfers \in [Keys -> Transfers \cup {NoXfer}]
    /\ waitingTransfers \in Seq(Transfers)
    /\ start \subseteq Transfers
    /\ inactive \subseteq Transfers
    /\ returned \subseteq Transfers
    /\ doFunc \in [Transfers -> DoPhases]
    /\ mgr \in [Transfers -> MgrPhases]
    /\ keyOf \in [Transfers -> Keys]
    /\ cancelled \subseteq Transfers
    /\ closed \subseteq Transfers
    /\ released \subseteq Transfers
    /\ watchers \in [Transfers -> SUBSET Callers]
    /\ caller \in [Callers -> [pc : CallerPhases,
                               xfer : Transfers \cup {NoXfer}]]

\* The transfers that hold a slot: started, and not yet given back by the
\* goroutine that tracks them.
SlotHolders == {t \in Transfers : /\ mgr[t] = "tracking"
                                  /\ t \in start
                                  /\ t \notin returned}

\* activeTransfers counts exactly the transfers that hold a slot: inactivate
\* is called once per started transfer, whichever of the inactive and Done
\* channels its goroutine sees first, and hands over without losing a slot.
SlotAccounting == activeTransfers = Cardinality(SlotHolders)

\* Unless some limit is "unlimited", no more slots are used than the largest
\* limit that was ever set (SetConcurrency may lower it below the slots used).
ConcurrencyBound == 0 \notin Limits => \E n \in Limits : activeTransfers <= n

\* A transfer in waitingTransfers is never stranded: while one waits, some
\* transfer holds a slot whose return will start it.
QueueIsServed == waitingTransfers # <<>> => SlotHolders # {}

\* Deduplication: two transfers of the same key are never in progress at once,
\* also when a cancelled one is replaced while callers wait for its Done.
SingleFlight ==
    \A t, u \in Transfers :
        /\ t # u
        /\ mgr[t] = "tracking" /\ mgr[u] = "tracking"
        => keyOf[t] # keyOf[u]

\* A caller that watches a transfer never sees it cancelled by the release of
\* another caller: Transfer only hands out transfers that are not cancelled.
WatchedNotCancelled ==
    \A t \in Transfers : watchers[t] # {} => t \notin cancelled

\* released ("all watchers released and no longer tracked") is closed only when
\* nobody can still use the layer that the download retains.  It also keeps
\* Close, which closes the channel without looking, from closing it twice.
ReleasedUnwatched ==
    \A t \in released : watchers[t] = {} /\ mgr[t] = "gone"

\* Every transfer, cancelled or not, gets its slot in the end.
StartsEventually ==
    \A t \in Transfers : doFunc[t] = "waiting" ~> doFunc[t] = "running"

\* A transfer that lost its last watcher while it was tracked is released in
\* the end, so that the layer it retains is not leaked.
AbandonedIsReleased ==
    \A t \in Transfers :
        (mgr[t] = "tracking" /\ watchers[t] = {}) ~> t \in released
=============================================================================
