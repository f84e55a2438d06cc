----------------------- MODULE TransferManagerProofs -----------------------
(***************************************************************************)
(* Proofs about the transfer manager, for any sets of keys and callers,    *)
(* any finite set of transfers alive at a time and any limits.             *)
(*                                                                         *)
(* None of the properties is inductive by itself.  Returning a slot keeps  *)
(* SlotAccounting only because a transfer in the queue is tracked, not     *)
(* started and has not returned a slot (QueueConsistent), which holds      *)
(* because its DoFunc is still blocked on start.  SingleFlight needs the   *)
(* map and the tracking goroutines to agree (MapConsistent), and the two   *)
(* properties of watchers need the watchers of a transfer and the callers  *)
(* that hold it to be the same thing (WatchersConsistent).                 *)
(*                                                                         *)
(* The second part is about the download manager, which extends it.        *)
(* ResultExists is not inductive either: a pull's result is kept by its    *)
(* watcher (ResultsOK), which is on the transfer of the right layer        *)
(* (WatchedKeysOK), which has that layer as long as it is not released     *)
(* (LayersOK), and released needs the first part.  The first part uses no  *)
(* assumption of DownloadManager.                                          *)
(***************************************************************************)
EXTENDS DownloadManager, FiniteSetTheorems, TLAPS

\* Transfers in the queue are distinct and still blocked on their start.
QueueConsistent ==
    /\ \A i \in 1 .. Len(waitingTransfers) :
          /\ mgr[waitingTransfers[i]] = "tracking"
          /\ doFunc[waitingTransfers[i]] = "waiting"
          /\ waitingTransfers[i] \notin start
          /\ waitingTransfers[i] \notin returned
    /\ \A i, j \in 1 .. Len(waitingTransfers) :
          waitingTransfers[i] = waitingTransfers[j] => i = j

\* Only a DoFunc that has started closes inactive.
InactiveConsistent ==
    \A t \in inactive : doFunc[t] \in {"waitingParent", "done"}

\* A slot is returned only after the DoFunc closed inactive or ended.
ReturnedConsistent ==
    \A t \in returned : t \in inactive \/ doFunc[t] = "done"

\* The map holds exactly the transfers that are tracked, under their key.
MapConsistent ==
    /\ \A k \in Keys : transfers[k] # NoXfer =>
          /\ mgr[transfers[k]] = "tracking"
          /\ keyOf[transfers[k]] = k
    /\ \A t \in Transfers : mgr[t] = "tracking" => transfers[keyOf[t]] = t

\* The watchers of a transfer are the callers that hold it.
WatchersConsistent ==
    /\ \A t \in Transfers, c \in Callers :
          c \in watchers[t] <=> (caller[c].pc = "watching" /\ caller[c].xfer = t)
    /\ \A c \in Callers : caller[c].pc # "idle" => caller[c].xfer \in Transfers

\* Close is called by a goroutine that then returns.
ClosedConsistent ==
    \A t \in closed : mgr[t] = "gone"

Structure ==
    /\ QueueConsistent
    /\ InactiveConsistent
    /\ ReturnedConsistent
    /\ MapConsistent
    /\ WatchersConsistent
    /\ ClosedConsistent
    /\ WatchedNotCancelled
    /\ ReleasedUnwatched

IInv == TypeOK /\ Structure /\ SlotAccounting /\ ConcurrencyBound

----------------------------------------------------------------------------
\* The slot holders are a finite set.
LEMMA HoldersFinite ==
    IsFiniteSet(SlotHolders) /\ Cardinality(SlotHolders) \in Nat
  BY FS_Subset, FS_CardinalityType, TransfersFinite DEF SlotHolders

\* Init establishes the invariant: no transfer exists.
LEMMA InitIInv == Init => IInv
<1> SUFFICES ASSUME Init PROVE IInv
  OBVIOUS
<1> USE DEF Init
<1>1. TypeOK
  BY LimitsNat DEF TypeOK, DoPhases, MgrPhases, CallerPhases
<1>2. Structure
  BY NoXferFresh DEF Structure, QueueConsistent, InactiveConsistent, ReturnedConsistent,
     MapConsistent, WatchersConsistent, ClosedConsistent, WatchedNotCancelled,
     ReleasedUnwatched
<1>3. SlotAccounting
  <2>1. SlotHolders = {}
    BY DEF SlotHolders
  <2> QED BY <2>1, FS_EmptySet DEF SlotAccounting
<1>4. ConcurrencyBound
  BY LimitsNat DEF ConcurrencyBound
<1> QED BY <1>1, <1>2, <1>3, <1>4 DEF IInv

----------------------------------------------------------------------------
\* What giving a slot back does, for both cases of the tracking goroutine:
\* the holder t is replaced by the head of the queue, or it leaves and the
\* counter goes down with it.
LEMMA InactivateStep ==
    ASSUME IInv, NEW t \in Transfers,
           mgr[t] = "tracking", t \notin returned, doFunc[t] # "waiting",
           Inactivate(t), returned' = returned \cup {t}, doFunc' = doFunc,
           mgr' \in [Transfers -> MgrPhases],
           \A u \in Transfers \ {t} : mgr'[u] = mgr[u],
           concurrencyLimit' = concurrencyLimit
    PROVE  /\ activeTransfers' \in Nat
           /\ waitingTransfers' \in Seq(Transfers)
           /\ start' \subseteq Transfers
           /\ QueueConsistent'
           /\ SlotAccounting'
           /\ ConcurrencyBound'
<1> USE DEF IInv, Structure
<1>h. IsFiniteSet(SlotHolders) /\ Cardinality(SlotHolders) \in Nat
  BY HoldersFinite
<1>1. CASE t \notin start
  <2>1. UNCHANGED <<activeTransfers, waitingTransfers, start>>
    BY <1>1 DEF Inactivate
  <2>2. SlotHolders' = SlotHolders
    BY <1>1, <2>1 DEF SlotHolders
  <2>3. \A i \in 1 .. Len(waitingTransfers) : waitingTransfers[i] # t
    BY DEF QueueConsistent, TypeOK
  <2>4. QueueConsistent'
    BY <2>1, <2>3 DEF QueueConsistent, TypeOK
  <2> QED BY <2>1, <2>2, <2>4 DEF TypeOK, SlotAccounting, ConcurrencyBound
<1>2. CASE t \in start /\ waitingTransfers # <<>>
  <2> DEFINE h == Head(waitingTransfers)
  <2>1. /\ start' = start \cup {h}
        /\ waitingTransfers' = Tail(waitingTransfers)
        /\ activeTransfers' = activeTransfers
    BY <1>2 DEF Inactivate
  <2>2. /\ Len(waitingTransfers) \in Nat /\ Len(waitingTransfers) > 0
        /\ h = waitingTransfers[1]
        /\ h \in Transfers
        /\ Tail(waitingTransfers) \in Seq(Transfers)
        /\ Len(Tail(waitingTransfers)) = Len(waitingTransfers) - 1
        /\ \A i \in 1 .. Len(Tail(waitingTransfers)) :
              Tail(waitingTransfers)[i] = waitingTransfers[i + 1]
    BY <1>2 DEF TypeOK
  <2>3. /\ mgr[h] = "tracking" /\ doFunc[h] = "waiting"
        /\ h \notin start /\ h \notin returned /\ h # t
    BY <2>2 DEF QueueConsistent
  <2>4. \A i \in 1 .. Len(Tail(waitingTransfers)) :
           /\ i + 1 \in 1 .. Len(waitingTransfers)
           /\ Tail(waitingTransfers)[i] # h
           /\ Tail(waitingTransfers)[i] # t
    BY <2>2 DEF QueueConsistent
  <2> HIDE DEF h
  <2>5. QueueConsistent'
    <3>1. ASSUME NEW i \in 1 .. Len(waitingTransfers')
          PROVE  /\ mgr'[waitingTransfers'[i]] = "tracking"
                 /\ doFunc'[waitingTransfers'[i]] = "waiting"
                 /\ waitingTransfers'[i] \notin start'
                 /\ waitingTransfers'[i] \notin returned'
      <4>1. waitingTransfers'[i] = waitingTransfers[i + 1]
        BY <2>1, <2>2
      <4>2. waitingTransfers[i + 1] \in Transfers \ {t}
        BY <2>1, <2>2, <2>4 DEF TypeOK
      <4> QED BY <2>1, <2>2, <2>4, <4>1, <4>2 DEF QueueConsistent
    <3>2. ASSUME NEW i \in 1 .. Len(waitingTransfers'),
                 NEW j \in 1 .. Len(waitingTransfers'),
                 waitingTransfers'[i] = waitingTransfers'[j]
          PROVE  i = j
      BY <2>1, <2>2, <2>4, <3>2 DEF QueueConsistent
    <3> QED BY <3>1, <3>2 DEF QueueConsistent
  <2>6. SlotHolders' = (SlotHolders \ {t}) \cup {h}
    BY <1>2, <2>1, <2>2, <2>3 DEF SlotHolders
  <2>7. t \in SlotHolders /\ h \notin SlotHolders
    BY <1>2, <2>3 DEF SlotHolders
  <2>8. Cardinality(SlotHolders') = Cardinality(SlotHolders)
    <3>1. /\ IsFiniteSet(SlotHolders \ {t})
          /\ Cardinality(SlotHolders \ {t}) = Cardinality(SlotHolders) - 1
      BY <1>h, <2>7, FS_RemoveElement
    <3>2. Cardinality((SlotHolders \ {t}) \cup {h})
             = Cardinality(SlotHolders \ {t}) + 1
      BY <2>7, <3>1, FS_AddElement
    <3> QED BY <1>h, <2>6, <3>1, <3>2
  <2> QED BY <2>1, <2>2, <2>5, <2>8 DEF TypeOK, SlotAccounting, ConcurrencyBound
<1>3. CASE t \in start /\ waitingTransfers = <<>>
  <2>1. /\ activeTransfers' = activeTransfers - 1
        /\ UNCHANGED <<waitingTransfers, start>>
    BY <1>3 DEF Inactivate
  <2>2. QueueConsistent'
    BY <1>3, <2>1 DEF QueueConsistent
  <2>3. SlotHolders' = SlotHolders \ {t}
    BY <1>3, <2>1 DEF SlotHolders
  <2>4. t \in SlotHolders
    BY <1>3 DEF SlotHolders
  <2>5. Cardinality(SlotHolders') = Cardinality(SlotHolders) - 1
    BY <1>h, <2>3, <2>4, FS_RemoveElement
  <2>6. Cardinality(SlotHolders') \in Nat
    BY <1>h, <2>3, FS_RemoveElement, FS_CardinalityType
  <2> QED
    BY <1>h, <2>1, <2>2, <2>5, <2>6, LimitsNat
       DEF TypeOK, SlotAccounting, ConcurrencyBound
<1> QED BY <1>1, <1>2, <1>3

----------------------------------------------------------------------------
\* The steps that touch neither the slots nor the queue.
LEMMA SlotsUntouched ==
    ASSUME IInv,
           UNCHANGED <<activeTransfers, waitingTransfers, start, returned, mgr>>,
           \A t \in Transfers : doFunc[t] = "waiting" /\ t \notin start
                                  => doFunc'[t] = "waiting"
    PROVE  QueueConsistent' /\ SlotAccounting' /\ ConcurrencyBound'
<1>1. SlotHolders' = SlotHolders
  BY DEF SlotHolders
<1>2. QueueConsistent'
  <2>1. \A i \in 1 .. Len(waitingTransfers) : waitingTransfers[i] \in Transfers
    BY DEF IInv, TypeOK
  <2> QED BY <2>1 DEF IInv, Structure, QueueConsistent
<1> QED BY <1>1, <1>2 DEF IInv, SlotAccounting, ConcurrencyBound

\* A new transfer takes a slot within the limit, or goes to the end of the queue.
LEMMA TransferNewStep ==
    ASSUME IInv, NEW c \in Callers, NEW k \in Keys, NEW t \in Transfers,
           TransferNew(c, k, t)
    PROVE  IInv'
<1> USE DEF IInv, Structure
<1>0. /\ mgr[t] \in {"none", "gone"} /\ watchers[t] = {}
      /\ \A d \in Callers \ {c} : caller[d].xfer # t
      /\ transfers[k] = NoXfer
      /\ caller[c].pc # "watching"
  BY DEF TransferNew, Fresh, Present, AtTransferLoop
<1>1. \A i \in 1 .. Len(waitingTransfers) :
         waitingTransfers[i] \in Transfers /\ waitingTransfers[i] # t
  BY <1>0 DEF QueueConsistent, TypeOK
<1>2. TypeOK'
  <2>1. /\ activeTransfers' \in Nat
        /\ waitingTransfers' \in Seq(Transfers)
        /\ start' \subseteq Transfers
    <3>1. CASE MayStart
      BY <3>1 DEF TypeOK, TransferNew
    <3>2. CASE ~MayStart
      <4>1. /\ waitingTransfers' = Append(waitingTransfers, t)
            /\ start' = start \ {t} /\ activeTransfers' = activeTransfers
        BY <3>2 DEF TransferNew
      <4> QED BY <4>1 DEF TypeOK
    <3> QED BY <3>1, <3>2
  <2>2. caller' \in [Callers -> [pc : CallerPhases, xfer : Transfers \cup {NoXfer}]]
    BY DEF TypeOK, TransferNew, CallerPhases
  <2>3. /\ doFunc' \in [Transfers -> DoPhases] /\ mgr' \in [Transfers -> MgrPhases]
        /\ keyOf' \in [Transfers -> Keys] /\ watchers' \in [Transfers -> SUBSET Callers]
        /\ transfers' \in [Keys -> Transfers \cup {NoXfer}]
    BY DEF TypeOK, TransferNew, DoPhases, MgrPhases
  <2> QED BY <2>1, <2>2, <2>3 DEF TypeOK, TransferNew
<1>3. QueueConsistent'
  <2>1. CASE MayStart
    BY <1>1, <2>1 DEF TransferNew, QueueConsistent, TypeOK
  <2>2. CASE ~MayStart
    <3>1. waitingTransfers' = Append(waitingTransfers, t) /\ start' = start \ {t}
      BY <2>2 DEF TransferNew
    <3>2. /\ Len(waitingTransfers) \in Nat
          /\ Len(waitingTransfers') = Len(waitingTransfers) + 1
          /\ waitingTransfers'[Len(waitingTransfers) + 1] = t
          /\ \A i \in 1 .. Len(waitingTransfers) :
                waitingTransfers'[i] = waitingTransfers[i]
      BY <3>1 DEF TypeOK
    <3>3. \A i \in 1 .. Len(waitingTransfers') :
             i \in 1 .. Len(waitingTransfers) \/ i = Len(waitingTransfers) + 1
      BY <3>2
    <3>4. \A i \in 1 .. Len(waitingTransfers') :
             /\ mgr'[waitingTransfers'[i]] = "tracking"
             /\ doFunc'[waitingTransfers'[i]] = "waiting"
             /\ waitingTransfers'[i] \notin start'
             /\ waitingTransfers'[i] \notin returned'
      BY <1>1, <3>1, <3>2, <3>3 DEF TransferNew, QueueConsistent, TypeOK
    <3>5. \A i, j \in 1 .. Len(waitingTransfers') :
             waitingTransfers'[i] = waitingTransfers'[j] => i = j
      BY <1>1, <3>2, <3>3 DEF QueueConsistent
    <3> QED BY <3>4, <3>5 DEF QueueConsistent
  <2> QED BY <2>1, <2>2
<1>4. InactiveConsistent' /\ ReturnedConsistent' /\ ClosedConsistent'
  BY <1>0 DEF InactiveConsistent, ReturnedConsistent, ClosedConsistent, TransferNew, TypeOK
<1>5. MapConsistent'
  <2>1. /\ transfers' = [transfers EXCEPT ![k] = t]
        /\ mgr' = [mgr EXCEPT ![t] = "tracking"]
        /\ keyOf' = [keyOf EXCEPT ![t] = k]
    BY DEF TransferNew
  <2>2. \A j \in Keys \ {k} : transfers[j] # t
    BY <1>0, NoXferFresh DEF MapConsistent
  <2>3. \A u \in Transfers \ {t} : mgr[u] = "tracking" => keyOf[u] # k
    BY <1>0, NoXferFresh DEF MapConsistent
  <2>4. \A j \in Keys : transfers'[j] # NoXfer =>
           mgr'[transfers'[j]] = "tracking" /\ keyOf'[transfers'[j]] = j
    BY <2>1, <2>2 DEF MapConsistent, TypeOK
  <2>5. \A u \in Transfers : mgr'[u] = "tracking" => transfers'[keyOf'[u]] = u
    BY <2>1, <2>3 DEF MapConsistent, TypeOK
  <2> QED BY <2>4, <2>5 DEF MapConsistent
<1>6. WatchersConsistent'
  BY <1>0 DEF WatchersConsistent, TransferNew, TypeOK
<1>7. WatchedNotCancelled'
  BY <1>0 DEF WatchedNotCancelled, TransferNew, TypeOK
<1>8. ReleasedUnwatched'
  BY <1>0 DEF ReleasedUnwatched, TransferNew, TypeOK
<1>9. SlotAccounting'
  <2>1. t \notin SlotHolders
    BY <1>0 DEF SlotHolders
  <2>2. CASE MayStart
    <3>1. SlotHolders' = SlotHolders \cup {t}
      BY <2>2 DEF SlotHolders, TransferNew, TypeOK
    <3> QED BY <2>1, <2>2, <3>1, HoldersFinite, FS_AddElement
            DEF SlotAccounting, TransferNew
  <2>3. CASE ~MayStart
    <3>1. SlotHolders' = SlotHolders
      BY <1>0, <2>3 DEF SlotHolders, TransferNew, TypeOK
    <3> QED BY <2>3, <3>1 DEF SlotAccounting, TransferNew
  <2> QED BY <2>2, <2>3
<1>10. ConcurrencyBound'
  BY LimitsNat DEF ConcurrencyBound, TransferNew, MayStart, TypeOK
<1> QED BY <1>2, <1>3, <1>4, <1>5, <1>6, <1>7, <1>8, <1>9, <1>10

\* Every step preserves the invariant.
LEMMA NextIInv == IInv /\ [Next]_vars => IInv'
<1> SUFFICES ASSUME IInv, [Next]_vars PROVE IInv'
  OBVIOUS
<1> USE DEF IInv, Structure
<1>1. ASSUME NEW n \in Limits, SetConcurrency(n) PROVE IInv'
  <2> USE <1>1 DEF SetConcurrency, doVars, xferVars
  <2>1. QueueConsistent' /\ SlotAccounting' /\ ConcurrencyBound'
    BY SlotsUntouched
  <2>2. TypeOK'
    BY DEF TypeOK
  <2> QED BY <2>1, <2>2 DEF InactiveConsistent, ReturnedConsistent, MapConsistent,
         WatchersConsistent, ClosedConsistent, WatchedNotCancelled, ReleasedUnwatched
<1>2. ASSUME NEW c \in Callers, NEW k \in Keys, TransferJoin(c, k) PROVE IInv'
  <2> USE <1>2 DEF tmVars, doVars
  <2>0. /\ transfers[k] \in Transfers
        /\ mgr[transfers[k]] = "tracking"
        /\ transfers[k] \notin cancelled
        /\ caller[c].pc # "watching"
    BY DEF TransferJoin, Present, ContextDone, AtTransferLoop, MapConsistent, TypeOK
  <2>1. QueueConsistent' /\ SlotAccounting' /\ ConcurrencyBound'
    BY SlotsUntouched DEF TransferJoin
  <2>2. TypeOK'
    BY <2>0 DEF TypeOK, TransferJoin, CallerPhases
  <2>3. WatchersConsistent'
    BY <2>0 DEF WatchersConsistent, TransferJoin, TypeOK
  <2>4. WatchedNotCancelled' /\ ReleasedUnwatched'
    BY <2>0 DEF WatchedNotCancelled, ReleasedUnwatched, TransferJoin, TypeOK
  <2> QED BY <2>1, <2>2, <2>3, <2>4 DEF TransferJoin, InactiveConsistent,
         ReturnedConsistent, MapConsistent, ClosedConsistent
<1>3. ASSUME NEW c \in Callers, NEW k \in Keys, TransferWaitCancelled(c, k) PROVE IInv'
  <2> USE <1>3 DEF TransferWaitCancelled, tmVars, doVars, xferVars
  <2>0. transfers[k] \in Transfers /\ caller[c].pc # "watching"
    BY DEF Present, AtTransferLoop, TypeOK
  <2>1. QueueConsistent' /\ SlotAccounting' /\ ConcurrencyBound'
    BY SlotsUntouched
  <2>2. TypeOK'
    BY <2>0 DEF TypeOK, CallerPhases
  <2>3. WatchersConsistent'
    BY <2>0 DEF WatchersConsistent, TypeOK
  <2> QED BY <2>1, <2>2, <2>3 DEF InactiveConsistent, ReturnedConsistent,
         MapConsistent, ClosedConsistent, WatchedNotCancelled, ReleasedUnwatched
<1>4. ASSUME NEW c \in Callers, NEW k \in Keys, NEW t \in Transfers,
             TransferNew(c, k, t)
      PROVE IInv'
  BY <1>4, TransferNewStep
<1>5. ASSUME NEW c \in Callers, Release(c) PROVE IInv'
  <2> USE <1>5 DEF tmVars, doVars
  <2>0. caller[c].pc = "watching" /\ caller[c].xfer \in Transfers
    BY DEF Release, WatchersConsistent
  <2>1. QueueConsistent' /\ SlotAccounting' /\ ConcurrencyBound'
    BY SlotsUntouched DEF Release
  <2>2. TypeOK'
    BY <2>0 DEF TypeOK, Release, CallerPhases
  <2>3. WatchersConsistent'
    BY <2>0 DEF WatchersConsistent, Release, TypeOK
  <2>4. WatchedNotCancelled' /\ ReleasedUnwatched'
    BY <2>0 DEF WatchedNotCancelled, ReleasedUnwatched, ClosedConsistent, Release, TypeOK
  <2> QED BY <2>1, <2>2, <2>3, <2>4 DEF Release, InactiveConsistent,
         ReturnedConsistent, MapConsistent, ClosedConsistent
<1>6. ASSUME NEW t \in Transfers, DoStart(t) \/ DoInactive(t) \/ DoReturn(t) PROVE IInv'
  <2> USE <1>6 DEF DoStart, DoInactive, DoReturn, tmVars, xferVars
  <2>1. QueueConsistent' /\ SlotAccounting' /\ ConcurrencyBound'
    <3>1. \A u \in Transfers : doFunc[u] = "waiting" /\ u \notin start
                                 => doFunc'[u] = "waiting"
      BY DEF TypeOK
    <3> QED BY <3>1, SlotsUntouched
  <2>2. TypeOK'
    BY DEF TypeOK, DoPhases
  <2>3. InactiveConsistent' /\ ReturnedConsistent'
    BY DEF InactiveConsistent, ReturnedConsistent, TypeOK
  <2> QED BY <2>1, <2>2, <2>3 DEF MapConsistent, WatchersConsistent,
         ClosedConsistent, WatchedNotCancelled, ReleasedUnwatched
<1>7. ASSUME NEW t \in Transfers, MgrInactive(t) PROVE IInv'
  <2> USE <1>7 DEF MgrInactive, xferVars
  <2>1. /\ activeTransfers' \in Nat /\ waitingTransfers' \in Seq(Transfers)
        /\ start' \subseteq Transfers
        /\ QueueConsistent' /\ SlotAccounting' /\ ConcurrencyBound'
    BY InactivateStep DEF InactiveConsistent, TypeOK
  <2>2. TypeOK'
    BY <2>1 DEF TypeOK
  <2> QED BY <2>1, <2>2 DEF InactiveConsistent, ReturnedConsistent, MapConsistent,
         WatchersConsistent, ClosedConsistent, WatchedNotCancelled, ReleasedUnwatched
<1>8. ASSUME NEW t \in Transfers, MgrDone(t) PROVE IInv'
  <2> USE <1>8 DEF MgrDone, Done, HoldsSlot, xferVars
  <2>0. mgr' \in [Transfers -> MgrPhases] /\ \A u \in Transfers \ {t} : mgr'[u] = mgr[u]
    BY DEF TypeOK, MgrPhases
  <2>1. /\ activeTransfers' \in Nat /\ waitingTransfers' \in Seq(Transfers)
        /\ start' \subseteq Transfers
        /\ QueueConsistent' /\ SlotAccounting' /\ ConcurrencyBound'
    <3>1. CASE t \notin returned
      BY <2>0, <3>1, InactivateStep DEF TypeOK
    <3>2. CASE t \in returned
      <4>1. UNCHANGED <<activeTransfers, waitingTransfers, start, returned>>
        BY <3>2
      <4>2. SlotHolders' = SlotHolders
        BY <2>0, <3>2, <4>1 DEF SlotHolders
      <4>3. \A i \in 1 .. Len(waitingTransfers) : waitingTransfers[i] \in Transfers \ {t}
        BY <3>2 DEF QueueConsistent, TypeOK
      <4>4. QueueConsistent'
        BY <2>0, <4>1, <4>3 DEF QueueConsistent
      <4> QED BY <4>1, <4>2, <4>4 DEF TypeOK, SlotAccounting, ConcurrencyBound
    <3> QED BY <3>1, <3>2
  <2>2. TypeOK'
    BY <2>0, <2>1 DEF TypeOK
  <2>3. InactiveConsistent' /\ ReturnedConsistent'
    BY DEF InactiveConsistent, ReturnedConsistent
  <2>4. MapConsistent'
    BY <2>0, NoXferFresh DEF MapConsistent, TypeOK
  <2>5. ClosedConsistent' /\ ReleasedUnwatched'
    BY DEF ClosedConsistent, ReleasedUnwatched, TypeOK
  <2> QED BY <2>1, <2>2, <2>3, <2>4, <2>5 DEF WatchersConsistent, WatchedNotCancelled
<1>9. ASSUME NEW t \in Transfers, MgrClose(t) PROVE IInv'
  <2> USE <1>9 DEF MgrClose, Unwatched, tmVars
  <2>1. SlotHolders' = SlotHolders
    BY DEF SlotHolders, TypeOK
  <2>2. QueueConsistent'
    <3>1. \A i \in 1 .. Len(waitingTransfers) : waitingTransfers[i] \in Transfers \ {t}
      BY DEF QueueConsistent, TypeOK
    <3> QED BY <3>1 DEF QueueConsistent, TypeOK
  <2>3. TypeOK'
    BY DEF TypeOK, MgrPhases
  <2>4. MapConsistent' /\ ClosedConsistent' /\ ReleasedUnwatched'
    BY DEF MapConsistent, ClosedConsistent, ReleasedUnwatched, TypeOK
  <2> QED BY <2>1, <2>2, <2>3, <2>4 DEF SlotAccounting, ConcurrencyBound,
         InactiveConsistent, ReturnedConsistent, WatchersConsistent, WatchedNotCancelled
<1>10. CASE UNCHANGED vars
  <2> USE <1>10 DEF vars, tmVars, doVars, xferVars
  <2>1. QueueConsistent' /\ SlotAccounting' /\ ConcurrencyBound'
    BY SlotsUntouched
  <2> QED BY <2>1 DEF TypeOK, InactiveConsistent, ReturnedConsistent, MapConsistent,
         WatchersConsistent, ClosedConsistent, WatchedNotCancelled, ReleasedUnwatched
<1> QED
  BY <1>1, <1>2, <1>3, <1>4, <1>5, <1>6, <1>7, <1>8, <1>9, <1>10 DEF Next

----------------------------------------------------------------------------
\* The invariant holds in every reachable state.
THEOREM InvariantHolds == Spec => []IInv
  BY InitIInv, NextIInv, PTL DEF Spec

\* Type correctness; that activeTransfers stays a natural number rests on
\* SlotAccounting, since inactivate decrements it without a test.
THEOREM TypeCorrect == Spec => []TypeOK
<1>1. IInv => TypeOK
  BY DEF IInv
<1> QED BY <1>1, InvariantHolds, PTL

\* activeTransfers is the number of slot holders, whatever the order in which
\* the goroutines of the transfers see their inactive and Done channels.
THEOREM SlotsAreCounted == Spec => []SlotAccounting
<1>1. IInv => SlotAccounting
  BY DEF IInv
<1> QED BY <1>1, InvariantHolds, PTL

\* The slots in use respect the limits that were configured, also when a daemon
\* reload lowers the limit below the number of transfers that run.
THEOREM SlotsAreBounded == Spec => []ConcurrencyBound
<1>1. IInv => ConcurrencyBound
  BY DEF IInv
<1> QED BY <1>1, InvariantHolds, PTL

\* A transfer waits only while the manager counts a slot in use.
QueueCounted == waitingTransfers # <<>> => activeTransfers > 0

\* A transfer is queued only at the limit, and a slot is given back only when
\* the queue is empty.
LEMMA QueueCountedStep == IInv /\ QueueCounted /\ [Next]_vars => QueueCounted'
<1> SUFFICES ASSUME IInv, QueueCounted, [Next]_vars PROVE QueueCounted'
  OBVIOUS
<1>0. TypeOK
  BY DEF IInv
<1> USE <1>0 DEF QueueCounted
<1>1. ASSUME NEW t \in Transfers, Inactivate(t) PROVE QueueCounted'
  BY <1>1 DEF Inactivate
<1>2. ASSUME NEW c \in Callers, NEW k \in Keys, NEW t \in Transfers, TransferNew(c, k, t)
      PROVE  QueueCounted'
  BY <1>2, LimitsNat DEF TransferNew, MayStart, TypeOK
<1>3. ASSUME NEW t \in Transfers, MgrInactive(t) \/ MgrDone(t) PROVE QueueCounted'
  BY <1>1, <1>3 DEF MgrInactive, MgrDone
<1>4. CASE UNCHANGED <<activeTransfers, waitingTransfers>>
  BY <1>4
<1>5. CASE UNCHANGED vars
  BY <1>4, <1>5 DEF vars, tmVars
<1>6. ASSUME NEW n \in Limits, SetConcurrency(n) PROVE QueueCounted'
  BY <1>4, <1>6 DEF SetConcurrency
<1>7. ASSUME NEW c \in Callers, NEW k \in Keys,
             TransferJoin(c, k) \/ TransferWaitCancelled(c, k) \/ Release(c)
      PROVE  QueueCounted'
  BY <1>4, <1>7 DEF TransferJoin, TransferWaitCancelled, Release, tmVars
<1>8. ASSUME NEW c \in Callers, Release(c) PROVE QueueCounted'
  BY <1>4, <1>8 DEF Release, tmVars
<1>9. ASSUME NEW t \in Transfers, DoStart(t) \/ DoInactive(t) \/ DoReturn(t) \/ MgrClose(t)
      PROVE  QueueCounted'
  BY <1>4, <1>9 DEF DoStart, DoInactive, DoReturn, MgrClose, tmVars
<1> QED BY <1>2, <1>3, <1>5, <1>6, <1>7, <1>8, <1>9 DEF Next

\* While a transfer waits in the queue some other holds a slot, so that the
\* queue is served without help from a later call.
THEOREM QueueNeverStranded == Spec => []QueueIsServed
<1>1. Init => QueueCounted
  BY DEF Init, QueueCounted
<1>2. IInv /\ QueueCounted => QueueIsServed
  <2> SUFFICES ASSUME IInv, QueueCounted, waitingTransfers # <<>> PROVE SlotHolders # {}
    BY DEF QueueIsServed
  <2>1. Cardinality(SlotHolders) > 0
    BY HoldersFinite DEF IInv, SlotAccounting, QueueCounted
  <2>2. SlotHolders = {} => Cardinality(SlotHolders) = 0
    BY FS_EmptySet
  <2> QED BY <2>1, <2>2
<1> QED BY <1>1, <1>2, QueueCountedStep, InvariantHolds, PTL DEF Spec

\* Transfers of one key are never in progress twice.
THEOREM TransfersDeduplicated == Spec => []SingleFlight
<1>1. IInv => SingleFlight
  BY DEF IInv, Structure, MapConsistent, SingleFlight
<1> QED BY <1>1, InvariantHolds, PTL

\* No caller has its transfer cancelled by another.
THEOREM WatchersAreSafe == Spec => []WatchedNotCancelled
<1>1. IInv => WatchedNotCancelled
  BY DEF IInv, Structure
<1> QED BY <1>1, InvariantHolds, PTL

\* The result of a transfer is given up only when it is no longer tracked and no
\* caller watches it, and the channel that says so is never closed twice.
THEOREM ResultOutlivesWatchers == Spec => []ReleasedUnwatched
<1>1. IInv => ReleasedUnwatched
  BY DEF IInv, Structure
<1> QED BY <1>1, InvariantHolds, PTL

----------------------------------------------------------------------------
(* The download manager, which takes its steps in the transfer manager.    *)

PullRecord == [pc : {"look", "transfer", "wait", "return", "holding", "ended"},
               next : 1 .. Depth + 1, outcome : Outcomes]
DownloadRecord == [step : Steps, parent : Transfers \cup {NoXfer},
                   source : Transfers \cup {NoXfer}, err : Errors,
                   layer : 0 .. Depth, retries : 0 .. MaxAttempts - 1]

\* A pull asks for no more layers than it wants.
PullsOK ==
    /\ setup \in Setup /\ pull \in [Pulls -> PullRecord] /\ topLayer \in [Pulls -> 0 .. Depth]
    /\ \A p \in Pulls : pull[p].pc \in {"look", "transfer"} => pull[p].next <= setup.len[p]

\* A pull watches the transfer of the layer at its position.
WatchedKeysOK ==
    \A p \in Pulls, i \in Positions :
        caller[<<p, i>>].pc = "watching" => keyOf[caller[<<p, i>>].xfer] = i

\* An error is set when a download returns, and a download that skips the fetch
\* because of its parent still finds the parent's error.
ErrorsOK ==
    /\ dl \in [Transfers -> DownloadRecord]
    /\ \A t \in Transfers :
          /\ dl[t].err # "none" => Done(t)
          /\ dl[t].step = "skip" /\ dl[t].source = NoXfer =>
                dl[t].parent # NoXfer /\ dl[dl[t].parent].err # "none"

\* A download that succeeded keeps its layer until its transfer is released.
Good(t) == Done(t) /\ dl[t].err = "none"
LayersOK == \A t \in Transfers \ released : Good(t) => dl[t].layer = keyOf[t]

\* A pull that succeeded watches the download of its top layer, or holds it.
Top(p) == <<p, setup.len[p]>>
HasResult(p) == caller[Top(p)].pc = "watching" /\ Good(caller[Top(p)].xfer)
ResultsOK ==
    \A p \in Pulls :
        /\ pull[p].pc = "wait" => caller[Top(p)].pc = "watching"
        /\ pull[p].pc = "return" /\ pull[p].outcome = "ok" => HasResult(p)
        /\ pull[p].pc = "holding" =>
              topLayer[p] = setup.len[p] \/ (pull[p].outcome = "ok" /\ HasResult(p))

DInv == PullsOK /\ WatchedKeysOK /\ ErrorsOK /\ LayersOK /\ ResultsOK

\* The position that a pull is at.
LEMMA PositionOf ==
    ASSUME PullsOK, NEW p \in Pulls
    PROVE  /\ setup.len[p] \in Positions /\ setup.len[p] \in Nat /\ Top(p) \in Callers
           /\ pull[p].pc \in {"look", "transfer"} =>
                 /\ pull[p].next \in Positions /\ <<p, pull[p].next>> \in Callers
                 /\ pull[p].next \in Nat
<1>1. setup.len[p] \in 1 .. Depth
  BY DEF PullsOK, Setup, Positions
<1>2. pull[p] \in PullRecord
  BY DEF PullsOK
<1>3. pull[p].next \in 1 .. Depth + 1
  BY <1>2 DEF PullRecord
<1>4. pull[p].pc \in {"look", "transfer"} => pull[p].next \in 1 .. Depth
  BY <1>1, <1>3, DownloadAssumption DEF PullsOK
<1> QED BY <1>1, <1>4, DownloadAssumption DEF Positions, Top

\* Every step of pulls and downloads is a step of the transfer manager, or
\* leaves it alone.
LEMMA DownloadUsesTransfers ==
    ASSUME PullsOK, DownloadNext
    PROVE  Next \/ UNCHANGED vars
<1>1. ASSUME NEW p \in Pulls, PullSteps(p) \/ PullWait(p) \/ PullEnd(p)
      PROVE  Next \/ UNCHANGED vars
  <2>1. CASE PullFound(p) \/ PullMissing(p) \/ PullReturn(p) \/ PullWait(p)
    BY <2>1 DEF PullFound, PullMissing, PullReturn, PullWait
  <2>2. CASE PullTransfer(p) \/ PullTransferWaits(p)
    <3>1. PICK i : i = pull[p].next
      OBVIOUS
    <3>2. pull[p].pc = "transfer"
      BY <2>2 DEF PullTransfer, PullTransferWaits
    <3>3. i \in Keys /\ <<p, i>> \in Callers
      BY <3>1, <3>2, PositionOf, DownloadAssumption
    <3>4. \/ TransferJoin(<<p, i>>, i) \/ TransferWaitCancelled(<<p, i>>, i)
          \/ \E t \in Transfers : TransferNew(<<p, i>>, i, t)
      BY <2>2, <3>1 DEF PullTransfer, PullTransferWaits
    <3>5. PICK k \in Callers : k = <<p, i>>
      BY <3>3
    <3> QED BY <3>3, <3>4, <3>5 DEF Next
  <2>3. CASE PullRelease(p) \/ PullEnd(p)
    <3>1. setup.len[p] \in Positions
      BY PositionOf
    <3>2. Depth \in Nat
      BY DownloadAssumption
    <3>3. CASE UNCHANGED vars
      BY <3>3
    <3>4. CASE \E j \in 1 .. setup.len[p] : Release(<<p, j>>)
      <4>1. PICK j \in 1 .. setup.len[p] : Release(<<p, j>>)
        BY <3>4
      <4>2. <<p, j>> \in Callers
        BY <3>1, <3>2, DownloadAssumption DEF Positions
      <4> QED BY <4>1, <4>2 DEF Next
    <3>5. setup.len[p] \in 1 .. setup.len[p]
      BY <3>1, <3>2 DEF Positions
    <3> QED BY <2>3, <3>3, <3>4, <3>5 DEF PullRelease, PullEnd, ToRelease
  <2> QED BY <1>1, <2>1, <2>2, <2>3 DEF PullSteps
<1>2. ASSUME NEW t \in Transfers, DownloadSteps(t) \/ DownloadDrop(t) \/ Manage(t)
      PROVE  Next \/ UNCHANGED vars
  <2>1. \/ UNCHANGED vars
        \/ DoStart(t) \/ DoInactive(t) \/ DoReturn(t)
        \/ MgrInactive(t) \/ MgrDone(t) \/ MgrClose(t)
    BY <1>2 DEF DownloadSteps, DownloadDrop, Manage, DownloadStart, DownloadSkip, DownloadFetch,
       DownloadDelay, DownloadParent, DownloadSource, DownloadRegister, Return, AwaitFails
  <2> QED BY <2>1 DEF Next
<1>3. ASSUME NEW n \in Limits, DownloadSetConcurrency(n)
      PROVE  Next \/ UNCHANGED vars
  BY <1>3 DEF DownloadSetConcurrency, Next
<1> QED BY <1>1, <1>2, <1>3 DEF DownloadNext

\* A pull that has its result keeps it while its own watcher stays.
LEMMA ResultKept ==
    ASSUME IInv, DInv, NEW p \in Pulls, HasResult(p),
           \A t \in Transfers : watchers[t] # {} /\ Good(t) => Good(t)',
           setup' = setup, caller'[Top(p)] = caller[Top(p)]
    PROVE  HasResult(p)'
<1>1. PICK c \in Callers : c = Top(p)
  BY PositionOf DEF DInv
<1>2. PICK x : x = caller[c].xfer
  OBVIOUS
<1>3. caller[c].pc = "watching" /\ Good(x)
  BY <1>1, <1>2 DEF HasResult
<1>4. x \in Transfers /\ c \in watchers[x]
  BY <1>2, <1>3 DEF IInv, Structure, WatchersConsistent
<1>5. Good(x)'
  BY <1>3, <1>4
<1>6. Top(p)' = c /\ caller'[c] = caller[c]
  BY <1>1 DEF Top
<1>7. (caller[Top(p)].pc)' = "watching" /\ (caller[Top(p)].xfer)' = x
  BY <1>2, <1>3, <1>6
<1> QED BY <1>5, <1>7 DEF HasResult, Good, Done

\* A step of the transfer manager that neither creates a transfer nor runs one
\* leaves the downloads as they are.
LEMMA DownloadsStay ==
    ASSUME DInv, UNCHANGED <<keyOf, doFunc, dl>>, released \subseteq released'
    PROVE  ErrorsOK' /\ LayersOK' /\ \A t \in Transfers : Good(t) => Good(t)'
BY DEF DInv, ErrorsOK, LayersOK, Good, Done

\* The goroutine of one download takes a step.
LEMMA DownloadMoves ==
    ASSUME IInv, DInv, NEW t \in Transfers, NEW d \in DownloadRecord,
           NEW f \in DoPhases,
           dl' = [dl EXCEPT ![t] = d], doFunc' = [doFunc EXCEPT ![t] = f],
           UNCHANGED <<pull, setup, topLayer, caller, keyOf, released>>,
           Done(t) => f = "done" /\ d.err = dl[t].err,
           d.err # "none" => f = "done",
           d.step = "skip" /\ d.source = NoXfer => d.parent # NoXfer /\ dl[d.parent].err # "none",
           f = "done" /\ d.err = "none" /\ t \notin released => d.layer = keyOf[t]
    PROVE  DInv'
<1>0. dl \in [Transfers -> DownloadRecord] /\ doFunc \in [Transfers -> DoPhases]
  BY DEF DInv, ErrorsOK, IInv, TypeOK
<1>1. /\ dl' \in [Transfers -> DownloadRecord] /\ dl'[t] = d /\ doFunc'[t] = f
      /\ \A u \in Transfers : u # t => dl'[u] = dl[u] /\ doFunc'[u] = doFunc[u]
  BY <1>0
<1>2. PullsOK' /\ WatchedKeysOK'
  BY DEF DInv, PullsOK, WatchedKeysOK
<1>3. \A u \in Transfers : dl[u].err # "none" => dl'[u].err # "none"
  BY <1>1 DEF DInv, ErrorsOK
<1>4. ErrorsOK'
  <2>1. ASSUME NEW u \in Transfers
        PROVE  /\ dl'[u].err # "none" => doFunc'[u] = "done"
               /\ dl'[u].step = "skip" /\ dl'[u].source = NoXfer =>
                     dl'[u].parent # NoXfer /\ dl'[dl'[u].parent].err # "none"
    <3>1. dl'[u].err # "none" => doFunc'[u] = "done"
      BY <1>1 DEF DInv, ErrorsOK, Done
    <3>2. dl'[u].parent \in Transfers \cup {NoXfer}
      BY <1>1 DEF DownloadRecord
    <3>3. dl'[u].step = "skip" /\ dl'[u].source = NoXfer =>
             dl'[u].parent # NoXfer /\ dl[dl'[u].parent].err # "none"
      BY <1>1 DEF DInv, ErrorsOK
    <3> QED BY <1>3, <3>1, <3>2, <3>3
  <2> QED BY <1>1, <2>1 DEF ErrorsOK, Done
<1>5. LayersOK'
  BY <1>1 DEF DInv, LayersOK, Good, Done
<1>6. \A u \in Transfers : Good(u) => Good(u)'
  BY <1>1 DEF Good, Done
<1>7. ResultsOK'
  <2>1. ASSUME NEW p \in Pulls, HasResult(p) PROVE HasResult(p)'
    BY <1>6, <2>1, ResultKept
  <2>2. \A p \in Pulls : Top(p)' = Top(p)
    BY DEF Top
  <2> QED BY <2>1, <2>2 DEF DInv, ResultsOK
<1> QED BY <1>2, <1>4, <1>5, <1>7 DEF DInv

\* The steps of the goroutine of a download.
LEMMA DownloadStepsKeep ==
    ASSUME IInv, DInv, NEW t \in Transfers,
           DownloadSteps(t) \/ DownloadDrop(t)
    PROVE  DInv'
<1>0. PICK e \in DownloadRecord : e = dl[t]
  BY DEF DInv, ErrorsOK
<1>1. /\ dl \in [Transfers -> DownloadRecord] /\ doFunc \in [Transfers -> DoPhases]
      /\ keyOf[t] \in Positions
      /\ e.err # "none" => Done(t)
      /\ e.step = "skip" /\ e.source = NoXfer => e.parent # NoXfer /\ dl[e.parent].err # "none"
      /\ Done(t) /\ e.err = "none" /\ t \notin released => e.layer = keyOf[t]
  BY <1>0, DownloadAssumption DEF DInv, ErrorsOK, LayersOK, Good, IInv, TypeOK
<1>2. doFunc = [doFunc EXCEPT ![t] = doFunc[t]] /\ doFunc[t] \in DoPhases
  BY <1>1
<1>3. UNCHANGED <<pull, setup, topLayer>>
  BY DEF DownloadSteps, DownloadDrop, DownloadStart, DownloadSkip, DownloadFetch, DownloadDelay,
     DownloadParent, DownloadSource, DownloadRegister, pullVars
<1>4. "running" \in DoPhases /\ "waitingParent" \in DoPhases /\ "done" \in DoPhases
  BY DEF DoPhases
\* returns with an error
<1>5. ASSUME NEW err \in Errors \ {"none"}, Return(t, err) PROVE DInv'
  <2>1. PICK d : d = [NoDownload EXCEPT !.err = err]
    OBVIOUS
  <2>2. d \in DownloadRecord /\ d.err = err /\ d.step = "returned"
    BY <2>1, DownloadAssumption DEF NoDownload, DownloadRecord, Steps, Errors
  <2>3. /\ dl' = [dl EXCEPT ![t] = d] /\ doFunc' = [doFunc EXCEPT ![t] = "done"]
        /\ ~Done(t) /\ UNCHANGED <<caller, keyOf, released>>
    BY <1>5, <2>1 DEF Return, DoReturn, xferVars, Done
  <2> QED BY <1>3, <1>4, <2>2, <2>3, DownloadMoves
\* goes on without a change of the transfer
<1>6. ASSUME NEW d \in DownloadRecord, dl' = [dl EXCEPT ![t] = d], d.err = e.err,
             d.layer = e.layer \/ t \in released, d.step # "skip" \/ d = [e EXCEPT !.layer = 0],
             UNCHANGED vars
      PROVE  DInv'
  <2>1. doFunc' = doFunc /\ UNCHANGED <<caller, keyOf, released>>
    BY <1>6 DEF vars, tmVars, doVars, xferVars
  <2>2. PICK f \in DoPhases : f = doFunc[t]
    BY <1>2
  <2>3. doFunc' = [doFunc EXCEPT ![t] = f]
    BY <1>2, <2>1, <2>2
  <2>4. Done(t) => f = "done" /\ d.err = dl[t].err
    BY <1>0, <1>6, <2>2 DEF Done
  <2>5. d.err # "none" => f = "done"
    BY <1>1, <1>6, <2>2 DEF Done
  <2>6. d.step = "skip" /\ d.source = NoXfer => d.parent # NoXfer /\ dl[d.parent].err # "none"
    <3>1. d = [e EXCEPT !.layer = 0] => d.step = e.step /\ d.source = e.source /\ d.parent = e.parent
      BY DEF DownloadRecord
    <3> QED BY <1>1, <1>6, <3>1
  <2>7. f = "done" /\ d.err = "none" /\ t \notin released => d.layer = keyOf[t]
    BY <1>1, <1>6, <2>2 DEF Done
  <2> QED BY <1>3, <1>6, <2>1, <2>3, <2>4, <2>5, <2>6, <2>7, DownloadMoves
\* goes on to the step s
<1>7. ASSUME NEW s \in Steps, GoOn(t, s)
      PROVE  \E d \in DownloadRecord :
               /\ dl' = [dl EXCEPT ![t] = d] /\ d.step = s /\ d.err = e.err /\ d.layer = e.layer
               /\ d.source = e.source /\ d.parent = e.parent
  <2>1. PICK d : d = [e EXCEPT !.step = s]
    OBVIOUS
  <2>2. dl' = [dl EXCEPT ![t] = d]
    BY <1>0, <1>7, <2>1 DEF GoOn
  <2>3. /\ d \in DownloadRecord /\ d.step = s /\ d.err = e.err /\ d.layer = e.layer
        /\ d.source = e.source /\ d.parent = e.parent
    BY <2>1 DEF DownloadRecord
  <2> QED BY <2>2, <2>3
<1>8. ASSUME NEW s \in Steps \ {"skip"}, GoOn(t, s), UNCHANGED vars PROVE DInv'
  BY <1>6, <1>7, <1>8
<1>9. ASSUME NEW s \in Steps, GoOn(t, s), NEW f \in {"running", "waitingParent"},
             doFunc' = [doFunc EXCEPT ![t] = f], ~Done(t), UNCHANGED <<caller, keyOf, released>>,
             s = "skip" /\ e.source = NoXfer => e.parent # NoXfer /\ dl[e.parent].err # "none"
      PROVE  DInv'
  <2>1. PICK d \in DownloadRecord :
               /\ dl' = [dl EXCEPT ![t] = d] /\ d.step = s /\ d.err = e.err /\ d.layer = e.layer
               /\ d.source = e.source /\ d.parent = e.parent
    BY <1>7, <1>9
  <2>2. d.err = "none" /\ f \in DoPhases /\ f # "done"
    BY <1>1, <1>4, <1>9, <2>1
  <2> QED BY <1>3, <1>9, <2>1, <2>2, DownloadMoves
<1>10. DoInactive(t) => /\ doFunc' = [doFunc EXCEPT ![t] = "waitingParent"] /\ ~Done(t)
                              /\ UNCHANGED <<caller, keyOf, released>>
  BY DEF DoInactive, xferVars, Done
<1>11. /\ "fetch" \in Steps /\ "delay" \in Steps /\ "parent" \in Steps /\ "source" \in Steps
       /\ "register" \in Steps /\ "skip" \in Steps
       /\ "fetch" \in Errors /\ "register" \in Errors /\ "cancelled" \in Errors
       /\ "noParent" \in Errors
  BY DEF Steps, Errors
<1>12. \A u \in Transfers : dl[u].err \in Errors
  BY <1>1 DEF DownloadRecord
<1>13. ASSUME NEW u \in Transfers \cup {NoXfer}, AwaitFails(t, u) PROVE DInv'
  <2>1. PICK err \in AwaitErrors(t, u) : Return(t, err)
    BY <1>13 DEF AwaitFails
  <2>2. err \in Errors \ {"none"}
    BY <1>11, <1>12 DEF AwaitErrors, Failed
  <2> QED BY <1>5, <2>1, <2>2
<1>14. e.parent \in Transfers \cup {NoXfer} /\ e.source \in Transfers \cup {NoXfer}
  BY DEF DownloadRecord
<1>15. CASE DownloadStart(t)
  <2>1. PICK s \in {"fetch", "skip"} : GoOn(t, s)
                 /\ s = IF e.source = NoXfer /\ ~Failed(e.parent) THEN "fetch" ELSE "skip"
    BY <1>0, <1>15 DEF DownloadStart
  <2>2. doFunc' = [doFunc EXCEPT ![t] = "running"] /\ ~Done(t) /\ UNCHANGED <<caller, keyOf, released>>
    BY <1>15 DEF DownloadStart, DoStart, xferVars, Done
  <2>3. s = "skip" /\ e.source = NoXfer => e.parent # NoXfer /\ dl[e.parent].err # "none"
    BY <2>1 DEF Failed
  <2> QED BY <1>9, <1>11, <2>1, <2>2, <2>3
<1>16. CASE DownloadSkip(t)
  <2>1. CASE DoInactive(t) /\ GoOn(t, "parent")
    BY <1>9, <1>10, <1>11, <2>1
  <2>2. CASE e.step = "skip" /\ e.source = NoXfer /\ Return(t, dl[e.parent].err)
    <3>1. dl[e.parent].err \in Errors \ {"none"}
      BY <1>1, <1>12, <1>14, <2>2
    <3> QED BY <1>5, <2>2, <3>1
  <2> QED BY <1>0, <1>16, <2>1, <2>2 DEF DownloadSkip
<1>17. CASE DownloadFetch(t)
  <2>1. CASE DoInactive(t) /\ GoOn(t, "parent")
    BY <1>9, <1>10, <1>11, <2>1
  <2>2. CASE Return(t, "cancelled") \/ Return(t, "fetch")
    BY <1>5, <1>11, <2>2
  <2>3. CASE /\ ~LastAttempt(t) /\ UNCHANGED vars
             /\ dl' = [dl EXCEPT ![t].step = "delay", ![t].retries = @ + 1]
    <3>1. PICK n : n = e.retries + 1
      OBVIOUS
    <3>2. n \in 0 .. MaxAttempts - 1
      <4>1. e.retries \in 0 .. MaxAttempts - 1
        BY DEF DownloadRecord
      <4>2. e.retries + 1 # MaxAttempts
        BY <1>0, <2>3 DEF LastAttempt
      <4> QED BY <3>1, <4>1, <4>2, DownloadAssumption
    <3>3. PICK d : d = [e EXCEPT !.step = "delay", !.retries = n]
      OBVIOUS
    <3>4. d \in DownloadRecord /\ d.err = e.err /\ d.layer = e.layer /\ d.step # "skip"
      BY <1>11, <3>2, <3>3 DEF DownloadRecord
    <3>5. dl' = [dl EXCEPT ![t] = d]
      BY <1>0, <1>1, <2>3, <3>1, <3>3
    <3> QED BY <1>6, <2>3, <3>4, <3>5
  <2> QED BY <1>17, <2>1, <2>2, <2>3 DEF DownloadFetch
<1>18. CASE DownloadDelay(t)
  BY <1>5, <1>8, <1>11, <1>18 DEF DownloadDelay
<1>19. CASE DownloadParent(t)
  <2>1. CASE AwaitFails(t, e.parent)
    BY <1>13, <1>14, <2>1
  <2>2. CASE UNCHANGED vars /\ GoOn(t, IF e.source = NoXfer THEN "register" ELSE "source")
    BY <1>8, <1>11, <2>2
  <2> QED BY <1>0, <1>19, <2>1, <2>2 DEF DownloadParent
<1>20. CASE DownloadSource(t)
  <2>1. CASE AwaitFails(t, e.source)
    BY <1>13, <1>14, <2>1
  <2>2. CASE UNCHANGED vars /\ GoOn(t, "register")
    BY <1>8, <1>11, <2>2
  <2> QED BY <1>0, <1>20, <2>1, <2>2 DEF DownloadSource
<1>21. CASE DownloadRegister(t)
  <2>1. CASE Return(t, "noParent") \/ Return(t, "cancelled") \/ Return(t, "register")
    BY <1>5, <1>11, <2>1
  <2>2. CASE /\ DoReturn(t)
             /\ dl' = [dl EXCEPT ![t] = [NoDownload EXCEPT !.layer = keyOf[t]]]
    <3>1. PICK d : d = [NoDownload EXCEPT !.layer = keyOf[t]]
      OBVIOUS
    <3>2. d \in DownloadRecord /\ d.err = "none" /\ d.step = "returned" /\ d.layer = keyOf[t]
      <4>1. keyOf[t] \in 0 .. Depth
        BY <1>1, DownloadAssumption DEF Positions
      <4> QED BY <3>1, <4>1, DownloadAssumption DEF NoDownload, DownloadRecord, Steps, Errors
    <3>3. /\ dl' = [dl EXCEPT ![t] = d] /\ doFunc' = [doFunc EXCEPT ![t] = "done"]
          /\ ~Done(t) /\ UNCHANGED <<caller, keyOf, released>>
      BY <2>2, <3>1 DEF DoReturn, xferVars, Done
    <3> QED BY <1>3, <1>4, <3>2, <3>3, DownloadMoves
  <2> QED BY <1>21, <2>1, <2>2 DEF DownloadRegister
<1>22. CASE DownloadDrop(t)
  <2>1. PICK d : d = [e EXCEPT !.layer = 0]
    OBVIOUS
  <2>2. d \in DownloadRecord /\ d.err = e.err
    BY <2>1, DownloadAssumption DEF DownloadRecord
  <2>3. dl' = [dl EXCEPT ![t] = d] /\ t \in released /\ UNCHANGED vars
    BY <1>0, <1>22, <2>1 DEF DownloadDrop, MayDrop
  <2> QED BY <1>6, <2>1, <2>2, <2>3
<1> QED BY <1>15, <1>16, <1>17, <1>18, <1>19, <1>20, <1>21, <1>22 DEF DownloadSteps

\* A pull takes a step, which may be a step of one of its callers: the other
\* pulls are not affected as long as the downloads they watch are not.
LEMMA PullMoves ==
    ASSUME IInv, DInv, NEW p \in Pulls,
           setup' = setup, pull' \in [Pulls -> PullRecord], topLayer' \in [Pulls -> 0 .. Depth],
           pull'[p].pc \in {"look", "transfer"} => pull'[p].next <= setup.len[p],
           \A q \in Pulls \ {p} :
              /\ pull'[q] = pull[q] /\ topLayer'[q] = topLayer[q]
              /\ \A i \in Positions : caller'[<<q, i>>] = caller[<<q, i>>],
           WatchedKeysOK', ErrorsOK', LayersOK',
           \A t \in Transfers : watchers[t] # {} /\ Good(t) => Good(t)',
           pull'[p].pc = "wait" => caller'[Top(p)].pc = "watching",
           pull'[p].pc = "return" /\ pull'[p].outcome = "ok" => HasResult(p)',
           pull'[p].pc = "holding" =>
              topLayer'[p] = setup.len[p] \/ (pull'[p].outcome = "ok" /\ HasResult(p)')
    PROVE  DInv'
<1>1. PullsOK'
  <2>1. \A q \in Pulls : pull'[q].pc \in {"look", "transfer"} => pull'[q].next <= setup.len[q]
    BY DEF DInv, PullsOK
  <2> QED BY <2>1 DEF DInv, PullsOK, PullRecord
<1>2. ASSUME NEW q \in Pulls
      PROVE  /\ pull'[q].pc = "wait" => caller'[Top(q)].pc = "watching"
             /\ pull'[q].pc = "return" /\ pull'[q].outcome = "ok" => HasResult(q)'
             /\ pull'[q].pc = "holding" =>
                   topLayer'[q] = setup.len[q] \/ (pull'[q].outcome = "ok" /\ HasResult(q)')
  <2>1. CASE q = p
    BY <2>1
  <2>2. CASE q # p
    <3>1. setup.len[q] \in Positions
      BY PositionOf DEF DInv
    <3>2. pull'[q] = pull[q] /\ topLayer'[q] = topLayer[q] /\ caller'[Top(q)] = caller[Top(q)]
      BY <2>2, <3>1 DEF Top
    <3>3. HasResult(q) => HasResult(q)'
      BY <3>2, ResultKept
    <3> QED BY <3>2, <3>3 DEF DInv, ResultsOK
  <2> QED BY <2>1, <2>2
<1>3. \A q \in Pulls : Top(q)' = Top(q)
  BY DEF Top
<1>4. ResultsOK'
  BY <1>2, <1>3 DEF ResultsOK
<1> QED BY <1>1, <1>4 DEF DInv

\* What a pull does to its own record.
LEMMA PullRecordMoves ==
    ASSUME PullsOK, NEW p \in Pulls, NEW r \in PullRecord,
           pull' = [pull EXCEPT ![p] = r]
    PROVE  /\ pull' \in [Pulls -> PullRecord] /\ pull'[p] = r
           /\ \A q \in Pulls \ {p} : pull'[q] = pull[q]
BY DEF PullsOK

\* The steps of a pull that do not call the transfer manager.
LEMMA LocalPullStepsKeep ==
    ASSUME IInv, DInv, NEW p \in Pulls,
           PullFound(p) \/ PullMissing(p) \/ PullWait(p) \/ PullReturn(p)
    PROVE  DInv'
<1>1. PICK e \in PullRecord : e = pull[p]
  BY DEF DInv, PullsOK
<1>2. /\ pull \in [Pulls -> PullRecord] /\ topLayer \in [Pulls -> 0 .. Depth]
      /\ e.next \in 1 .. Depth + 1 /\ e.outcome \in Outcomes
  BY DEF DInv, PullsOK, PullRecord
<1>3. UNCHANGED vars /\ setup' = setup /\ dl' = dl
  BY DEF PullFound, PullMissing, PullWait, PullReturn
<1>4. UNCHANGED <<keyOf, doFunc, caller, released, watchers>>
  BY <1>3 DEF vars, tmVars, doVars, xferVars
<1>5. WatchedKeysOK' /\ ErrorsOK' /\ LayersOK' /\ \A t \in Transfers : Good(t) => Good(t)'
  <2>1. WatchedKeysOK'
    BY <1>4 DEF DInv, WatchedKeysOK
  <2> QED BY <1>3, <1>4, <2>1, DownloadsStay
<1>6. HasResult(p) => HasResult(p)'
  BY <1>3, <1>4, <1>5, ResultKept
<1>7. /\ setup.len[p] \in Positions /\ setup.len[p] \in 1 .. Depth
      /\ e.pc \in {"look", "transfer"} => e.next <= setup.len[p]
  BY <1>1, PositionOf DEF DInv, PullsOK, Positions
<1>8. CASE PullFound(p)
  <2>1. PICK r : r = [e EXCEPT !.next = e.next + 1,
                               !.pc = IF e.next = setup.len[p] THEN "holding" ELSE "look",
                               !.outcome = IF e.next = setup.len[p] THEN "ok" ELSE "none"]
    OBVIOUS
  <2>2. e.pc = "look" /\ pull' = [pull EXCEPT ![p] = r] /\ topLayer' = [topLayer EXCEPT ![p] = e.next]
    BY <1>1, <1>2, <1>8, <2>1 DEF PullFound
  <2>3. e.next \in 1 .. Depth
    BY <1>2, <1>7, <2>2, DownloadAssumption
  <2>4. /\ r.next = e.next + 1
        /\ e.next = setup.len[p] => r.pc = "holding" /\ r.outcome = "ok"
        /\ e.next # setup.len[p] => r.pc = "look" /\ r.outcome = "none"
    BY <2>1 DEF PullRecord
  <2>5. r \in PullRecord
    <3>1. e.next + 1 \in 1 .. Depth + 1
      BY <2>3, DownloadAssumption
    <3>2. "ok" \in Outcomes /\ "none" \in Outcomes
      BY DEF Outcomes
    <3> QED BY <2>1, <3>1, <3>2 DEF PullRecord
  <2>6. r.pc = "look" => r.next <= setup.len[p]
    BY <1>7, <2>2, <2>3, <2>4, DownloadAssumption
  <2>7. topLayer' \in [Pulls -> 0 .. Depth]
    BY <1>2, <2>2, <2>3, DownloadAssumption
  <2>8. r.pc = "holding" => topLayer'[p] = setup.len[p]
    BY <1>2, <2>2, <2>4
  <2>9. \A q \in Pulls \ {p} : topLayer'[q] = topLayer[q]
    BY <1>2, <2>2
  <2>10. r.pc \in {"look", "holding"}
    BY <2>4
  <2>11. /\ pull' \in [Pulls -> PullRecord] /\ pull'[p] = r
         /\ \A q \in Pulls \ {p} : pull'[q] = pull[q]
    BY <2>2, <2>5, PullRecordMoves DEF DInv
  <2> QED BY <1>3, <1>4, <1>5, <2>6, <2>7, <2>8, <2>9, <2>10, <2>11, PullMoves
<1>9. CASE PullMissing(p)
  <2>1. PICK r : r = [e EXCEPT !.pc = "transfer"]
    OBVIOUS
  <2>2. e.pc = "look" /\ pull' = [pull EXCEPT ![p] = r] /\ topLayer' = topLayer
    BY <1>1, <1>9, <2>1 DEF PullMissing
  <2>3. r \in PullRecord /\ r.pc = "transfer" /\ r.next = e.next
    BY <2>1 DEF PullRecord
  <2>4. /\ pull' \in [Pulls -> PullRecord] /\ pull'[p] = r
        /\ \A q \in Pulls \ {p} : pull'[q] = pull[q]
    BY <2>2, <2>3, PullRecordMoves DEF DInv
  <2> QED BY <1>2, <1>3, <1>4, <1>5, <1>7, <2>2, <2>3, <2>4, PullMoves
<1>10. CASE PullWait(p)
  <2>1. PICK o \in Outcomes :
           /\ pull' = [pull EXCEPT ![p].pc = "return", ![p].outcome = o]
           /\ o = "ok" => Good(caller[Top(p)].xfer)
    BY <1>10 DEF PullWait, Good, Top, Done
  <2>2. PICK r : r = [e EXCEPT !.pc = "return", !.outcome = o]
    OBVIOUS
  <2>3. e.pc = "wait" /\ pull' = [pull EXCEPT ![p] = r] /\ topLayer' = topLayer
    BY <1>1, <1>10, <2>1, <2>2 DEF PullWait
  <2>4. r \in PullRecord /\ r.pc = "return" /\ r.outcome = o
    BY <2>2 DEF PullRecord
  <2>5. o = "ok" => HasResult(p)
    BY <1>1, <2>1, <2>3 DEF DInv, ResultsOK, HasResult
  <2>6. /\ pull' \in [Pulls -> PullRecord] /\ pull'[p] = r
        /\ \A q \in Pulls \ {p} : pull'[q] = pull[q]
    BY <2>3, <2>4, PullRecordMoves DEF DInv
  <2> QED BY <1>2, <1>3, <1>4, <1>5, <1>6, <2>3, <2>4, <2>5, <2>6, PullMoves
<1>11. CASE PullReturn(p)
  <2>1. PICK r : r = [e EXCEPT !.pc = IF e.outcome = "ok" THEN "holding" ELSE "ended"]
    OBVIOUS
  <2>2. e.pc = "return" /\ pull' = [pull EXCEPT ![p] = r] /\ topLayer' = topLayer
    BY <1>1, <1>11, <2>1 DEF PullReturn, KeepsTop
  <2>3. /\ r \in PullRecord /\ r.outcome = e.outcome
        /\ r.pc = "ended" \/ (r.pc = "holding" /\ r.outcome = "ok")
    BY <2>1 DEF PullRecord
  <2>4. e.outcome = "ok" => HasResult(p)
    BY <1>1, <2>2 DEF DInv, ResultsOK
  <2>5. /\ pull' \in [Pulls -> PullRecord] /\ pull'[p] = r
        /\ \A q \in Pulls \ {p} : pull'[q] = pull[q]
    BY <2>2, <2>3, PullRecordMoves DEF DInv
  <2> QED BY <1>2, <1>3, <1>4, <1>5, <1>6, <2>2, <2>3, <2>4, <2>5, PullMoves
<1> QED BY <1>8, <1>9, <1>10, <1>11

\* A pull joins or creates the transfer of its next layer.
LEMMA PullTransferKeeps ==
    ASSUME IInv, DInv, NEW p \in Pulls, PullTransfer(p)
    PROVE  DInv'
<1>1. PICK e \in PullRecord : e = pull[p]
  BY DEF DInv, PullsOK
<1>2. PICK i : i = e.next
  OBVIOUS
<1>3. PICK r : r = [e EXCEPT !.next = i + 1, !.pc = IF i = setup.len[p] THEN "wait" ELSE "transfer"]
  OBVIOUS
<1>4. /\ e.pc = "transfer" /\ pull \in [Pulls -> PullRecord] /\ pull' = [pull EXCEPT ![p] = r]
      /\ setup' = setup /\ topLayer' = topLayer /\ topLayer \in [Pulls -> 0 .. Depth]
  BY <1>1, <1>2, <1>3 DEF PullTransfer, DInv, PullsOK
<1>5. i \in 1 .. Depth /\ <<p, i>> \in Callers /\ i <= setup.len[p] /\ setup.len[p] \in 1 .. Depth
  BY <1>1, <1>2, <1>4, PositionOf DEF DInv, PullsOK, Positions
<1>6. r \in PullRecord
  <2>1. i + 1 \in 1 .. Depth + 1
    BY <1>5, DownloadAssumption
  <2> QED BY <1>3, <2>1 DEF PullRecord
<1>7. /\ r.next = i + 1 /\ r.pc \in {"wait", "transfer"}
      /\ r.pc = "wait" => <<p, i>> = Top(p)
      /\ r.pc = "transfer" => r.next <= setup.len[p]
  <2>1. r.next = i + 1 /\ r.pc = IF i = setup.len[p] THEN "wait" ELSE "transfer"
    BY <1>3 DEF PullRecord
  <2>2. i # setup.len[p] => i + 1 <= setup.len[p]
    BY <1>5, DownloadAssumption
  <2> QED BY <2>1, <2>2 DEF Top
<1>8. /\ pull' \in [Pulls -> PullRecord] /\ pull'[p] = r
      /\ \A q \in Pulls \ {p} : pull'[q] = pull[q]
  BY <1>4, <1>6, PullRecordMoves DEF DInv
<1>9. caller \in [Callers -> [pc : CallerPhases, xfer : Transfers \cup {NoXfer}]]
  BY DEF IInv, TypeOK
\* it watches x, and no other caller changes
<1>10. ASSUME NEW x \in Transfers, caller' = [caller EXCEPT ![<<p, i>>] = [pc |-> "watching", xfer |-> x]],
              keyOf'[x] = i,
              \A u \in Transfers : watchers[u] # {} => keyOf'[u] = keyOf[u] /\ (Good(u) => Good(u)'),
              ErrorsOK', LayersOK'
       PROVE  DInv'
  <2>1. /\ caller'[<<p, i>>] = [pc |-> "watching", xfer |-> x]
        /\ \A c \in Callers : c # <<p, i>> => caller'[c] = caller[c]
    BY <1>5, <1>9, <1>10
  <2>2. WatchedKeysOK'
    <3>1. ASSUME NEW q \in Pulls, NEW j \in Positions, caller'[<<q, j>>].pc = "watching"
          PROVE  keyOf'[caller'[<<q, j>>].xfer] = j
      <4>1. CASE <<q, j>> = <<p, i>>
        BY <1>10, <2>1, <4>1
      <4>2. CASE <<q, j>> # <<p, i>>
        <5>1. PICK c \in Callers : c = <<q, j>>
          BY DownloadAssumption
        <5>2. caller'[c] = caller[c] /\ caller[c].pc = "watching"
          BY <2>1, <3>1, <4>2, <5>1
        <5>3. caller[c].xfer \in Transfers /\ c \in watchers[caller[c].xfer]
          BY <5>2 DEF IInv, Structure, WatchersConsistent
        <5>4. keyOf[caller[c].xfer] = j
          BY <5>1, <5>2 DEF DInv, WatchedKeysOK
        <5> QED BY <1>10, <5>1, <5>2, <5>3, <5>4
      <4> QED BY <4>1, <4>2
    <3> QED BY <3>1 DEF WatchedKeysOK
  <2>3. \A q \in Pulls \ {p}, j \in Positions : caller'[<<q, j>>] = caller[<<q, j>>]
    BY <2>1, DownloadAssumption
  <2>4. pull'[p].pc = "wait" => caller'[Top(p)].pc = "watching"
    BY <1>7, <1>8, <2>1
  <2> QED BY <1>4, <1>7, <1>8, <1>10, <2>2, <2>3, <2>4, PullMoves
<1>11. CASE TransferJoin(<<p, i>>, i) /\ dl' = dl
  <2>1. PICK x : x = transfers[i]
    OBVIOUS
  <2>2. /\ x # NoXfer /\ caller' = [caller EXCEPT ![<<p, i>>] = [pc |-> "watching", xfer |-> x]]
        /\ UNCHANGED <<keyOf, doFunc, released>>
    BY <1>11, <2>1 DEF TransferJoin, Present, doVars
  <2>3. i \in Keys
    BY <1>5, DownloadAssumption DEF Positions
  <2>4. x \in Transfers /\ keyOf[x] = i
    BY <2>1, <2>2, <2>3 DEF IInv, TypeOK, Structure, MapConsistent
  <2>5. ErrorsOK' /\ LayersOK' /\ \A u \in Transfers : Good(u) => Good(u)'
    BY <1>11, <2>2, DownloadsStay
  <2> QED BY <1>10, <2>2, <2>4, <2>5
<1>12. ASSUME NEW t \in Transfers, Garbage(t), TransferNew(<<p, i>>, i, t),
              dl' = [dl EXCEPT ![t] = [NoDownload EXCEPT
                        !.step = "start", !.parent = TopDownload(p, i),
                        !.source = ExistingDownload(p, i)]]
       PROVE  DInv'
  <2>1. PICK d : d = [NoDownload EXCEPT !.step = "start", !.parent = TopDownload(p, i),
                                           !.source = ExistingDownload(p, i)]
    OBVIOUS
  <2>2. \A j \in 1 .. Depth : caller[<<p, j>>].xfer \in Transfers \cup {NoXfer}
    BY <1>9, DownloadAssumption DEF Positions
  <2>3. /\ TopDownload(p, i) \in Transfers \cup {NoXfer}
        /\ ExistingDownload(p, i) \in Transfers \cup {NoXfer}
    <3>1. 1 \in 1 .. Depth /\ (i # 1 => i - 1 \in 1 .. Depth)
      BY <1>5, DownloadAssumption
    <3> QED BY <2>2, <3>1 DEF TopDownload, ExistingDownload
  <2>4. d \in DownloadRecord /\ d.step = "start" /\ d.err = "none"
    <3>1. PICK a \in Transfers \cup {NoXfer} : a = TopDownload(p, i)
      BY <2>3
    <3>2. PICK b \in Transfers \cup {NoXfer} : b = ExistingDownload(p, i)
      BY <2>3
    <3>3. d = [step |-> "start", parent |-> a, source |-> b, err |-> "none", layer |-> 0, retries |-> 0]
      BY <2>1, <3>1, <3>2 DEF NoDownload
    <3>4. 0 \in 0 .. Depth /\ 0 \in 0 .. MaxAttempts - 1
      BY DownloadAssumption
    <3> QED BY <3>3, <3>4 DEF DownloadRecord, Steps, Errors
  <2>5. /\ watchers[t] = {} /\ caller' = [caller EXCEPT ![<<p, i>>] = [pc |-> "watching", xfer |-> t]]
        /\ keyOf' = [keyOf EXCEPT ![t] = i] /\ doFunc' = [doFunc EXCEPT ![t] = "waiting"]
        /\ released' = released \ {t}
    BY <1>12 DEF TransferNew, Fresh
  <2>6. /\ dl \in [Transfers -> DownloadRecord] /\ doFunc \in [Transfers -> DoPhases]
        /\ keyOf \in [Transfers -> Keys]
    BY DEF DInv, ErrorsOK, IInv, TypeOK
  <2>7. /\ dl' \in [Transfers -> DownloadRecord] /\ dl'[t] = d /\ doFunc'[t] = "waiting" /\ keyOf'[t] = i
        /\ \A u \in Transfers : u # t => dl'[u] = dl[u] /\ doFunc'[u] = doFunc[u] /\ keyOf'[u] = keyOf[u]
    BY <1>12, <2>1, <2>4, <2>5, <2>6
  <2>8. ErrorsOK'
    <3>1. ASSUME NEW u \in Transfers
          PROVE  /\ dl'[u].err # "none" => doFunc'[u] = "done"
                 /\ dl'[u].step = "skip" /\ dl'[u].source = NoXfer =>
                       dl'[u].parent # NoXfer /\ dl'[dl'[u].parent].err # "none"
      <4>1. CASE u = t
        BY <2>4, <2>7, <4>1
      <4>2. CASE u # t
        <5>1. dl'[u] = dl[u] /\ doFunc'[u] = doFunc[u] /\ dl[u].parent \in Transfers \cup {NoXfer}
          BY <2>6, <2>7, <4>2 DEF DownloadRecord
        <5>2. dl[u].parent # t
          BY <1>12 DEF Garbage
        <5>3. dl[u].parent # NoXfer => dl'[dl[u].parent] = dl[dl[u].parent]
          BY <2>7, <5>1, <5>2
        <5> QED BY <5>1, <5>3 DEF DInv, ErrorsOK, Done
      <4> QED BY <4>1, <4>2
    <3> QED BY <2>7, <3>1 DEF ErrorsOK, Done
  <2>9. LayersOK'
    BY <2>5, <2>7 DEF DInv, LayersOK, Good, Done
  <2>10. \A u \in Transfers : watchers[u] # {} => keyOf'[u] = keyOf[u] /\ (Good(u) => Good(u)')
    BY <2>5, <2>7 DEF Good, Done
  <2> QED BY <1>10, <2>5, <2>7, <2>8, <2>9, <2>10
<1> QED BY <1>1, <1>2, <1>11, <1>12 DEF PullTransfer

\* A pull releases a watcher, or finds its transfer cancelled: it does not
\* watch anything new, and other pulls keep what they watch.
LEMMA CallerLeaves ==
    ASSUME IInv, DInv, NEW p \in Pulls, NEW i \in Positions,
           NEW r, r.pc # "watching", caller' = [caller EXCEPT ![<<p, i>>] = r],
           UNCHANGED <<keyOf, doFunc, dl, setup>>, released \subseteq released'
    PROVE  /\ WatchedKeysOK' /\ ErrorsOK' /\ LayersOK' /\ \A t \in Transfers : Good(t) => Good(t)'
           /\ \A q \in Pulls \ {p}, j \in Positions : caller'[<<q, j>>] = caller[<<q, j>>]
           /\ i # setup.len[p] => caller'[Top(p)] = caller[Top(p)]
<1>1. caller \in [Callers -> [pc : CallerPhases, xfer : Transfers \cup {NoXfer}]]
  BY DEF IInv, TypeOK
<1>2. /\ caller'[<<p, i>>] = r
      /\ \A q \in Pulls, j \in Positions : <<q, j>> # <<p, i>> => caller'[<<q, j>>] = caller[<<q, j>>]
  BY <1>1, DownloadAssumption
<1>3. WatchedKeysOK'
  <2>1. ASSUME NEW q \in Pulls, NEW j \in Positions, caller'[<<q, j>>].pc = "watching"
        PROVE  keyOf'[caller'[<<q, j>>].xfer] = j
    <3>1. caller'[<<q, j>>] = caller[<<q, j>>]
      BY <1>2, <2>1
    <3> QED BY <2>1, <3>1 DEF DInv, WatchedKeysOK
  <2> QED BY <2>1 DEF WatchedKeysOK
<1>4. setup.len[p] \in Positions
  BY PositionOf DEF DInv
<1> QED BY <1>2, <1>3, <1>4, DownloadsStay DEF Top

\* The other steps of a pull that call the transfer manager.
LEMMA RemotePullStepsKeep ==
    ASSUME IInv, DInv, NEW p \in Pulls,
           PullTransferWaits(p) \/ PullRelease(p) \/ PullEnd(p)
    PROVE  DInv'
<1>1. /\ pull \in [Pulls -> PullRecord] /\ topLayer \in [Pulls -> 0 .. Depth]
      /\ pull[p].pc \in {"look", "transfer"} => pull[p].next <= setup.len[p]
      /\ setup.len[p] \in Positions /\ setup.len[p] \in Nat /\ 0 \in 0 .. Depth
  <2>1. setup.len[p] \in Positions /\ setup.len[p] \in Nat
    BY PositionOf DEF DInv
  <2>2. 0 \in 0 .. Depth
    BY DownloadAssumption
  <2> QED BY <2>1, <2>2 DEF DInv, PullsOK
<1>2. setup' = setup /\ dl' = dl
  BY DEF PullTransferWaits, PullRelease, PullEnd, pullVars
<1>3. ASSUME UNCHANGED vars
      PROVE  /\ WatchedKeysOK' /\ ErrorsOK' /\ LayersOK' /\ \A t \in Transfers : Good(t) => Good(t)'
             /\ caller' = caller
  <2>1. UNCHANGED <<keyOf, doFunc, caller, released>>
    BY <1>3 DEF vars, tmVars, doVars, xferVars
  <2>2. WatchedKeysOK'
    BY <2>1 DEF DInv, WatchedKeysOK
  <2> QED BY <1>2, <2>1, <2>2, DownloadsStay
<1>4. ASSUME NEW i \in Positions, Release(<<p, i>>)
      PROVE  /\ WatchedKeysOK' /\ ErrorsOK' /\ LayersOK' /\ \A t \in Transfers : Good(t) => Good(t)'
             /\ \A q \in Pulls \ {p}, j \in Positions : caller'[<<q, j>>] = caller[<<q, j>>]
             /\ i # setup.len[p] => caller'[Top(p)] = caller[Top(p)]
  <2>1. PICK r : r = [pc |-> "idle", xfer |-> NoXfer]
    OBVIOUS
  <2>2. /\ caller' = [caller EXCEPT ![<<p, i>>] = r] /\ r.pc # "watching"
        /\ UNCHANGED <<keyOf, doFunc>> /\ released \subseteq released'
    BY <1>4, <2>1 DEF Release, doVars
  <2> QED BY <1>2, <2>2, CallerLeaves
<1>5. CASE PullTransferWaits(p)
  <2>1. PICK i : i = pull[p].next
    OBVIOUS
  <2>2. pull[p].pc = "transfer" /\ i \in Positions /\ pull' = pull /\ topLayer' = topLayer
    BY <1>5, <2>1, PositionOf DEF PullTransferWaits, pullVars, DInv
  <2>3. PICK r : r = [pc |-> "retry", xfer |-> transfers[i]]
    OBVIOUS
  <2>4. /\ caller' = [caller EXCEPT ![<<p, i>>] = r] /\ r.pc # "watching"
        /\ UNCHANGED <<keyOf, doFunc, released>>
    BY <1>5, <2>1, <2>3 DEF PullTransferWaits, TransferWaitCancelled, doVars, xferVars
  <2>5. /\ WatchedKeysOK' /\ ErrorsOK' /\ LayersOK' /\ \A t \in Transfers : Good(t) => Good(t)'
        /\ \A q \in Pulls \ {p}, j \in Positions : caller'[<<q, j>>] = caller[<<q, j>>]
    BY <1>2, <2>2, <2>4, CallerLeaves
  <2> QED BY <1>1, <1>2, <2>2, <2>5, PullMoves
<1>6. CASE PullRelease(p)
  <2>1. pull[p].pc = "return" /\ pull' = pull
    BY <1>6 DEF PullRelease
  <2>2. CASE topLayer' = [topLayer EXCEPT ![p] = 0] /\ UNCHANGED vars
    <3>1. topLayer' \in [Pulls -> 0 .. Depth] /\ \A q \in Pulls \ {p} : topLayer'[q] = topLayer[q]
      BY <1>1, <2>2
    <3>2. HasResult(p) => HasResult(p)'
      BY <1>2, <1>3, <2>2, ResultKept
    <3>3. pull'[p].outcome = "ok" => HasResult(p)'
      BY <2>1, <3>2 DEF DInv, ResultsOK
    <3> QED BY <1>1, <1>2, <1>3, <2>1, <2>2, <3>1, <3>3, PullMoves
  <2>3. CASE topLayer' = topLayer /\ \E j \in ToRelease(p) : Release(<<p, j>>)
    <3>1. PICK j \in ToRelease(p) : Release(<<p, j>>)
      BY <2>3
    <3>2. j \in 1 .. setup.len[p] /\ (j = setup.len[p] => pull[p].outcome # "ok")
      BY DEF ToRelease, KeepsTop
    <3>3. j \in Positions
      BY <1>1, <3>2, DownloadAssumption DEF Positions
    <3>4. pull'[p].outcome = "ok" => HasResult(p)'
      <4>1. SUFFICES ASSUME pull[p].outcome = "ok" PROVE HasResult(p)'
        BY <2>1
      <4>2. HasResult(p) /\ caller'[Top(p)] = caller[Top(p)]
        BY <1>4, <2>1, <3>1, <3>2, <3>3, <4>1 DEF DInv, ResultsOK
      <4> QED BY <1>2, <1>4, <3>1, <3>3, <4>2, ResultKept
    <3> QED BY <1>1, <1>2, <1>4, <2>1, <2>3, <3>1, <3>3, <3>4, PullMoves
  <2> QED BY <1>6, <2>2, <2>3 DEF PullRelease
<1>7. CASE PullEnd(p)
  <2>1. PICK r : r = [pull[p] EXCEPT !.pc = "ended"]
    OBVIOUS
  <2>2. r \in PullRecord /\ r.pc = "ended"
    BY <1>1, <2>1 DEF PullRecord
  <2>3. pull' = [pull EXCEPT ![p] = r] /\ topLayer' = [topLayer EXCEPT ![p] = 0]
    BY <1>7, <2>1 DEF PullEnd
  <2>4. /\ pull' \in [Pulls -> PullRecord] /\ pull'[p] = r
        /\ \A q \in Pulls \ {p} : pull'[q] = pull[q]
    BY <2>2, <2>3, PullRecordMoves DEF DInv
  <2>5. topLayer' \in [Pulls -> 0 .. Depth] /\ \A q \in Pulls \ {p} : topLayer'[q] = topLayer[q]
    BY <1>1, <2>3
  <2>6. UNCHANGED vars \/ Release(<<p, setup.len[p]>>)
    BY <1>7 DEF PullEnd
  <2>7. /\ WatchedKeysOK' /\ ErrorsOK' /\ LayersOK' /\ \A t \in Transfers : Good(t) => Good(t)'
        /\ \A q \in Pulls \ {p}, j \in Positions : caller'[<<q, j>>] = caller[<<q, j>>]
    BY <1>1, <1>3, <1>4, <2>6
  <2> QED BY <1>2, <2>2, <2>4, <2>5, <2>7, PullMoves
<1> QED BY <1>5, <1>6, <1>7

\* The steps of the transfer manager itself.
LEMMA ManagerStepsKeep ==
    ASSUME IInv, DInv, UNCHANGED <<pull, setup, topLayer, dl>>,
           \/ \E t \in Transfers : Manage(t)
           \/ \E n \in Limits : DownloadSetConcurrency(n)
           \/ UNCHANGED vars
    PROVE  DInv'
<1>1. UNCHANGED <<keyOf, doFunc, caller>> /\ released \subseteq released'
  BY DEF Manage, MgrInactive, MgrDone, MgrClose, DownloadSetConcurrency, SetConcurrency, vars, tmVars,
     doVars, xferVars
<1>2. ErrorsOK' /\ LayersOK' /\ \A t \in Transfers : Good(t) => Good(t)'
  BY <1>1, DownloadsStay
<1>3. PullsOK' /\ WatchedKeysOK'
  BY <1>1 DEF DInv, PullsOK, WatchedKeysOK
<1>4. ASSUME NEW p \in Pulls, HasResult(p) PROVE HasResult(p)'
  BY <1>1, <1>2, <1>4, ResultKept
<1>5. \A p \in Pulls : Top(p)' = Top(p)
  BY DEF Top
<1>6. ResultsOK'
  BY <1>1, <1>4, <1>5 DEF DInv, ResultsOK
<1> QED BY <1>2, <1>3, <1>6 DEF DInv

\* Every step keeps the invariant.
LEMMA DownloadNextKeeps ==
    ASSUME IInv, DInv, [DownloadNext]_downloadVars
    PROVE  DInv'
<1>1. ASSUME NEW p \in Pulls, PullSteps(p) \/ PullWait(p) \/ PullEnd(p)
      PROVE  DInv'
  BY <1>1, LocalPullStepsKeep, PullTransferKeeps, RemotePullStepsKeep DEF PullSteps
<1>2. ASSUME NEW t \in Transfers, DownloadSteps(t) \/ DownloadDrop(t)
      PROVE  DInv'
  BY <1>2, DownloadStepsKeep
<1>3. ASSUME \/ \E t \in Transfers : Manage(t)
             \/ \E n \in Limits : DownloadSetConcurrency(n)
             \/ UNCHANGED downloadVars
      PROVE  DInv'
  <2>1. UNCHANGED <<pull, setup, topLayer, dl>>
    BY <1>3 DEF Manage, DownloadSetConcurrency, pullVars, downloadVars
  <2>2. UNCHANGED downloadVars => UNCHANGED vars
    BY DEF downloadVars
  <2> QED BY <1>3, <2>1, <2>2, ManagerStepsKeep
<1> QED BY <1>1, <1>2, <1>3 DEF DownloadNext

\* Initially no pull has asked for anything.
LEMMA InitDInv ==
    ASSUME DownloadInit
    PROVE  DInv
<1> USE DEF DownloadInit
<1>1. PullsOK
  <2>1. setup \in Setup /\ setup.len \in [Pulls -> 1 .. Depth]
    BY SetupsOK DEF Setup, Positions
  <2>2. \A p \in Pulls : setup.len[p] \in 1 .. Depth /\ 1 <= setup.len[p]
    BY <2>1, DownloadAssumption
  <2>3. 0 \in 0 .. Depth /\ 1 \in 1 .. Depth + 1 /\ "none" \in Outcomes
    BY DownloadAssumption DEF Outcomes
  <2> QED BY <2>1, <2>2, <2>3 DEF PullsOK, PullRecord
<1>2. WatchedKeysOK
  BY DownloadAssumption DEF WatchedKeysOK, Init
<1>3. ErrorsOK
  <2>1. 0 \in 0 .. Depth /\ 0 \in 0 .. MaxAttempts - 1
    BY DownloadAssumption
  <2> QED BY <2>1 DEF ErrorsOK, NoDownload, DownloadRecord, Steps, Errors
<1>4. LayersOK
  BY DEF LayersOK, Good, Done, Init
<1>5. ResultsOK
  BY DEF ResultsOK
<1> QED BY <1>1, <1>2, <1>3, <1>4, <1>5 DEF DInv

\* A step of the download manager, seen from the transfer manager.
LEMMA DownloadStep ==
    ASSUME PullsOK, [DownloadNext]_downloadVars
    PROVE  [Next]_vars
BY DownloadUsesTransfers DEF downloadVars

\* The transfer manager's invariant and that of the downloads hold together:
\* for any number of pulls of any prefixes of a stack of any depth, with
\* fetches and registrations failing and pulls cancelled at any point.
THEOREM DownloadInvariant == DownloadSpec => [](IInv /\ DInv)
<1>1. DownloadInit => IInv /\ DInv
  BY InitDInv, InitIInv DEF DownloadInit
<1>2. IInv /\ DInv /\ [DownloadNext]_downloadVars => IInv' /\ DInv'
  BY DownloadStep, DownloadNextKeeps, NextIInv DEF DInv
<1> QED BY <1>1, <1>2, PTL DEF DownloadSpec

\* While the caller of Download holds a result that was reported as a success,
\* every layer of it exists: neither the deferred releases of this pull nor
\* those of the pulls it shares downloads with drop them.
THEOREM PullsHaveTheirLayers == DownloadSpec => []ResultExists
<1>1. IInv /\ DInv => ResultExists
  <2> SUFFICES ASSUME IInv, DInv, NEW p \in Pulls, pull[p].pc = "holding"
               PROVE  Exists(setup.len[p])
    BY DEF ResultExists
  <2>1. setup.len[p] \in Positions /\ setup.len[p] \in setup.len[p] .. Depth
    <3>1. setup.len[p] \in Positions
      BY PositionOf DEF DInv
    <3> QED BY <3>1, DownloadAssumption DEF Positions
  <2>2. CASE topLayer[p] = setup.len[p]
    BY <2>1, <2>2 DEF Exists, Held
  <2>3. CASE HasResult(p)
    <3>1. PICK c \in Callers : c = Top(p)
      BY PositionOf DEF DInv
    <3>2. PICK x : x = caller[c].xfer
      OBVIOUS
    <3>3. caller[c].pc = "watching" /\ Good(x)
      BY <2>3, <3>1, <3>2 DEF HasResult
    <3>4. x \in Transfers /\ x \notin released
      BY <3>2, <3>3 DEF IInv, Structure, WatchersConsistent, ReleasedUnwatched
    <3>5. keyOf[x] = setup.len[p]
      BY <2>1, <3>1, <3>2, <3>3 DEF DInv, WatchedKeysOK, Top
    <3>6. dl[x].layer = setup.len[p]
      BY <3>3, <3>4, <3>5 DEF DInv, LayersOK
    <3> QED BY <2>1, <3>4, <3>6 DEF Exists, Held
  <2> QED BY <2>2, <2>3 DEF DInv, ResultsOK
<1> QED BY <1>1, DownloadInvariant, PTL

\* The values of the pulls and downloads; a download is tried less often than
\* maxDownloadAttempts before it is given up.
THEOREM DownloadsTypeCorrect == DownloadSpec => []DownloadTypeOK
<1>1. IInv /\ DInv => DownloadTypeOK
  <2> SUFFICES ASSUME IInv, DInv PROVE DownloadTypeOK
    OBVIOUS
  <2>1. TypeOK
    BY DEF IInv
  <2>2. 0 .. MaxAttempts - 1 \subseteq 0 .. MaxAttempts
    BY DownloadAssumption
  <2>3. dl \in [Transfers -> [step : Steps, parent : Transfers \cup {NoXfer},
                              source : Transfers \cup {NoXfer}, err : Errors,
                              layer : 0 .. Depth, retries : 0 .. MaxAttempts]]
    BY <2>2 DEF DInv, ErrorsOK, DownloadRecord
  <2> QED BY <2>1, <2>3 DEF DownloadTypeOK, DInv, PullsOK, PullRecord
<1> QED BY <1>1, DownloadInvariant, PTL
=============================================================================
