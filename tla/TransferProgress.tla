-------------------------- MODULE TransferProgress --------------------------
(***************************************************************************)
(* The progress of one transfer, distribution/xfer/transfer.go: the        *)
(* transfer function writes items to masterProgressChan, the goroutine of  *)
(* Broadcast keeps the last one and signals the watchers, and a goroutine  *)
(* per watcher copies it to the output of a client.                        *)
(*                                                                         *)
(* No channel has a buffer.  A signal is sent without blocking and is lost *)
(* when the goroutine of the watcher is not in its select; what saves the  *)
(* item is that this goroutine reads lastProgress again, after the ping of *)
(* broadcastSyncChan when it is released and after t.running is closed.    *)
(*                                                                         *)
(* Critical sections of t.mu are one step.  Items are numbered in the      *)
(* order in which they are sent.                                           *)
(***************************************************************************)
EXTENDS Naturals

CONSTANTS
    Watchers,      \* the watchers that Watch creates
    MaxProgress    \* bound on the items that the transfer sends

ASSUME MaxProgressNat == MaxProgress \in Nat

VARIABLES
    sending,       \* the transfer function is blocked in its send
    sent,          \* the items that Broadcast has received
    chanClosed,    \* masterProgressChan is closed
    broadcast,     \* control point of Broadcast
    lastProgress,  \* t.lastProgress, 0 when hasLastProgress is false
    broadcastDone, \* t.broadcastDone
    watchers,      \* t.watchers
    caller,        \* per watcher: its client, from Watch to the end of Release
    watcher,       \* per watcher: control point of its goroutine
    done,          \* per watcher: its local done
    got,           \* per watcher: its local lastProgress
    lastWritten,   \* per watcher: its local lastWritten, 0 for none
    sentBefore     \* history: the items sent when Release was called on a watcher
                   \* whose goroutine still runs

chanVars == <<sending, sent, chanClosed>>
transferVars == <<lastProgress, broadcastDone, watchers>>
localVars == <<done, got, lastWritten>>
vars == <<chanVars, broadcast, transferVars, caller, watcher, localVars, sentBefore>>

BroadcastPhases == {"off", "poll", "select", "apply", "finish", "close", "ended"}
CallerPhases == {"none", "watching", "deleted", "waiting", "returned"}
WatcherPhases == {"none", "read", "write", "park", "select", "sync", "exit", "ended"}

TypeOK ==
    /\ sending \in BOOLEAN /\ sent \in Nat /\ chanClosed \in BOOLEAN
    /\ broadcast \in BroadcastPhases
    /\ lastProgress \in Nat /\ broadcastDone \in BOOLEAN
    /\ watchers \in SUBSET Watchers
    /\ caller \in [Watchers -> CallerPhases]
    /\ watcher \in [Watchers -> WatcherPhases]
    /\ done \in [Watchers -> BOOLEAN]
    /\ got \in [Watchers -> Nat] /\ lastWritten \in [Watchers -> Nat]
    /\ sentBefore \in [Watchers -> Nat]

Init ==
    /\ sending = FALSE /\ sent = 0 /\ chanClosed = FALSE
    /\ broadcast = "off"
    /\ lastProgress = 0 /\ broadcastDone = FALSE
    /\ watchers = {}
    /\ caller = [w \in Watchers |-> "none"]
    /\ watcher = [w \in Watchers |-> "none"]
    /\ done = [w \in Watchers |-> FALSE]
    /\ got = [w \in Watchers |-> 0] /\ lastWritten = [w \in Watchers |-> 0]
    /\ sentBefore = [w \in Watchers |-> 0]

\* Mutant of RunningClosed: Broadcast returns without closing t.running.
RunningNeverClosed == FALSE

\* <-t.running is ready
RunningClosed == broadcast = "ended"

----------------------------------------------------------------------------
(* The transfer function                                                   *)

\* WriteProgress of a ChanOutput
SendProgress ==
    /\ ~sending /\ ~chanClosed /\ sent < MaxProgress
    /\ sending' = TRUE
    /\ UNCHANGED <<sent, chanClosed, broadcast, transferVars, caller, watcher,
                   localVars, sentBefore>>

\* close(progressChan)
CloseProgress ==
    /\ ~sending /\ ~chanClosed
    /\ chanClosed' = TRUE
    /\ UNCHANGED <<sending, sent, broadcast, transferVars, caller, watcher,
                   localVars, sentBefore>>

----------------------------------------------------------------------------
(* The goroutine of Broadcast                                              *)

\* An item, or the end, is received by either of the two selects.
Receive ==
    /\ broadcast \in {"poll", "select"}
    /\ \/ /\ sending
          /\ sending' = FALSE /\ sent' = sent + 1
          /\ broadcast' = "apply"
       \/ /\ chanClosed
          /\ broadcast' = "finish"
          /\ UNCHANGED <<sending, sent>>
    /\ UNCHANGED <<chanClosed, transferVars, caller, watcher, localVars, sentBefore>>

\* default: the channel is depleted
Depleted == ~sending /\ ~chanClosed

\* The first select falls through to the second.
Poll ==
    /\ broadcast = "poll" /\ Depleted
    /\ broadcast' = "select"
    /\ UNCHANGED <<chanVars, transferVars, caller, watcher, localVars, sentBefore>>

\* Broadcast, ok: the watchers that wait in their select get the signal.
Apply ==
    /\ broadcast = "apply"
    /\ lastProgress' = sent
    /\ watcher' = [w \in Watchers |->
                      IF w \in watchers /\ watcher[w] = "select" THEN "read" ELSE watcher[w]]
    /\ broadcast' = "poll"
    /\ UNCHANGED <<chanVars, broadcastDone, watchers, caller, localVars, sentBefore>>

\* Broadcast, !ok, under t.mu
Finish ==
    /\ broadcast = "finish"
    /\ broadcastDone' = TRUE
    /\ broadcast' = "close"
    /\ UNCHANGED <<chanVars, lastProgress, watchers, caller, watcher, localVars, sentBefore>>

\* close(t.running)
CloseRunning ==
    /\ broadcast = "close"
    /\ broadcast' = "ended"
    /\ UNCHANGED <<chanVars, transferVars, caller, watcher, localVars, sentBefore>>

----------------------------------------------------------------------------
(* Watch, its goroutine, and Release                                       *)

\* if t.broadcastDone, in Watch
TransferOver == broadcastDone

\* Watch; the first call of it is followed by go Broadcast.
Watch(w) ==
    /\ caller[w] = "none"
    /\ watchers' = watchers \cup {w}
    /\ caller' = [caller EXCEPT ![w] = "watching"]
    /\ watcher' = [watcher EXCEPT ![w] = IF TransferOver THEN "ended" ELSE "read"]
    /\ broadcast' = IF broadcast = "off" THEN "poll" ELSE broadcast
    /\ UNCHANGED <<chanVars, lastProgress, broadcastDone, localVars, sentBefore>>

\* hasLastProgress && (!done || !hasLastWritten || lastProgress != lastWritten)
MustWrite(w) ==
    /\ lastProgress # 0
    /\ ~done[w] \/ lastWritten[w] = 0 \/ lastProgress # lastWritten[w]

\* After the item: return if done, or go to the select.
AfterWrite(w) == IF done[w] THEN "exit" ELSE "park"

\* t.lastProgress is read under t.mu
ReadLast(w) ==
    /\ watcher[w] = "read"
    /\ got' = [got EXCEPT ![w] = lastProgress]
    /\ watcher' = [watcher EXCEPT ![w] = IF MustWrite(w) THEN "write" ELSE AfterWrite(w)]
    /\ UNCHANGED <<chanVars, broadcast, transferVars, caller, done, lastWritten, sentBefore>>

\* progressOutput.WriteProgress, which may take its time
WriteProgress(w) ==
    /\ watcher[w] = "write"
    /\ lastWritten' = [lastWritten EXCEPT ![w] = got[w]]
    /\ watcher' = [watcher EXCEPT ![w] = AfterWrite(w)]
    /\ UNCHANGED <<chanVars, broadcast, transferVars, caller, done, got, sentBefore>>

\* The goroutine gets to its select; until then a signal is lost.
Park(w) ==
    /\ watcher[w] = "park"
    /\ watcher' = [watcher EXCEPT ![w] = "select"]
    /\ UNCHANGED <<chanVars, broadcast, transferVars, caller, localVars, sentBefore>>

\* case <-w.releaseChan, or case <-t.running
SelectDone(w) ==
    /\ watcher[w] = "select"
    /\ done' = [done EXCEPT ![w] = TRUE]
    /\ \/ /\ caller[w] = "waiting"
          /\ watcher' = [watcher EXCEPT ![w] = "sync"]
       \/ /\ RunningClosed
          /\ watcher' = [watcher EXCEPT ![w] = "read"]
    /\ UNCHANGED <<chanVars, broadcast, transferVars, caller, got, lastWritten, sentBefore>>

\* Mutants of CaughtUp: the ping is not waited for; or only Broadcast answers.
CaughtUpAtOnce == TRUE
CaughtUpByPing == broadcast = "select"

\* The ping of broadcastSyncChan is taken, or Broadcast has returned.
CaughtUp == broadcast = "select" \/ RunningClosed

\* The second select of the goroutine
Sync(w) ==
    /\ watcher[w] = "sync" /\ CaughtUp
    /\ watcher' = [watcher EXCEPT ![w] = "read"]
    /\ broadcast' = IF broadcast = "select" THEN "poll" ELSE broadcast
    /\ UNCHANGED <<chanVars, transferVars, caller, localVars, sentBefore>>

\* The deferred close(w.running)
Exit(w) ==
    /\ watcher[w] = "exit"
    /\ watcher' = [watcher EXCEPT ![w] = "ended"]
    /\ UNCHANGED <<chanVars, broadcast, transferVars, caller, localVars, sentBefore>>

\* Release, under t.mu
ReleaseDelete(w) ==
    /\ caller[w] = "watching"
    /\ watchers' = watchers \ {w}
    /\ caller' = [caller EXCEPT ![w] = "deleted"]
    /\ sentBefore' = IF watcher[w] = "ended" THEN sentBefore
                     ELSE [sentBefore EXCEPT ![w] = sent]
    /\ UNCHANGED <<chanVars, broadcast, lastProgress, broadcastDone, watcher, localVars>>

\* close(watcher.releaseChan)
ReleaseClose(w) ==
    /\ caller[w] = "deleted"
    /\ caller' = [caller EXCEPT ![w] = "waiting"]
    /\ UNCHANGED <<chanVars, broadcast, transferVars, watcher, localVars, sentBefore>>

\* <-watcher.running
ReleaseReturn(w) ==
    /\ caller[w] = "waiting" /\ watcher[w] = "ended"
    /\ caller' = [caller EXCEPT ![w] = "returned"]
    /\ UNCHANGED <<chanVars, broadcast, transferVars, watcher, localVars, sentBefore>>

----------------------------------------------------------------------------
BroadcastNext == Receive \/ Poll \/ Apply \/ Finish \/ CloseRunning

WatcherNext(w) ==
    ReadLast(w) \/ WriteProgress(w) \/ Park(w) \/ SelectDone(w) \/ Sync(w) \/ Exit(w)

Next ==
    \/ SendProgress \/ CloseProgress
    \/ BroadcastNext
    \/ \E w \in Watchers :
          Watch(w) \/ WatcherNext(w) \/ ReleaseDelete(w) \/ ReleaseClose(w) \/ ReleaseReturn(w)

Spec == Init /\ [][Next]_vars

\* Go runs the goroutines that can run and outputs do not block for ever.  The
\* transfer function need not send or end, and clients need not leave.
Fairness ==
    /\ WF_vars(BroadcastNext)
    /\ \A w \in Watchers :
          WF_vars(WatcherNext(w)) /\ WF_vars(ReleaseClose(w)) /\ WF_vars(ReleaseReturn(w))

FairSpec == Spec /\ Fairness

----------------------------------------------------------------------------
(* Properties                                                              *)

client == [w \in Watchers |->
             IF caller[w] = "none" THEN "off"
             ELSE IF watcher[w] = "ended" THEN "gone"
             ELSE IF caller[w] = "watching" THEN "on" ELSE "leaving"]

PF == INSTANCE ProgressFeed
        WITH latest <- sent, over <- chanClosed, client <- client,
             shown <- lastWritten, owed <- sentBefore

\* Clients see items in order, see what was sent before they released the
\* transfer, and see the last item of a transfer that ends.
IsProgressFeed == PF!Spec

\* Release, which Transfer calls while it holds tm.mu, returns, also when the
\* transfer function is stuck.
ReleaseReturns ==
    \A w \in Watchers : caller[w] = "deleted" ~> caller[w] = "returned"

\* The goroutines of the watchers end with the transfer.
WatchersEnd ==
    \A w \in Watchers : (chanClosed /\ caller[w] # "none") ~> watcher[w] = "ended"

----------------------------------------------------------------------------
(* The inductive invariant                                                 *)

\* Broadcast is at most one item behind, and not at all when it answers pings.
BroadcastOK ==
    /\ sent = IF broadcast = "apply" THEN lastProgress + 1 ELSE lastProgress
    /\ broadcast \in {"finish", "close", "ended"} => chanClosed
    /\ broadcastDone <=> broadcast \in {"close", "ended"}
    /\ sending => ~chanClosed

\* A goroutine that is about to write has something newer than it wrote last.
FreshOK(w) ==
    /\ lastWritten[w] <= lastProgress
    /\ watcher[w] = "none" => lastWritten[w] = 0
    /\ watcher[w] = "read" /\ ~done[w] => lastWritten[w] = 0 \/ lastWritten[w] < lastProgress
    /\ watcher[w] = "write" => lastWritten[w] < got[w] /\ got[w] <= lastProgress

\* p is an item with which the goroutine of w may end.
Enough(w, p) ==
    \/ RunningClosed /\ p = sent
    \/ caller[w] = "waiting" /\ sentBefore[w] <= p

\* A goroutine that is done has, or will have, written enough.
DoneOK(w) ==
    /\ done[w] => watcher[w] \in {"read", "write", "sync", "exit", "ended"}
    /\ watcher[w] \in {"sync", "exit"} => done[w]
    /\ watcher[w] = "sync" => caller[w] = "waiting"
    /\ watcher[w] = "read" /\ done[w] => Enough(w, lastProgress)
    /\ watcher[w] = "write" /\ done[w] => Enough(w, got[w])
    /\ watcher[w] = "exit" => Enough(w, lastWritten[w])
    /\ caller[w] = "returned" => watcher[w] = "ended"
    /\ caller[w] = "none" <=> watcher[w] = "none"
    /\ sentBefore[w] <= sent

\* No item is written twice, and a client that is let go has been shown every
\* item that it is owed, although signals are lost whenever its goroutine is
\* not in its select.
Inv == TypeOK /\ BroadcastOK /\ \A w \in Watchers : FreshOK(w) /\ DoneOK(w)
=============================================================================
