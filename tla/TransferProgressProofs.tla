----------------------- MODULE TransferProgressProofs -----------------------
(***************************************************************************)
(* Proofs about the progress of a transfer, for any set of watchers and    *)
(* any number of items.  The heart of the invariant is Enough: a goroutine *)
(* that is done holds, in the variable it is about to use, an item with    *)
(* which it may end.  It gets there because Broadcast answers a ping, or   *)
(* closes t.running, only when lastProgress is the last item it received.  *)
(***************************************************************************)
EXTENDS TransferProgress, TLAPS

\* What a step of the goroutine of one watcher, or of its client, must keep.
WatcherOK(w) == FreshOK(w) /\ DoneOK(w)

\* Every step keeps the types.
LEMMA TypeStep == Inv /\ [Next]_vars => TypeOK'
<1> SUFFICES ASSUME Inv, [Next]_vars PROVE TypeOK'
  OBVIOUS
<1> USE DEF Inv, TypeOK, BroadcastPhases, CallerPhases, WatcherPhases,
        chanVars, transferVars, localVars
<1>1. CASE SendProgress \/ CloseProgress
  BY <1>1 DEF SendProgress, CloseProgress
<1>2. CASE Receive
  <2>0. UNCHANGED <<chanClosed, lastProgress, broadcastDone, watchers, caller, watcher,
                    done, got, lastWritten, sentBefore>>
    BY <1>2, Zenon DEF Receive
  <2>1. CASE sending' = FALSE /\ sent' = sent + 1 /\ broadcast' = "apply"
    <3>1. sending' \in BOOLEAN
      BY <2>1, Zenon
    <3>2. sent' \in Nat /\ broadcast' \in BroadcastPhases
      BY <2>1
    <3> QED BY <2>0, <3>1, <3>2
  <2>2. CASE broadcast' = "finish" /\ UNCHANGED <<sending, sent>>
    BY <2>0, <2>2
  <2> QED BY <1>2, <2>1, <2>2, Zenon DEF Receive
<1>3. CASE Poll \/ Finish \/ CloseRunning
  BY <1>3 DEF Poll, Finish, CloseRunning
<1>4. CASE Apply
  BY <1>4 DEF Apply
<1>5. ASSUME NEW w \in Watchers, Watch(w) PROVE TypeOK'
  BY <1>5 DEF Watch
<1>6. ASSUME NEW w \in Watchers, ReadLast(w) \/ WriteProgress(w) PROVE TypeOK'
  BY <1>6 DEF ReadLast, WriteProgress, AfterWrite
<1>7. ASSUME NEW w \in Watchers, Park(w) \/ SelectDone(w) \/ Sync(w) \/ Exit(w) PROVE TypeOK'
  BY <1>7 DEF Park, SelectDone, Sync, Exit
<1>8. ASSUME NEW w \in Watchers, ReleaseDelete(w) \/ ReleaseClose(w) \/ ReleaseReturn(w)
      PROVE  TypeOK'
  BY <1>8 DEF ReleaseDelete, ReleaseClose, ReleaseReturn
<1>9. CASE UNCHANGED vars
  BY <1>9 DEF vars
<1> QED BY <1>1, <1>2, <1>3, <1>4, <1>5, <1>6, <1>7, <1>8, <1>9
        DEF Next, BroadcastNext, WatcherNext

\* Every step keeps what is said of Broadcast.
LEMMA BroadcastStep == Inv /\ [Next]_vars => BroadcastOK'
<1> SUFFICES ASSUME Inv, [Next]_vars PROVE BroadcastOK'
  OBVIOUS
<1> USE DEF Inv, TypeOK, BroadcastOK, BroadcastPhases, chanVars, transferVars
<1>1. CASE SendProgress \/ CloseProgress
  BY <1>1 DEF SendProgress, CloseProgress
<1>2. CASE Receive
  BY <1>2 DEF Receive
<1>3. CASE Poll \/ Apply \/ Finish \/ CloseRunning
  BY <1>3 DEF Poll, Apply, Finish, CloseRunning
<1>4. ASSUME NEW w \in Watchers, Watch(w) PROVE BroadcastOK'
  BY <1>4 DEF Watch
<1>5. ASSUME NEW w \in Watchers, WatcherNext(w) PROVE BroadcastOK'
  BY <1>5 DEF WatcherNext, ReadLast, WriteProgress, Park, SelectDone, Sync, Exit
<1>6. ASSUME NEW w \in Watchers, ReleaseDelete(w) \/ ReleaseClose(w) \/ ReleaseReturn(w)
      PROVE  BroadcastOK'
  BY <1>6 DEF ReleaseDelete, ReleaseClose, ReleaseReturn
<1>7. CASE UNCHANGED vars
  BY <1>7 DEF vars
<1> QED BY <1>1, <1>2, <1>3, <1>4, <1>5, <1>6, <1>7 DEF Next, BroadcastNext

\* Steps that touch neither lastProgress nor the watcher w keep what is said of
\* it, if Broadcast only moves on.
LEMMA Untouched ==
    ASSUME Inv, NEW w \in Watchers,
           lastProgress' = lastProgress, sent' \in Nat, sent' >= sent,
           RunningClosed => RunningClosed' /\ sent' = sent,
           watcher'[w] = watcher[w], caller'[w] = caller[w], done'[w] = done[w],
           got'[w] = got[w], lastWritten'[w] = lastWritten[w],
           sentBefore'[w] = sentBefore[w]
    PROVE  WatcherOK(w)'
BY DEF Inv, TypeOK, WatcherOK, FreshOK, DoneOK, Enough

\* Every step keeps what is said of a watcher.
LEMMA WatcherStep ==
    ASSUME Inv, [Next]_vars, NEW w \in Watchers PROVE WatcherOK(w)'
<1> USE DEF TypeOK, chanVars, transferVars, localVars
<1>0. TypeOK /\ BroadcastOK /\ WatcherOK(w)
  BY DEF Inv, WatcherOK
<1>1. CASE SendProgress \/ CloseProgress
  BY <1>0, <1>1, Untouched DEF SendProgress, CloseProgress, RunningClosed
<1>2. CASE Receive
  BY <1>0, <1>2, Untouched DEF Receive, RunningClosed
<1>3. CASE Poll \/ Finish \/ CloseRunning
  BY <1>0, <1>3, Untouched DEF Poll, Finish, CloseRunning, RunningClosed
<1>4. CASE Apply
  <2>1. lastProgress' = lastProgress + 1 /\ sent' = sent /\ ~RunningClosed
    BY <1>0, <1>4 DEF Apply, BroadcastOK, RunningClosed
  <2>2. watcher'[w] = watcher[w] \/ (watcher[w] = "select" /\ watcher'[w] = "read")
    BY <1>0, <1>4 DEF Apply
  <2>3. UNCHANGED <<caller, done, got, lastWritten, sentBefore>>
    BY <1>4 DEF Apply
  <2> QED BY <1>0, <2>1, <2>2, <2>3 DEF WatcherOK, FreshOK, DoneOK, Enough
<1>5. ASSUME NEW x \in Watchers, Watch(x) PROVE WatcherOK(w)'
  <2>1. CASE x # w
    BY <1>0, <1>5, <2>1, Untouched DEF Watch, RunningClosed
  <2>2. CASE x = w
    <3>1. /\ watcher'[w] \in {"read", "ended"} /\ caller'[w] = "watching"
          /\ caller[w] = "none" /\ watcher[w] = "none"
          /\ UNCHANGED <<sent, lastProgress, done, got, lastWritten, sentBefore>>
      BY <1>0, <1>5, <2>2 DEF Watch, WatcherOK, DoneOK
    <3>2. ~done[w]
      BY <1>0, <3>1 DEF WatcherOK, DoneOK
    <3>3. lastWritten[w] = 0
      BY <1>0, <3>1 DEF WatcherOK, FreshOK
    <3> QED BY <1>0, <3>1, <3>2, <3>3 DEF WatcherOK, FreshOK, DoneOK, Enough
  <2> QED BY <2>1, <2>2
<1>6. ASSUME NEW x \in Watchers, WatcherNext(x) PROVE WatcherOK(w)'
  <2>1. CASE x # w
    BY <1>0, <1>6, <2>1, Untouched
       DEF WatcherNext, ReadLast, WriteProgress, Park, SelectDone, Sync, Exit, RunningClosed
  <2>2. CASE x = w
    <3> USE <1>0, <2>2 DEF WatcherOK, FreshOK, DoneOK, Enough, RunningClosed
    <3>1. CASE ReadLast(w)
      BY <3>1 DEF ReadLast, MustWrite, AfterWrite
    <3>2. CASE WriteProgress(w)
      BY <3>2 DEF WriteProgress, AfterWrite
    <3>3. CASE SelectDone(w)
      BY <3>3 DEF SelectDone, BroadcastOK
    <3>4. CASE Sync(w)
      BY <3>4 DEF Sync, CaughtUp, BroadcastOK
    <3>5. CASE Exit(w)
      BY <3>5 DEF Exit
    <3>6. CASE Park(w)
      BY <3>6 DEF Park
    <3> QED BY <1>6, <3>1, <3>2, <3>3, <3>4, <3>5, <3>6 DEF WatcherNext
  <2> QED BY <2>1, <2>2
<1>7. ASSUME NEW x \in Watchers, ReleaseDelete(x) \/ ReleaseClose(x) \/ ReleaseReturn(x)
      PROVE  WatcherOK(w)'
  <2>1. CASE x # w
    BY <1>0, <1>7, <2>1, Untouched DEF ReleaseDelete, ReleaseClose, ReleaseReturn, RunningClosed
  <2>2. CASE x = w
    <3> USE <1>0, <2>2 DEF WatcherOK, FreshOK, DoneOK, Enough, RunningClosed
    <3>1. CASE ReleaseDelete(w)
      BY <3>1 DEF ReleaseDelete
    <3>2. CASE ReleaseClose(w)
      BY <3>2 DEF ReleaseClose
    <3>3. CASE ReleaseReturn(w)
      BY <3>3 DEF ReleaseReturn
    <3> QED BY <1>7, <3>1, <3>2, <3>3
  <2> QED BY <2>1, <2>2
<1>8. CASE UNCHANGED vars
  BY <1>0, <1>8, Untouched DEF vars, RunningClosed
<1> QED BY <1>1, <1>2, <1>3, <1>4, <1>5, <1>6, <1>7, <1>8 DEF Next, BroadcastNext

\* The invariant holds in every reachable state.
THEOREM ProgressInvariant == Spec => []Inv
<1>1. Init => Inv
  <2> SUFFICES ASSUME Init PROVE Inv
    OBVIOUS
  <2>1. TypeOK
    BY DEF Init, TypeOK, BroadcastPhases, CallerPhases, WatcherPhases
  <2>2. BroadcastOK
    BY DEF Init, BroadcastOK
  <2>3. ASSUME NEW w \in Watchers PROVE FreshOK(w) /\ DoneOK(w)
    BY DEF Init, FreshOK, DoneOK
  <2> QED BY <2>1, <2>2, <2>3 DEF Inv
<1>2. Inv /\ [Next]_vars => Inv'
  BY TypeStep, BroadcastStep, WatcherStep DEF Inv, WatcherOK
<1> QED BY <1>1, <1>2, PTL DEF Spec

\* A client that is let go was shown everything it is owed: stated of the state
\* just before its goroutine closes w.running.
LEMMA ExitOwesNothing ==
    ASSUME Inv, NEW w \in Watchers, watcher[w] = "exit"
    PROVE  \/ caller[w] \notin {"none", "watching"} /\ lastWritten[w] >= sentBefore[w]
           \/ caller[w] = "watching" /\ chanClosed /\ lastWritten[w] = sent
BY DEF Inv, TypeOK, BroadcastOK, DoneOK, Enough, RunningClosed, CallerPhases

\* Every step is a step of ProgressFeed, or leaves what ProgressFeed sees alone.
LEMMA StepRefines ==
    ASSUME Inv, [Next]_vars
    PROVE  [PF!Next]_<<sent, chanClosed, client, lastWritten, sentBefore>>
<1> USE DEF Inv, TypeOK, chanVars, transferVars, localVars
<1> DEFINE seen == <<sent, chanClosed, client, lastWritten, sentBefore>>
<1>1. CASE SendProgress \/ Poll \/ Finish \/ CloseRunning \/ UNCHANGED vars
  BY <1>1 DEF SendProgress, Poll, Finish, CloseRunning, vars, client
<1>2. CASE CloseProgress
  BY <1>2 DEF CloseProgress, client, PF!Next, PF!Finish
<1>3. CASE Receive
  <2>0. UNCHANGED <<chanClosed, client, lastWritten, sentBefore>>
    BY <1>3 DEF Receive, client
  <2>1. CASE sending /\ sent' = sent + 1
    <3>1. ~chanClosed
      BY <2>1 DEF BroadcastOK
    <3>2. PF!Publish
      BY <2>0, <2>1, <3>1 DEF PF!Publish
    <3> QED BY <3>2 DEF PF!Next
  <2>2. CASE UNCHANGED sent
    BY <2>0, <2>2
  <2> QED BY <1>3, <2>1, <2>2 DEF Receive
<1>4. CASE Apply
  <2>1. client' = client
    BY <1>4 DEF Apply, client
  <2> QED BY <1>4, <2>1 DEF Apply
<1>5. ASSUME NEW w \in Watchers, Watch(w) PROVE PF!Next
  <2>1. client[w] = "off"
    BY <1>5 DEF Watch, client
  <2>2. client' = [client EXCEPT ![w] = IF TransferOver THEN "gone" ELSE "on"]
    BY <1>5 DEF Watch, client, CallerPhases, WatcherPhases
  <2>3. TransferOver => chanClosed
    BY DEF TransferOver, BroadcastOK
  <2>4. PF!Attach(w)
    BY <1>5, <2>1, <2>2, <2>3 DEF Watch, PF!Attach
  <2> QED BY <2>4 DEF PF!Next
<1>6. ASSUME NEW w \in Watchers, ReadLast(w) \/ Park(w) \/ SelectDone(w) \/ Sync(w)
      PROVE  UNCHANGED seen
  <2>1. client' = client
    BY <1>6 DEF ReadLast, Park, SelectDone, Sync, AfterWrite, client
  <2> QED BY <1>6, <2>1 DEF ReadLast, Park, SelectDone, Sync
<1>7. ASSUME NEW w \in Watchers, WriteProgress(w) PROVE PF!Next
  <2>1. client' = client
    BY <1>7 DEF WriteProgress, AfterWrite, client
  <2>2. client[w] \in {"on", "leaving"}
    BY <1>7 DEF WriteProgress, client, DoneOK
  <2>3. got[w] \in (lastWritten[w] + 1) .. sent
    BY <1>7 DEF WriteProgress, FreshOK, BroadcastOK
  <2>4. PF!Show(w)
    BY <1>7, <2>1, <2>2, <2>3 DEF WriteProgress, PF!Show
  <2> QED BY <2>4 DEF PF!Next
<1>8. ASSUME NEW w \in Watchers, Exit(w) PROVE PF!Next
  <2>1. caller[w] # "none"
    BY <1>8 DEF Exit, DoneOK
  <2>2. client' = [client EXCEPT ![w] = "gone"]
    BY <1>8, <2>1 DEF Exit, client
  <2>3. \/ client[w] = "leaving" /\ lastWritten[w] >= sentBefore[w]
        \/ client[w] = "on" /\ chanClosed /\ lastWritten[w] = sent
    BY <1>8, ExitOwesNothing DEF Exit, client
  <2>4. PF!Detach(w)
    BY <1>8, <2>2, <2>3 DEF Exit, PF!Detach
  <2> QED BY <2>4 DEF PF!Next
<1>9. ASSUME NEW w \in Watchers, ReleaseDelete(w) PROVE [PF!Next]_seen
  <2>1. CASE watcher[w] = "ended"
    <3>1. client' = client
      BY <1>9, <2>1 DEF ReleaseDelete, client
    <3> QED BY <1>9, <2>1, <3>1 DEF ReleaseDelete
  <2>2. CASE watcher[w] # "ended"
    <3>1. client[w] = "on"
      BY <1>9, <2>2 DEF ReleaseDelete, client
    <3>2. client' = [client EXCEPT ![w] = "leaving"]
      BY <1>9, <2>2 DEF ReleaseDelete, client
    <3>3. PF!Leave(w)
      BY <1>9, <2>2, <3>1, <3>2 DEF ReleaseDelete, PF!Leave
    <3> QED BY <3>3 DEF PF!Next
  <2> QED BY <2>1, <2>2
<1>10. ASSUME NEW w \in Watchers, ReleaseClose(w) \/ ReleaseReturn(w) PROVE UNCHANGED seen
  <2>1. client' = client
    BY <1>10 DEF ReleaseClose, ReleaseReturn, client
  <2> QED BY <1>10, <2>1 DEF ReleaseClose, ReleaseReturn
<1> QED BY <1>1, <1>2, <1>3, <1>4, <1>5, <1>6, <1>7, <1>8, <1>9, <1>10
        DEF Next, BroadcastNext, WatcherNext

\* Transfers implement the promise made to their watchers, whatever signals are
\* lost, for every number of watchers and items.
THEOREM ProgressIsFeed == Spec => IsProgressFeed
<1>1. Init => PF!Init
  BY DEF Init, PF!Init, client
<1>2. Inv /\ [Next]_vars => [PF!Next]_<<sent, chanClosed, client, lastWritten, sentBefore>>
  BY StepRefines
<1> QED BY <1>1, <1>2, ProgressInvariant, PTL DEF Spec, IsProgressFeed, PF!Spec, PF!vars
=============================================================================
