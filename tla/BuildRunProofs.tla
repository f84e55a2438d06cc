--------------------------- MODULE BuildRunProofs ---------------------------
(***************************************************************************)
(* Proofs about BuildRun: what a RUN step keeps, whatever the exit codes   *)
(* are and whether or not the build may be cancelled, the start may fail   *)
(* and the process may close its output.                                   *)
(*                                                                         *)
(* None of the three properties is inductive.  That the container is kept  *)
(* while it is building needs that no exit event is under way in           *)
(* libcontainerd (Building), which needs that the flag is set from before  *)
(* the start (Flagged) and that nobody else can touch the container        *)
(* between the start and the return of Create (Starting).  That it has     *)
(* said its last word when it has stopped needs that only a handler that   *)
(* has seen the end of the output stops it (Stopping).                     *)
(***************************************************************************)
EXTENDS BuildRun, TLAPS

----------------------------------------------------------------------------
(* The inductive invariant                                                 *)

Container == [reg : BOOLEAN, Running : BOOLEAN, Removing : BOOLEAN, Dead : BOOLEAN,
              building : BOOLEAN, mounts : Int, ExitCode : Nat]

\* As TypeOK, without the bounds on mounts and queued calls; the call that runs
\* is at the head of the queue.
Typed ==
    /\ c \in Container
    /\ fns \in Seq(Nat) /\ (handler # "idle" => fns # <<>>)
    /\ code \in Nat

\* The flag is set from before the start until it is cleared.
Flagged ==
    /\ pc \in {"spawnRun", "start", "starting", "created", "runEnd", "runWait",
               "exec", "clear"}
    /\ c.reg
    => c.building

\* Nothing has happened to the container before its start.
NotStarted ==
    pc \in {"setFlag", "spawnRun", "start"} =>
        /\ ~c.Running /\ c.mounts = 0
        /\ event = "none" /\ fns = <<>> /\ handler = "idle" /\ proc = "none"

\* During the start the mutex keeps everybody else away from the container.
Starting ==
    pc \in {"starting", "created"} =>
        /\ mutex = "start"
        /\ c.reg /\ tracked /\ c.mounts = 1
        /\ fns = <<>> /\ handler = "idle"
        /\ event \in {"none", "sent", "dropped"}

\* From there until the flag is cleared no exit is under way, unless a
\* cancellation has taken the container out of the daemon.
Building ==
    pc \in {"runEnd", "runWait", "exec", "clear"} =>
        /\ handler = "idle"
        /\ c.reg => /\ c.Running /\ tracked /\ c.mounts = 1
                    /\ fns = <<>> /\ event \in {"none", "sent", "dropped"}

\* A container that was started stops only after the end of its output.
Stopping ==
    /\ handler = "reset" => output = "closed"
    /\ pc \in {"runEnd", "runWait", "exec", "clear", "trigger", "handle", "spawnStop",
               "block", "wait", "waiting", "stopEnd", "stopWait", "commit", "export",
               "done"}
       => (~c.Running => output = "closed")
    /\ stopRes = "stopped" =>
        /\ ~c.Running /\ output = "closed"
        /\ pc \in {"stopEnd", "stopWait", "commit", "export", "done", "failed"}

\* Where the goroutine that waits for the cancellation is.
Cancelling ==
    /\ c.Removing => canceller \in {"rmKill", "rmDead"}
    /\ pc \in {"setFlag", "spawnRun"} => canceller = "none"
    /\ pc \in {"exec", "clear", "trigger", "handle", "spawnStop"} => canceller = "ended"
    /\ pc \in {"commit", "export", "done"} => canceller \in {"ended", "cancelled"}

IInv ==
    /\ Typed /\ Flagged /\ NotStarted /\ Starting /\ Building /\ Stopping /\ Cancelling

----------------------------------------------------------------------------
(* Every step keeps it                                                     *)

\* The steps of the builder.
LEMMA BuilderStep ==
    ASSUME IInv, Builder
    PROVE  IInv'
<1> USE DEF IInv, Typed, Container, Flagged, NotStarted, Starting, Building, Stopping,
            Cancelling, Goto, Proceed, Unlocked, bVars, eVars, pVars
<1>1. CASE SetBuilding
  BY <1>1 DEF SetBuilding
<1>2. CASE SpawnRun
  BY <1>2 DEF SpawnRun
<1>3. CASE StartBegin
  BY <1>3 DEF StartBegin
<1>4. CASE CreateContainer
  BY <1>4 DEF CreateContainer
<1>5. CASE CreateFails
  <2>1. /\ c \in Container /\ c.mounts - 1 \in Int /\ c.Running \in BOOLEAN
        /\ StartFailure \in Nat
    BY DEF StartFailure
  <2>2. c' = [c EXCEPT !.Running = c.Running, !.ExitCode = StartFailure, !.mounts = c.mounts - 1]
    BY <1>5, <2>1 DEF CreateFails
  <2>3. /\ c' \in Container /\ c'.Running = c.Running /\ c'.mounts = c.mounts - 1
        /\ c'.reg = c.reg /\ c'.Removing = c.Removing /\ c'.building = c.building
    <3> HIDE DEF IInv
    <3> QED BY <2>1, <2>2
  <2> QED BY <1>5, <2>3 DEF CreateFails
<1>6. CASE StateStart
  BY <1>6 DEF StateStart
<1>7. CASE RunFinish
  BY <1>7 DEF RunFinish
<1>8. CASE RunReturn
  BY <1>8 DEF RunReturn
<1>9. CASE Exec
  BY <1>9 DEF Exec
<1>10. CASE ClearBuilding
  BY <1>10 DEF ClearBuilding, StopReturns
<1>11. CASE TriggerLookup
  BY <1>11 DEF TriggerLookup, StopReturns
<1>12. CASE TriggerHandle
  BY <1>12 DEF TriggerHandle, HandleExit
<1>13. CASE SpawnStop
  BY <1>13 DEF SpawnStop
<1>14. CASE Block
  BY <1>14 DEF Block, AfterAttach
<1>15. CASE WaitLookup
  BY <1>15 DEF WaitLookup
<1>16. CASE WaitStop
  BY <1>16 DEF WaitStop, Stopped
<1>17. CASE StopFinish
  BY <1>17 DEF StopFinish
<1>18. CASE StopReturn
  BY <1>18 DEF StopReturn, StopReturns, CancellerIsDone
<1>19. CASE CommitBegin /\ c.reg
  <2>1. /\ c \in Container /\ c.mounts + 1 \in Int /\ c.Running \in BOOLEAN
        /\ c.ExitCode \in Nat
    OBVIOUS
  <2>2. c' = [c EXCEPT !.Running = c.Running, !.ExitCode = c.ExitCode, !.mounts = c.mounts + 1]
    BY <1>19, <2>1 DEF CommitBegin
  <2>3. /\ c' \in Container /\ c'.Running = c.Running /\ c'.mounts = c.mounts + 1
        /\ c'.reg = c.reg /\ c'.Removing = c.Removing /\ c'.building = c.building
    <3> HIDE DEF IInv
    <3> QED BY <2>1, <2>2
  <2> QED BY <1>19, <2>3 DEF CommitBegin
<1>20. CASE CommitEnd
  <2>1. /\ c \in Container /\ c.mounts - 1 \in Int /\ c.Running \in BOOLEAN
        /\ c.ExitCode \in Nat
    OBVIOUS
  <2>2. c' = [c EXCEPT !.Running = c.Running, !.ExitCode = c.ExitCode, !.mounts = c.mounts - 1]
    BY <1>20, <2>1 DEF CommitEnd
  <2>3. /\ c' \in Container /\ c'.Running = c.Running /\ c'.mounts = c.mounts - 1
        /\ c'.reg = c.reg /\ c'.Removing = c.Removing /\ c'.building = c.building
    <3> HIDE DEF IInv
    <3> QED BY <2>1, <2>2
  <2> QED BY <1>20, <2>3 DEF CommitEnd
<1>21. CASE CommitBegin /\ ~c.reg
  <2>1. /\ pc = "commit" /\ pc' = "failed"
        /\ UNCHANGED <<stopRes, canceller, finished, ctxDone, attach, c, mutex, eVars, pVars>>
    BY <1>21 DEF CommitBegin
  <2> QED BY <2>1
<1> QED BY <1>1, <1>2, <1>3, <1>4, <1>5, <1>6, <1>7, <1>8, <1>9, <1>10, <1>11, <1>12,
           <1>13, <1>14, <1>15, <1>16, <1>17, <1>18, <1>19, <1>20, <1>21 DEF Builder

\* The steps of the goroutine that waits for the cancellation.
LEMMA CancellerStep ==
    ASSUME IInv, Canceller
    PROVE  IInv'
<1> USE DEF IInv, Typed, Container, Flagged, NotStarted, Starting, Building, Stopping,
            Cancelling, Goto, Proceed, Unlocked, bVars, eVars, pVars
<1>1. CASE SelectFinished
  BY <1>1 DEF SelectFinished
<1>2. CASE SelectCancelled
  BY <1>2 DEF SelectCancelled
<1>3. CASE Kill
  BY <1>3 DEF Kill, SigKill, Killed
<1>4. CASE KillReturn
  BY <1>4 DEF KillReturn
<1>5. CASE RmBegin
  BY <1>5 DEF RmBegin
<1>6. CASE RmKill
  BY <1>6 DEF RmKill, SigKill, Killed
<1>7. CASE RmEnd
  BY <1>7 DEF RmEnd
<1> QED BY <1>1, <1>2, <1>3, <1>4, <1>5, <1>6, <1>7 DEF Canceller

\* The steps of everybody else.
LEMMA OtherStep ==
    ASSUME IInv, Attach \/ Events \/ Exits \/ ClientCancel \/ ProcessExit
                   \/ CloseOutput \/ Terminating
    PROVE  IInv'
<1> USE DEF IInv, Typed, Container, Flagged, NotStarted, Starting, Building, Stopping,
            Cancelling, Goto, Proceed, Unlocked, bVars, eVars, pVars
<1>1. CASE Attach
  BY <1>1 DEF Attach
<1>2. CASE EventLookup
  BY <1>2 DEF EventLookup, Suppressed
<1>3. CASE EventHandle
  BY <1>3 DEF EventHandle, HandleExit
<1>4. CASE ExitUnknown
  BY <1>4 DEF ExitUnknown
<1>5. CASE ExitBegin
  BY <1>5 DEF ExitBegin
<1>6. CASE ExitReset
  BY <1>6 DEF ExitReset, CloseAttaches
<1>7. CASE ExitStop
  <2>1. /\ c \in Container /\ c.mounts - 1 \in Int /\ FALSE \in BOOLEAN
        /\ Head(fns) \in Nat
    BY <1>7 DEF ExitStop
  <2>2. c' = [c EXCEPT !.Running = FALSE, !.ExitCode = Head(fns), !.mounts = c.mounts - 1]
    BY <1>7, <2>1 DEF ExitStop
  <2>3. /\ c' \in Container /\ c'.Running = FALSE /\ c'.mounts = c.mounts - 1
        /\ c'.reg = c.reg /\ c'.Removing = c.Removing /\ c'.building = c.building
    <3> HIDE DEF IInv
    <3> QED BY <2>1, <2>2
  <2> QED BY <1>7, <2>3 DEF ExitStop, CloseAttaches
<1>8. CASE ClientCancel
  BY <1>8 DEF ClientCancel
<1>9. CASE ProcessExit
  BY <1>9, ConstantsOK DEF ProcessExit
<1>10. CASE CloseOutput
  BY <1>10 DEF CloseOutput
<1>11. CASE Terminating
  BY <1>11 DEF Terminating, vars
<1> QED BY <1>1, <1>2, <1>3, <1>4, <1>5, <1>6, <1>7, <1>8, <1>9, <1>10, <1>11 DEF Events, Exits

----------------------------------------------------------------------------
(* The theorems                                                            *)

\* The invariant holds in every reachable state of a RUN step.
THEOREM BuildInvariant == Spec => []IInv
<1>1. Init => IInv
  BY DEF Init, IInv, Typed, Container, Flagged, NotStarted, Starting, Building, Stopping,
         Cancelling
<1>2. IInv /\ [Next]_vars => IInv'
  <2>1. CASE UNCHANGED vars
    BY <2>1 DEF vars, bVars, eVars, pVars, IInv, Typed, Container, Flagged, NotStarted,
                Starting, Building, Stopping, Cancelling
  <2> QED BY <2>1, BuilderStep, CancellerStep, OtherStep DEF Next
<1> QED BY <1>1, <1>2, PTL DEF Spec

\* Until stopContainerBeforeCommit clears the flag, the exec finds the container
\* running, mounted and known to libcontainerd, although its process may have
\* ended: every exit event is dropped (remote_unix.go, handleEventStream).
THEOREM ContainerIsKept == Spec => []KeptWhileBuilding
<1>1. IInv => KeptWhileBuilding BY DEF IInv, Building, KeptWhileBuilding
<1> QED BY <1>1, BuildInvariant, PTL

\* A commit after a wait that has seen the stop exports a container that is
\* stopped and has closed its output, although its exit event was made up.
THEOREM CommitFollowsStop == Spec => []StoppedBeforeCommit
<1>1. IInv => StoppedBeforeCommit BY DEF IInv, Stopping, StoppedBeforeCommit
<1> QED BY <1>1, BuildInvariant, PTL

\* The goroutine that kills and removes the container of a cancelled build has
\* ended when the builder runs the exec, commits or reports the step.
THEOREM CommitIsAlone == Spec => []CommitAlone
<1>1. IInv => CommitAlone BY DEF IInv, Cancelling, CommitAlone
<1> QED BY <1>1, BuildInvariant, PTL
=============================================================================
