------------------------------ MODULE BuildRun ------------------------------
(***************************************************************************)
(* One RUN step of a Dockerfile (builder/dockerfile).  The builder starts  *)
(* a container with the "building" flag set, runs an exec in it, clears    *)
(* the flag, makes libcontainerd handle an exit event that containerd      *)
(* never sent, waits for the container to stop and commits it.             *)
(*                                                                         *)
(* Five activities interleave: the builder, the goroutine that kills and   *)
(* removes the container when the client cancels the build, the attach     *)
(* goroutine whose end the builder waits for, the reader of containerd's   *)
(* event stream, and the goroutine that runs libcontainerd's queued        *)
(* functions (StateChanged).  The init process runs on its own.            *)
(*                                                                         *)
(* The container has just been created and nobody but this build touches   *)
(* it.  Its restart policy is "no".  The sleeps of the code and the        *)
(* timeouts of Kill may take any time.                                     *)
(***************************************************************************)
EXTENDS Integers, Sequences

CONSTANTS
    ExitCodes,      \* exit codes a process that ends by itself may have
    MayCancel,      \* may the client cancel the build?
    MayFailStart,   \* may containerd refuse to create the process?
    MayCloseOutput  \* may the process close its output and keep running?

Killed == 137       \* exit code of a process that was sent SIGKILL
StartFailure == 128 \* exit code of a container whose start failed

ASSUME ConstantsOK ==
    /\ ExitCodes \subseteq Nat
    /\ MayCancel \in BOOLEAN /\ MayFailStart \in BOOLEAN /\ MayCloseOutput \in BOOLEAN

VARIABLES
    pc,         \* control point of the builder: run, b.run, stopContainerBeforeCommit, commit
    stopRes,    \* the return of stopContainerBeforeCommit that was taken; its caller drops it
    canceller,  \* control point of the goroutine that waits for cancellation
    finished,   \* the channel finished of that goroutine is closed
    ctxDone,    \* b.clientCtx is cancelled
    attach,     \* the attach whose end stopContainerBeforeCommit waits for
    c,          \* the container: state, flags, mounts of its layer
    mutex,      \* holder of the container's mutex across steps
    tracked,    \* the container is in libcontainerd's map
    event,      \* containerd's exit event
    fns,        \* exit codes of the StateChanged calls queued in libcontainerd
    handler,    \* control point of the StateChanged call that runs
    proc,       \* host: the init process
    output,     \* host: is the output of the process open?
    code        \* host: exit code of the process

bVars == <<pc, stopRes, canceller, finished, ctxDone, attach>>
eVars == <<tracked, event, fns, handler>>
pVars == <<proc, output, code>>
vars == <<bVars, c, mutex, eVars, pVars>>

TypeOK ==
    /\ pc \in {"setFlag", "spawnRun", "start", "starting", "created", "runFailed",
               "runEnd", "runWait", "exec", "clear", "trigger", "handle", "spawnStop",
               "block", "wait", "waiting", "stopEnd", "stopWait", "commit", "export",
               "done", "failed"}
    /\ stopRes \in {"none", "noFlag", "untracked", "detached", "nonzero",
                    "stopped", "cancelled"}
    /\ canceller \in {"none", "select", "kill", "killWait", "rm", "rmKill",
                      "rmDead", "ended", "cancelled"}
    /\ finished \in BOOLEAN /\ ctxDone \in BOOLEAN
    /\ attach \in {"none", "pending", "open", "closed", "error"}
    /\ c \in [reg : BOOLEAN, Running : BOOLEAN, Removing : BOOLEAN, Dead : BOOLEAN,
              building : BOOLEAN, mounts : -1..2,
              ExitCode : ExitCodes \cup {0, Killed, StartFailure}]
    /\ mutex \in {"free", "start", "exit"}
    /\ tracked \in BOOLEAN
    /\ event \in {"none", "sent", "found", "handled", "dropped"}
    /\ fns \in Seq(ExitCodes \cup {0, Killed}) /\ Len(fns) <= 2
    /\ handler \in {"idle", "wait", "reset"}
    /\ proc \in {"none", "running", "dead"}
    /\ output \in {"open", "closed"}
    /\ code \in ExitCodes \cup {0, Killed}

Unlocked == mutex = "free"

\* dispatchers.go, run: create() has returned the container.
Init ==
    /\ pc = "setFlag" /\ stopRes = "none"
    /\ canceller = "none" /\ finished = FALSE /\ ctxDone = FALSE /\ attach = "none"
    /\ c = [reg |-> TRUE, Running |-> FALSE, Removing |-> FALSE, Dead |-> FALSE,
            building |-> FALSE, mounts |-> 0, ExitCode |-> 0]
    /\ mutex = "free"
    /\ tracked = FALSE /\ event = "none" /\ fns = <<>> /\ handler = "idle"
    /\ proc = "none" /\ output = "closed" /\ code = 0

----------------------------------------------------------------------------
(* The builder: b.run                                                      *)

\* The builder goes from one control point to the next and changes nothing else.
Goto(from, to) == pc = from /\ pc' = to

\* SetFirstContainerBuildingStatus(cID, true)
SetBuilding ==
    /\ pc = "setFlag"
    /\ pc' = IF c.reg THEN "spawnRun" ELSE "failed"
    /\ c' = [c EXCEPT !.building = IF c.reg THEN TRUE ELSE @]
    /\ UNCHANGED <<stopRes, canceller, finished, ctxDone, attach, mutex, eVars, pVars>>

\* b.run starts its goroutines; nobody reads the result of its attach.
SpawnRun ==
    /\ Goto("spawnRun", "start")
    /\ canceller' = "select" /\ finished' = FALSE
    /\ UNCHANGED <<stopRes, ctxDone, attach, c, mutex, eVars, pVars>>

\* ContainerStart up to the request to containerd, with the mutex held.
StartBegin ==
    /\ pc = "start" /\ Unlocked
    /\ IF c.reg /\ ~c.Removing /\ ~c.Dead
       THEN /\ pc' = "starting" /\ mutex' = "start" /\ tracked' = TRUE
            /\ c' = [c EXCEPT !.mounts = @ + 1]
       ELSE /\ pc' = "runFailed"
            /\ UNCHANGED <<mutex, tracked, c>>
    /\ UNCHANGED <<stopRes, canceller, finished, ctxDone, attach, event, fns,
                   handler, pVars>>

\* containerd creates the process.
CreateContainer ==
    /\ Goto("starting", "created")
    /\ proc' = "running" /\ output' = "open"
    /\ UNCHANGED <<stopRes, canceller, finished, ctxDone, attach, c, mutex, eVars, code>>

\* containerd refuses; Create forgets the container, containerStart cleans up.
CreateFails ==
    /\ MayFailStart
    /\ Goto("starting", "runFailed")
    /\ tracked' = FALSE /\ mutex' = "free"
    /\ c' = [c EXCEPT !.ExitCode = StartFailure, !.mounts = @ - 1]
    /\ UNCHANGED <<stopRes, canceller, finished, ctxDone, attach, event, fns,
                   handler, pVars>>

\* StateChanged with StateStart, called inside Create.
StateStart ==
    /\ Goto("created", "runEnd")
    /\ c' = [c EXCEPT !.Running = TRUE, !.ExitCode = 0]
    /\ mutex' = "free"
    /\ UNCHANGED <<stopRes, canceller, finished, ctxDone, attach, eVars, pVars>>

\* close(finished); b.run then waits on cancelErrCh.
RunFinish ==
    /\ pc \in {"runEnd", "runFailed"} /\ ~finished
    /\ finished' = TRUE
    /\ pc' = IF pc = "runEnd" THEN "runWait" ELSE pc
    /\ UNCHANGED <<stopRes, canceller, ctxDone, attach, c, mutex, eVars, pVars>>

RunReturn ==
    /\ pc \in {"runWait", "runFailed"} /\ finished
    /\ canceller \in {"ended", "cancelled"}
    /\ pc' = IF pc = "runWait" /\ canceller = "ended" THEN "exec" ELSE "failed"
    /\ UNCHANGED <<stopRes, canceller, finished, ctxDone, attach, c, mutex, eVars, pVars>>

\* The exec through the command line client; an error is only printed.
Exec ==
    /\ Goto("exec", "clear")
    /\ UNCHANGED <<stopRes, canceller, finished, ctxDone, attach, c, mutex, eVars, pVars>>

----------------------------------------------------------------------------
(* The builder: stopContainerBeforeCommit                                  *)

\* Returns to run with a result, and run goes on to commit whatever it is.
StopReturns(res) == pc' = "commit" /\ stopRes' = res

\* SetFirstContainerBuildingStatus(cID, false)
ClearBuilding ==
    /\ pc = "clear"
    /\ IF c.reg THEN pc' = "trigger" /\ UNCHANGED stopRes ELSE StopReturns("noFlag")
    /\ c' = [c EXCEPT !.building = IF c.reg THEN FALSE ELSE @]
    /\ UNCHANGED <<canceller, finished, ctxDone, attach, mutex, eVars, pVars>>

\* TriggerHandleStream looks the container up without its lock.
TriggerLookup ==
    /\ pc = "trigger"
    /\ IF tracked THEN pc' = "handle" /\ UNCHANGED stopRes ELSE StopReturns("untracked")
    /\ UNCHANGED <<canceller, finished, ctxDone, attach, c, mutex, eVars, pVars>>

\* Mutant of HandleExit: the container is forgotten, StateChanged is not queued.
HandleExitUnqueued(status) == tracked' = FALSE /\ fns' = fns

\* handleEvent: forgets the container and queues its StateChanged.
HandleExit(status) == tracked' = FALSE /\ fns' = Append(fns, status)

\* The made-up event has no status, so it reports exit code 0.
TriggerHandle ==
    /\ Goto("handle", "spawnStop")
    /\ HandleExit(0)
    /\ UNCHANGED <<stopRes, canceller, finished, ctxDone, attach, c, mutex, event,
                   handler, pVars>>

SpawnStop ==
    /\ Goto("spawnStop", "block")
    /\ attach' = "pending" /\ canceller' = "select" /\ finished' = FALSE
    /\ UNCHANGED <<stopRes, ctxDone, c, mutex, eVars, pVars>>

\* ContainerAttachRaw finds the container and joins its streams.
Attach ==
    /\ attach = "pending"
    /\ attach' = IF c.reg THEN "open" ELSE "error"
    /\ UNCHANGED <<pc, stopRes, canceller, finished, ctxDone, c, mutex, eVars, pVars>>

\* errChannel := <-errCh
AfterAttach == IF attach = "closed" THEN "wait" ELSE "stopEnd"

Block ==
    /\ pc = "block" /\ attach \in {"closed", "error"}
    /\ pc' = AfterAttach
    /\ stopRes' = IF attach = "error" THEN "detached" ELSE stopRes
    /\ UNCHANGED <<canceller, finished, ctxDone, attach, c, mutex, eVars, pVars>>

\* ContainerWait: the lookup, which fails with -1, and the wait for the stop.
WaitLookup ==
    /\ pc = "wait"
    /\ pc' = IF c.reg THEN "waiting" ELSE "stopEnd"
    /\ stopRes' = IF c.reg THEN stopRes ELSE "nonzero"
    /\ UNCHANGED <<canceller, finished, ctxDone, attach, c, mutex, eVars, pVars>>

\* Mutant of Stopped: the wait returns although the container runs.
StoppedAtOnce == TRUE

\* What WaitWithContext waits for, with the mutex.
Stopped == Unlocked /\ ~c.Running

WaitStop ==
    /\ Goto("waiting", "stopEnd")
    /\ Stopped
    /\ stopRes' = IF c.ExitCode = 0 THEN "stopped" ELSE "nonzero"
    /\ UNCHANGED <<canceller, finished, ctxDone, attach, c, mutex, eVars, pVars>>

StopFinish ==
    /\ Goto("stopEnd", "stopWait")
    /\ finished' = TRUE
    /\ UNCHANGED <<stopRes, canceller, ctxDone, attach, c, mutex, eVars, pVars>>

\* Mutant of CancellerIsDone: the result is not waited for.
CancellerIsIgnored == TRUE

\* <-cancelErrCh: the other goroutine has said whether it removed the container.
CancellerIsDone == canceller \in {"ended", "cancelled"}

StopReturn ==
    /\ pc = "stopWait" /\ CancellerIsDone
    /\ StopReturns(IF stopRes = "stopped" /\ canceller = "cancelled" THEN "cancelled" ELSE stopRes)
    /\ UNCHANGED <<canceller, finished, ctxDone, attach, c, mutex, eVars, pVars>>

----------------------------------------------------------------------------
(* The builder: commit                                                     *)

\* Commit finds the container and mounts its layer to export it; pausing the
\* container is commented out.
CommitBegin ==
    /\ pc = "commit"
    /\ pc' = IF c.reg THEN "export" ELSE "failed"
    /\ c' = IF c.reg THEN [c EXCEPT !.mounts = @ + 1] ELSE c
    /\ UNCHANGED <<stopRes, canceller, finished, ctxDone, attach, mutex, eVars, pVars>>

\* The archive has been read and closed, the image is registered.
CommitEnd ==
    /\ Goto("export", "done")
    /\ c' = [c EXCEPT !.mounts = @ - 1]
    /\ UNCHANGED <<stopRes, canceller, finished, ctxDone, attach, mutex, eVars, pVars>>

----------------------------------------------------------------------------
(* The goroutine that waits for cancellation                               *)

Proceed(from, to) == canceller = from /\ canceller' = to

SelectFinished ==
    /\ Proceed("select", "ended") /\ finished
    /\ UNCHANGED <<pc, stopRes, finished, ctxDone, attach, c, mutex, eVars, pVars>>

SelectCancelled ==
    /\ Proceed("select", "kill") /\ ctxDone
    /\ UNCHANGED <<pc, stopRes, finished, ctxDone, attach, c, mutex, eVars, pVars>>

\* SIGKILL through containerd: nothing happens to a process that is dead.
SigKill ==
    IF proc = "running"
    THEN proc' = "dead" /\ output' = "closed" /\ code' = Killed /\ event' = "sent"
    ELSE UNCHANGED <<pVars, event>>

\* Kill: IsRunning, then the signal, under the mutex each.
Kill ==
    /\ canceller = "kill" /\ Unlocked
    /\ IF c.Running
       THEN canceller' = "killWait" /\ SigKill
       ELSE canceller' = "rm" /\ UNCHANGED <<pVars, event>>
    /\ UNCHANGED <<pc, stopRes, finished, ctxDone, attach, c, mutex, tracked, fns, handler>>

\* Kill waits for the stop; after ten seconds it returns because there is no
\* such process any more.
KillReturn ==
    /\ Proceed("killWait", "rm") /\ Unlocked
    /\ ~c.Running \/ proc = "dead"
    /\ UNCHANGED <<pc, stopRes, finished, ctxDone, attach, c, mutex, eVars, pVars>>

\* ContainerRm: SetRemovalInProgress
RmBegin ==
    /\ Proceed("rm", "rmKill") /\ Unlocked
    /\ c' = [c EXCEPT !.Removing = TRUE]
    /\ UNCHANGED <<pc, stopRes, finished, ctxDone, attach, mutex, eVars, pVars>>

\* cleanupContainer kills what has started since, and stops it.
RmKill ==
    /\ Proceed("rmKill", "rmDead") /\ Unlocked
    /\ IF c.Running THEN SigKill ELSE UNCHANGED <<pVars, event>>
    /\ UNCHANGED <<pc, stopRes, finished, ctxDone, attach, c, mutex, tracked, fns, handler>>

\* The container is marked dead, unregistered and its layer released.
RmEnd ==
    /\ Proceed("rmDead", "cancelled") /\ Unlocked
    /\ ~c.Running \/ proc = "dead"
    /\ c' = [c EXCEPT !.Dead = TRUE, !.reg = FALSE, !.Removing = FALSE]
    /\ UNCHANGED <<pc, stopRes, finished, ctxDone, attach, mutex, eVars, pVars>>

----------------------------------------------------------------------------
(* containerd's event and StateChanged                                     *)

\* Mutant of Suppressed: exit events are handled during the build too.
NeverSuppressed == FALSE

\* handleEventStream asks the daemon whether the container is building;
\* a container that is not registered is not.
Suppressed == c.reg /\ c.building

EventLookup ==
    /\ event = "sent"
    /\ event' = IF tracked /\ ~Suppressed THEN "found" ELSE "dropped"
    /\ UNCHANGED <<bVars, c, mutex, tracked, fns, handler, pVars>>

\* handleEvent takes libcontainerd's lock of the container, which Create holds.
EventHandle ==
    /\ event = "found" /\ mutex # "start"
    /\ event' = "handled"
    /\ HandleExit(code)
    /\ UNCHANGED <<bVars, c, mutex, handler, pVars>>

\* StateChanged fails for a container that is not registered.
ExitUnknown ==
    /\ handler = "idle" /\ fns # <<>> /\ ~c.reg
    /\ fns' = Tail(fns)
    /\ UNCHANGED <<bVars, c, mutex, tracked, event, handler, pVars>>

\* StateExit takes the mutex and waits for the end of the output with it.
ExitBegin ==
    /\ handler = "idle" /\ fns # <<>> /\ c.reg /\ Unlocked
    /\ handler' = "wait" /\ mutex' = "exit"
    /\ UNCHANGED <<bVars, c, tracked, event, fns, pVars>>

\* Ends the attaches that have joined the streams by now.
CloseAttaches == attach' = IF attach = "open" THEN "closed" ELSE attach

\* Reset closes the streams.
ExitReset ==
    /\ handler = "wait" /\ output = "closed"
    /\ handler' = "reset"
    /\ CloseAttaches
    /\ UNCHANGED <<pc, stopRes, canceller, finished, ctxDone, c, mutex, tracked,
                   event, fns, pVars>>

\* SetStopped, then Cleanup unmounts the layer and cancels the attaches.
ExitStop ==
    /\ handler = "reset"
    /\ handler' = "idle" /\ mutex' = "free" /\ fns' = Tail(fns)
    /\ c' = [c EXCEPT !.Running = FALSE, !.ExitCode = Head(fns), !.mounts = @ - 1]
    /\ CloseAttaches
    /\ UNCHANGED <<pc, stopRes, canceller, finished, ctxDone, tracked, event, pVars>>

----------------------------------------------------------------------------
(* The client and the process                                              *)

ClientCancel ==
    /\ MayCancel /\ ~ctxDone /\ ctxDone' = TRUE
    /\ UNCHANGED <<pc, stopRes, canceller, finished, attach, c, mutex, eVars, pVars>>

ProcessExit ==
    /\ proc = "running" /\ proc' = "dead" /\ output' = "closed"
    /\ code' \in ExitCodes
    /\ event' = "sent"
    /\ UNCHANGED <<bVars, c, mutex, tracked, fns, handler>>

\* A daemon that redirects its output and stays.
CloseOutput ==
    /\ MayCloseOutput
    /\ proc = "running" /\ output = "open" /\ output' = "closed"
    /\ UNCHANGED <<bVars, c, mutex, eVars, proc, code>>

\* The build has ended and nothing is left to do.
Terminating ==
    /\ pc \in {"done", "failed"}
    /\ UNCHANGED vars

Builder ==
    \/ SetBuilding \/ SpawnRun \/ StartBegin \/ CreateContainer \/ CreateFails
    \/ StateStart \/ RunFinish \/ RunReturn \/ Exec
    \/ ClearBuilding \/ TriggerLookup \/ TriggerHandle \/ SpawnStop \/ Block
    \/ WaitLookup \/ WaitStop \/ StopFinish \/ StopReturn
    \/ CommitBegin \/ CommitEnd

Canceller ==
    \/ SelectFinished \/ SelectCancelled \/ Kill \/ KillReturn
    \/ RmBegin \/ RmKill \/ RmEnd

Events == EventLookup \/ EventHandle
Exits == ExitUnknown \/ ExitBegin \/ ExitReset \/ ExitStop

Next ==
    \/ Builder \/ Canceller \/ Attach \/ Events \/ Exits
    \/ ClientCancel \/ ProcessExit \/ CloseOutput
    \/ Terminating

Spec == Init /\ [][Next]_vars

\* Liveness: the goroutines of the daemon and containerd's events keep going.
\* Nothing is assumed of the client.
Fairness ==
    /\ WF_vars(Builder) /\ WF_vars(Canceller) /\ WF_vars(Attach)
    /\ WF_vars(Events) /\ WF_vars(Exits)

\* The process may run for ever: the command is a server, or sleeps.
FairSpec == Spec /\ Fairness

\* The process ends by itself.
EndingSpec == FairSpec /\ WF_vars(ProcessExit)

----------------------------------------------------------------------------
(* What the step keeps                                                     *)

\* Until the flag is cleared the exec finds the container: once started it is
\* running, mounted once and known to libcontainerd, even after its process
\* has ended, unless a cancellation has removed it.
KeptWhileBuilding ==
    pc \in {"runEnd", "runWait", "exec", "clear"} /\ c.reg =>
        c.Running /\ tracked /\ c.mounts = 1 /\ fns = <<>>

\* When stopContainerBeforeCommit has waited for the stop, the layer that is
\* exported is the one of a container that is stopped and has said its last
\* word, although the exit that stopped it was made up.
StoppedBeforeCommit ==
    pc = "export" /\ stopRes = "stopped" => ~c.Running /\ output = "closed"

\* The goroutine that kills and removes a cancelled build's container is never
\* still at work when the builder commits or reports the step.
CommitAlone ==
    pc \in {"exec", "clear", "commit", "export", "done"} =>
        ~c.Removing /\ canceller \in {"none", "ended", "cancelled"}

\* The made-up exit event takes effect once the process has closed its output,
\* although the builder, the attach and a cancellation all compete for the
\* container.
SyntheticExitApplies ==
    (pc = "block" /\ output = "closed") ~> (~c.Running \/ ~c.reg)

----------------------------------------------------------------------------
(* Statements of the repository that the code does not keep                *)

\* docker_cli_build_test.go, docs/reference/commandline/build.md: a RUN command
\* that fails ends the build ("returned a non-zero code").
FailedRunNotCommitted == pc = "export" => proc # "dead" \/ code = 0

\* internals.go, stopContainerBeforeCommit: "Block on reading output from
\* container, stop on err or chan closed".  A step whose process ends, ends.
StepEnds == <>(pc \in {"done", "failed"})

\* internals.go, stopContainerBeforeCommit: "Build cancelled, killing and
\* removing container".
CancelKills == ctxDone ~> proc # "running"

\* docs/reference/commandline/commit.md: "By default, the container being
\* committed and its processes will be paused"
CommitQuiesced == pc = "export" => proc # "running"

\* layer/mounted_layer.go: "Callers should only call `Unmount` once per call to
\* `Mount`, even on error."
UnmountedOnce == c.mounts >= 0
=============================================================================
