------------------------- MODULE ContainerLifecycle -------------------------
(***************************************************************************)
(* The life of one container in the daemon: the API calls that start,      *)
(* stop, kill, restart, pause, wait for and remove it (daemon/start.go,    *)
(* stop.go, kill.go, restart.go, pause.go, unpause.go, wait.go,            *)
(* delete.go), the state they share (container/state.go), the restart      *)
(* manager, and the way events of containerd come back                     *)
(* (libcontainerd, daemon/monitor.go).                                     *)
(*                                                                         *)
(* Every API call runs in a goroutine of its own (Clients).  Two more      *)
(* goroutines act on the container: Monitor runs the functions that        *)
(* libcontainerd queues for its events, one after the other, and Restarter *)
(* is the goroutine StateChanged leaves behind when the restart policy     *)
(* asks for a new start.  The calls nest (restart calls stop, stop calls   *)
(* Kill, Kill waits), so each goroutine is a record with a control point,  *)
(* a stack of return points and its local variables.                       *)
(*                                                                         *)
(* A step is what the code does between two points where another goroutine *)
(* may interfere: one critical section of the container's mutex, or one    *)
(* wait.  The mutex is a variable only for the code that holds it across   *)
(* something that blocks (a start, a pause) or races with code that does   *)
(* not take it (WaitWithContext).  Timeouts may expire at any time.        *)
(***************************************************************************)
EXTENDS Integers, Sequences, FiniteSets

CONSTANTS
    Clients,        \* goroutines of API requests
    Monitor,        \* the goroutine that runs libcontainerd's queued functions
    Restarter,      \* the goroutine that waits for the restart manager
    Nobody,         \* the holder of a free mutex
    Setups,         \* containers as created, with the calls and failures they meet
    MaxRetry,       \* MaximumRetryCount of the policy on-failure, 0: no maximum
    MaxStarts,      \* bound: processes containerd creates before it refuses
    MaxCalls        \* bound: API calls per client

AllOps == {"start", "stop", "stopForever", "kill", "signal", "rm", "rmForce",
           "restart", "pause", "unpause", "wait"}
AllPolicies == {"no", "always", "on-failure"}
AllFaults == {"setup", "create", "disk", "signal", "rmfs"}

\* A restart policy, a stop signal other than SIGKILL or not, and
\* HostConfig.AutoRemove; the API calls that clients make and the steps of the
\* host that may fail.
Setup == [policy : AllPolicies, stopSignal : BOOLEAN, autoRemove : BOOLEAN,
          ops : SUBSET AllOps, faults : SUBSET AllFaults]

\* verifyContainerSettings refuses AutoRemove together with a restart policy.
\* A failed write to disk during a restart could leave two Restarters alive;
\* such setups are not explored.
ASSUME BoundsOK ==
    /\ \A s \in Setups :
         /\ s \in Setup
         /\ s.autoRemove \/ "disk" \in s.faults => s.policy = "no"
    /\ MaxRetry \in Nat /\ MaxStarts \in Nat /\ MaxCalls \in Nat

\* Goroutines are told apart, and finitely many requests are served at a time.
ASSUME GoroutinesOK ==
    /\ IsFiniteSet(Clients) /\ Monitor # Restarter
    /\ Monitor \notin Clients /\ Restarter \notin Clients
    /\ Nobody \notin Clients \cup {Monitor, Restarter}

VARIABLES
    config,     \* the setup of this behaviour, fixed at creation
    autoRemove, \* HostConfig.AutoRemove
    reg,        \* the container is in daemon.containers
    c,          \* container.State
    mutex,      \* goroutine that holds the container's mutex across steps
    rm,         \* the restart manager
    mounts,     \* mounts of the RW layer the container holds
    proc,       \* host: pid of the init process, 0 when there is none
    host,       \* host: processes created, freezer state, pending SIGKILL
    tracked,    \* the container is in libcontainerd's map
    stream,     \* events containerd has sent and handleEventStream not read
    handling,   \* the event handleEventStream has looked the container up for
    fns,        \* functions queued for Monitor
    th          \* the goroutines

dVars == <<autoRemove, reg, c, mutex, rm, mounts>>
hVars == <<proc, host>>
eVars == <<tracked, stream, handling, fns>>
vars == <<config, dVars, hVars, eVars, th>>

Actors == Clients \cup {Monitor, Restarter}
None == "none"
Asleep == 256     \* no exit status: the channel a waiter holds is open

----------------------------------------------------------------------------
(* Goroutines: local jumps, calls and returns.                             *)

NewGoroutine == [pc |-> "idle", stk |-> <<>>, res |-> "ok", woken |-> Asleep,
                 timed |-> FALSE, force |-> FALSE, forever |-> FALSE,
                 saved |-> FALSE, code |-> 0, op |-> None, target |-> 0,
                 calls |-> 0]

Goto(t, l) == [t EXCEPT !.pc = l]
Call(t, proced, ret) == [t EXCEPT !.pc = proced, !.stk = <<ret>> \o @]
\* The locals of a request end with it; its outcome is kept for the properties.
Return(t, r) ==
    IF Head(t.stk) = "idle"
    THEN [NewGoroutine EXCEPT !.res = r, !.op = t.op, !.target = t.target,
                              !.calls = t.calls]
    ELSE [t EXCEPT !.pc = Head(t.stk), !.stk = Tail(t.stk), !.res = r]
\* WaitStop with a timeout, and WaitStop(-1 * time.Second).
WaitFor(t, ret) == [Call(t, "waitStop", ret) EXCEPT !.timed = TRUE]
WaitForever(t, ret) == [Call(t, "waitStop", ret) EXCEPT !.timed = FALSE]

At(a, l) == th[a].pc = l
Unlocked == mutex = Nobody
Step(a, t) == th' = [th EXCEPT ![a] = t]

\* Returns to the caller of a procedure without any other change.
JustReturn(a, r) ==
    /\ Step(a, Return(th[a], r))
    /\ UNCHANGED <<config, dVars, hVars, eVars>>

\* Goes on elsewhere without any other change.
JustStep(a, t) == Step(a, t) /\ UNCHANGED <<config, dVars, hVars, eVars>>

----------------------------------------------------------------------------
(* container/state.go                                                      *)

NewState == [Running |-> FALSE, Paused |-> FALSE, Restarting |-> FALSE,
             RemovalInProgress |-> FALSE, Dead |-> FALSE, Pid |-> 0,
             ExitCode |-> 0]

SetRunning(s, pid) == [s EXCEPT !.Running = TRUE, !.Restarting = FALSE,
                                !.ExitCode = 0, !.Pid = pid]

SetStopped(s, code) == [s EXCEPT !.Running = FALSE, !.Paused = FALSE,
                                 !.Restarting = FALSE, !.Pid = 0,
                                 !.ExitCode = code]

\* Mutant of SetRestarting: a restarting container does not count as running.
SetRestartingStopped(s, code) == [s EXCEPT !.Running = FALSE, !.Restarting = TRUE,
                                           !.Pid = 0, !.ExitCode = code]

SetRestarting(s, code) == [s EXCEPT !.Running = TRUE, !.Restarting = TRUE,
                                    !.Pid = 0, !.ExitCode = code]


\* close(s.waitChan); s.waitChan = make(...): the waiters that hold the old
\* channel are woken.  woken keeps the code given to SetStopped.
FireWaiters(ths, code) ==
    [a \in Actors |-> IF ths[a].pc = "select" /\ ths[a].woken = Asleep
                      THEN [ths[a] EXCEPT !.woken = code] ELSE ths[a]]

\* Mutant of WaitCheck: the mutex is released before the channel is read.
WaitCheckUnlocked(a) ==
    /\ At(a, "waitStop") /\ Unlocked
    /\ JustStep(a, IF c.Running THEN Goto(th[a], "waitChan")
                                ELSE Return(th[a], "ok"))

\* WaitWithContext up to the read of Running, with the mutex taken.
WaitCheck(a) ==
    /\ At(a, "waitStop") /\ Unlocked
    /\ IF c.Running
       THEN /\ mutex' = a
            /\ Step(a, Goto(th[a], "waitChan"))
            /\ UNCHANGED <<autoRemove, reg, c, rm, mounts>>
       ELSE /\ Step(a, [Return(th[a], "ok") EXCEPT !.code = c.ExitCode])
            /\ UNCHANGED dVars
    /\ UNCHANGED <<config, hVars, eVars>>

\* waitChan := s.waitChan; s.Unlock()
WaitReadChan(a) ==
    /\ At(a, "waitChan")
    /\ mutex' = Nobody
    /\ Step(a, [Goto(th[a], "select") EXCEPT !.woken = Asleep])
    /\ UNCHANGED <<config, autoRemove, reg, c, rm, mounts, hVars, eVars>>

\* The select: the channel was closed, and the exit code is read under the
\* mutex; or the timeout expires.
WaitSelect(a) ==
    /\ At(a, "select")
    /\ \/ /\ th[a].woken # Asleep /\ Unlocked
          /\ JustStep(a, [Return(th[a], "ok") EXCEPT !.code = c.ExitCode])
       \/ /\ th[a].timed
          /\ JustReturn(a, "err")

WaitStop(a) == WaitCheck(a) \/ WaitReadChan(a) \/ WaitSelect(a)

----------------------------------------------------------------------------
(* daemon/kill.go                                                          *)

\* killWithSignal tells the restart manager not to restart: always when no
\* stop signal is configured, else when the signal is the stop signal.
ExitOnNext(sig) == config.stopSignal => sig = "stop"

\* killWithSignal(container, sig), one critical section: the goroutine goes on
\* as tOk or as tErr.  containerd answers "container not found" or "no such
\* process" when the process is gone, which is not an error.
KillWithSignal(a, sig, tOk, tErr) ==
    /\ Unlocked
    /\ \/ /\ c.Paused \/ ~c.Running
          /\ Step(a, tErr) /\ UNCHANGED <<rm, host>>
       \/ /\ ~c.Paused /\ c.Running
          /\ rm' = [rm EXCEPT !.canceled = @ \/ ExitOnNext(sig)]
          /\ \/ /\ Step(a, tOk)
                /\ host' = [host EXCEPT !.killed =
                     @ \/ (sig = "KILL" /\ ~c.Restarting /\ proc # 0)]
             \/ /\ ~c.Restarting /\ "signal" \in config.faults
                /\ Step(a, tErr) /\ UNCHANGED host
    /\ UNCHANGED <<config, autoRemove, reg, c, mutex, mounts, proc, eVars>>

\* Kill(container)
KillCheck(a) ==
    /\ At(a, "kill") /\ Unlocked
    /\ IF c.Running THEN JustStep(a, Goto(th[a], "killSignal"))
                    ELSE JustReturn(a, "err")

KillSignal(a) ==
    /\ At(a, "killSignal")
    /\ KillWithSignal(a, "KILL", WaitFor(th[a], "killDirect"),
                                 WaitFor(th[a], "killFailed"))

\* The signal failed: the container may have stopped within two seconds.
KillFailed(a) ==
    /\ At(a, "killFailed")
    /\ IF th[a].res = "err" THEN JustReturn(a, "err")
                            ELSE JustStep(a, WaitFor(th[a], "killDirect"))

\* killProcessDirectly: after ten seconds the pid is signalled without
\* containerd; ESRCH makes Kill return nil.
KillDirect(a) ==
    /\ At(a, "killDirect")
    /\ \/ /\ th[a].res = "ok" \/ (Unlocked /\ c.Pid = 0)
          /\ JustStep(a, WaitForever(th[a], "killEnd"))
       \/ /\ th[a].res = "err" /\ Unlocked /\ c.Pid # 0
          /\ IF c.Pid = proc
             THEN /\ host' = [host EXCEPT !.killed = TRUE]
                  /\ Step(a, WaitForever(th[a], "killEnd"))
             ELSE UNCHANGED host /\ Step(a, Return(th[a], "ok"))
          /\ UNCHANGED <<config, dVars, proc, eVars>>

KillEnd(a) == At(a, "killEnd") /\ JustReturn(a, "ok")

Kill(a) == KillCheck(a) \/ KillSignal(a) \/ KillFailed(a) \/ KillDirect(a)
             \/ KillEnd(a)

----------------------------------------------------------------------------
(* daemon/stop.go: containerStop                                           *)

\* WaitStop(seconds): a negative number of seconds waits for ever.
WaitSeconds(t) == [Call(t, "waitStop", "stopWaited") EXCEPT !.timed = ~t.forever]

StopCheck(a) ==
    /\ At(a, "containerStop") /\ Unlocked
    /\ IF c.Running THEN JustStep(a, Goto(th[a], "stopSignal"))
                    ELSE JustReturn(a, "ok")

StopSignal(a) ==
    /\ At(a, "stopSignal")
    /\ KillWithSignal(a, "stop", WaitSeconds(th[a]),
                                 WaitFor(th[a], "stopFailed"))

StopFailed(a) ==
    /\ At(a, "stopFailed")
    /\ JustStep(a, IF th[a].res = "err" THEN Goto(th[a], "stopForce")
                                        ELSE WaitSeconds(th[a]))

StopForce(a) ==
    /\ At(a, "stopForce")
    /\ KillWithSignal(a, "KILL", WaitSeconds(th[a]), Return(th[a], "err"))

\* Mutant of StopWaited: the timeout counts as success.
StopWaitedLeniently(a) == At(a, "stopWaited") /\ JustReturn(a, "ok")

\* The container did not stop in time: SIGKILL.
StopWaited(a) ==
    /\ At(a, "stopWaited")
    /\ IF th[a].res = "ok" THEN JustReturn(a, "ok")
                           ELSE JustStep(a, Call(th[a], "kill", "stopKilled"))

StopKilled(a) ==
    /\ At(a, "stopKilled")
    /\ IF th[a].res = "ok" THEN JustReturn(a, "ok")
                           ELSE JustStep(a, WaitForever(th[a], "stopEnd"))

StopEnd(a) == At(a, "stopEnd") /\ JustReturn(a, "ok")

ContainerStop(a) == StopCheck(a) \/ StopSignal(a) \/ StopFailed(a)
                      \/ StopForce(a) \/ StopWaited(a) \/ StopKilled(a)
                      \/ StopEnd(a)

----------------------------------------------------------------------------
(* daemon/start.go: containerStart                                         *)

\* resetRestartManager is false for the goroutine of StateChanged only.
Reset(a) == a # Restarter

\* ResetRestartManager and the manager the next RestartManager() makes.
NewRestartManager == [canceled |-> FALSE, active |-> FALSE, count |-> 0]

\* A container with AutoRemove is removed when its start has failed.
AfterFailure(a) ==
    IF autoRemove
    THEN [Call(th[a], "rmLookup", "startFailed") EXCEPT !.force = TRUE]
    ELSE Return(th[a], "err")

\* Mutant of Cleanup: the layer stays mounted.
CleanupNothing(m) == m

\* Cleanup: what it does to the mounts of the RW layer.
Cleanup(m) == m - 1

\* The deferred clean-up of a failed start: the exit code is not left at zero,
\* Cleanup undoes the mount, and the mutex is released before the removal.
StartFails(a) ==
    /\ c' = [c EXCEPT !.ExitCode = IF @ = 0 THEN 128 ELSE @]
    /\ mutex' = Nobody
    /\ Step(a, AfterFailure(a))

\* Mutant of MayNotStart: the test of Running is missing.
MayNotStartUnlessRemoved(a) == c.RemovalInProgress \/ c.Dead

\* The early returns of containerStart.
MayNotStart(a) ==
    \/ Reset(a) /\ c.Running
    \/ c.RemovalInProgress \/ c.Dead

\* containerStart up to the process that containerd creates.  The mutex is
\* held from here to the end of Create, which also holds the lock of
\* libcontainerd for this container.
StartBegin(a) ==
    /\ At(a, "containerStart") /\ Unlocked
    /\ \/ /\ MayNotStart(a)
          /\ JustReturn(a, IF Reset(a) /\ c.Running THEN "ok" ELSE "err")
       \/ /\ ~MayNotStart(a)
          /\ \/ /\ "setup" \in config.faults        \* network, spec, options
                /\ StartFails(a)
                /\ UNCHANGED <<rm, mounts, proc, host, tracked>>
             \/ /\ rm' = IF Reset(a) THEN NewRestartManager ELSE rm
                /\ \/ /\ tracked             \* "already active"
                      /\ StartFails(a)
                      /\ UNCHANGED <<mounts, proc, host, tracked>>
                   \/ /\ ~tracked            \* CreateContainer fails
                      /\ "create" \in config.faults \/ host.starts = MaxStarts
                      /\ StartFails(a)
                      /\ UNCHANGED <<mounts, proc, host, tracked>>
                   \/ /\ ~tracked /\ host.starts < MaxStarts
                      /\ host' = [starts |-> host.starts + 1,
                                  frozen |-> FALSE, killed |-> FALSE]
                      /\ proc' = host.starts + 1
                      /\ tracked' = TRUE
                      /\ mounts' = mounts + 1
                      /\ mutex' = a
                      /\ Step(a, Goto(th[a], "stateStart"))
                      /\ UNCHANGED c
          /\ UNCHANGED <<config, autoRemove, reg, stream, handling, fns>>

\* Create's call of StateChanged with StateStart, and the return of Create.
\* When the state cannot be written to disk the start has failed, and Create
\* forgets the container.
StateStart(a) ==
    /\ At(a, "stateStart")
    /\ mutex' = Nobody
    /\ \/ /\ c' = SetRunning(c, host.starts)
          /\ Step(a, Return(th[a], "ok"))
          /\ UNCHANGED <<tracked, mounts>>
       \/ /\ "disk" \in config.faults
          /\ tracked' = FALSE
          /\ mounts' = Cleanup(mounts)
          /\ c' = [SetRunning(c, host.starts) EXCEPT !.ExitCode = 128]
          /\ Step(a, AfterFailure(a))
    /\ UNCHANGED <<config, autoRemove, reg, rm, hVars, stream, handling, fns>>

StartFailed(a) == At(a, "startFailed") /\ Unlocked /\ JustReturn(a, "err")

ContainerStart(a) == StartBegin(a) \/ StateStart(a) \/ StartFailed(a)

----------------------------------------------------------------------------
(* daemon/delete.go: ContainerRm and cleanupContainer                      *)

\* GetContainer.
RmLookup(a) ==
    /\ At(a, "rmLookup")
    /\ IF reg THEN JustStep(a, Goto(th[a], "rmMark")) ELSE JustReturn(a, "err")

\* Mutant of MarkRemoval: the flag is set too late to keep a start away.
MarkNothing == c

\* SetRemovalInProgress.
MarkRemoval == [c EXCEPT !.RemovalInProgress = TRUE]

RmMark(a) ==
    /\ At(a, "rmMark") /\ Unlocked
    /\ IF c.RemovalInProgress THEN JustReturn(a, "err")
       ELSE /\ c' = MarkRemoval
            /\ Step(a, Goto(th[a], "rmCheck"))
            /\ UNCHANGED <<config, autoRemove, reg, mutex, rm, mounts, hVars, eVars>>

\* A previous removal may have finished since the lookup; a running container
\* is killed when the removal is forced.
RmCheck(a) ==
    /\ At(a, "rmCheck") /\ Unlocked
    /\ JustStep(a,
         IF ~reg THEN [Goto(th[a], "rmEnd") EXCEPT !.res = "ok"]
         ELSE IF ~c.Running THEN Call(th[a], "containerStop", "rmStopped")
         ELSE IF th[a].force THEN Call(th[a], "kill", "rmKilled")
         ELSE [Goto(th[a], "rmEnd") EXCEPT !.res = "err"])

RmKilled(a) ==
    /\ At(a, "rmKilled")
    /\ JustStep(a, IF th[a].res = "err" THEN Goto(th[a], "rmEnd")
                   ELSE Call(th[a], "containerStop", "rmStopped"))

\* SetDead, once the container is stopped.
RmStopped(a) ==
    /\ At(a, "rmStopped")
    /\ IF th[a].res = "err" THEN JustStep(a, Goto(th[a], "rmEnd"))
       ELSE /\ Unlocked
            /\ c' = [c EXCEPT !.Dead = TRUE]
            /\ Step(a, Goto(th[a], "rmFiles"))
            /\ UNCHANGED <<config, autoRemove, reg, mutex, rm, mounts, hVars, eVars>>

\* Removal of the files and of the RW layer; a forced removal takes the
\* container out of the indexes even when that fails.
RmFiles(a) ==
    /\ At(a, "rmFiles")
    /\ \E r \in {"ok"} \cup (IF "rmfs" \in config.faults THEN {"err"} ELSE {}) :
         /\ reg' = (reg /\ r = "err" /\ ~th[a].force)
         /\ Step(a, [Goto(th[a], "rmEnd") EXCEPT !.res = r])
    /\ UNCHANGED <<config, autoRemove, c, mutex, rm, mounts, hVars, eVars>>

\* The deferred ResetRemovalInProgress.
RmEnd(a) ==
    /\ At(a, "rmEnd") /\ Unlocked
    /\ c' = [c EXCEPT !.RemovalInProgress = FALSE]
    /\ Step(a, Return(th[a], th[a].res))
    /\ UNCHANGED <<config, autoRemove, reg, mutex, rm, mounts, hVars, eVars>>

ContainerRm(a) == RmLookup(a) \/ RmMark(a) \/ RmCheck(a) \/ RmKilled(a)
                    \/ RmStopped(a) \/ RmFiles(a) \/ RmEnd(a)

----------------------------------------------------------------------------
(* daemon/restart.go: containerRestart                                     *)

\* AutoRemove is off while a running container is stopped.  It is read and
\* written without the mutex.
RestartBegin(a) ==
    /\ At(a, "restart") /\ Unlocked
    /\ mounts' = mounts + 1
    /\ IF c.Running
       THEN /\ autoRemove' = FALSE
            /\ Step(a, [Call(th[a], "containerStop", "restartStopped")
                          EXCEPT !.saved = autoRemove])
       ELSE /\ Step(a, Call(th[a], "containerStart", "restartEnd"))
            /\ UNCHANGED autoRemove
    /\ UNCHANGED <<config, reg, c, mutex, rm, hVars, eVars>>

RestartStopped(a) ==
    /\ At(a, "restartStopped") /\ Unlocked
    /\ autoRemove' = th[a].saved
    /\ Step(a, IF th[a].res = "err" THEN Goto(th[a], "restartEnd")
               ELSE Call(th[a], "containerStart", "restartEnd"))
    /\ UNCHANGED <<config, reg, c, mutex, rm, mounts, hVars, eVars>>

\* Mutant of RestartEnd: without the deferred Unmount.
RestartEndMounted(a) ==
    /\ At(a, "restartEnd")
    /\ JustReturn(a, th[a].res)

\* The deferred Unmount.
RestartEnd(a) ==
    /\ At(a, "restartEnd")
    /\ mounts' = mounts - 1
    /\ Step(a, Return(th[a], th[a].res))
    /\ UNCHANGED <<config, autoRemove, reg, c, mutex, rm, hVars, eVars>>

ContainerRestart(a) == RestartBegin(a) \/ RestartStopped(a) \/ RestartEnd(a)

----------------------------------------------------------------------------
(* daemon/pause.go, unpause.go and libcontainerd's setState: the mutex of  *)
(* the container is held until the event has been processed.               *)

MayPause == c.Running /\ ~c.Paused /\ ~c.Restarting

SetStateBegin(a, state) ==
    /\ At(a, state)
    /\ Unlocked
    /\ IF /\ IF state = "pause" THEN MayPause ELSE c.Paused
          /\ tracked /\ proc # 0
       THEN /\ mutex' = a
            /\ host' = [host EXCEPT !.frozen = (state = "pause")]
            /\ stream' = Append(stream, [type |-> state, code |-> 0])
            /\ Step(a, Goto(th[a], "setState"))
            /\ UNCHANGED <<config, autoRemove, reg, c, rm, mounts, proc,
                           tracked, handling, fns>>
       ELSE JustReturn(a, "err")

\* <-chstate, and the deferred unlock.
SetStateEnd(a) ==
    /\ At(a, "stateSet")
    /\ mutex' = Nobody
    /\ Step(a, Return(th[a], "ok"))
    /\ UNCHANGED <<config, autoRemove, reg, c, rm, mounts, hVars, eVars>>

ContainerPause(a) == \/ \E s \in {"pause", "resume"} : SetStateBegin(a, s)
                     \/ SetStateEnd(a)

\* pauseMonitor.handle: the goroutine that waits for the event goes on.
PauseMonitorHandle(ths) ==
    [a \in Actors |-> IF ths[a].pc = "setState" THEN Goto(ths[a], "stateSet")
                                                 ELSE ths[a]]

----------------------------------------------------------------------------
(* containerd and libcontainerd: the process exits, its events are read in *)
(* order, and each is turned into a queued function.                       *)

\* The init process ends by itself or is killed; a frozen one does not run.
ProcessExit ==
    /\ proc # 0 /\ ~host.frozen
    /\ proc' = 0
    /\ \E code \in (IF host.killed THEN {1} ELSE {0, 1}) :
         stream' = Append(stream, [type |-> "exit", code |-> code])
    /\ UNCHANGED <<config, dVars, host, tracked, handling, fns, th>>

\* handleEventStream: an event of an unknown container is dropped.
EventLookup ==
    /\ handling = <<>> /\ stream # <<>>
    /\ stream' = Tail(stream)
    /\ handling' = IF tracked THEN <<Head(stream)>> ELSE <<>>
    /\ UNCHANGED <<config, dVars, hVars, tracked, fns, th>>

\* Create holds libcontainerd's lock of the container.
Creating == \E a \in Actors : At(a, "stateStart")

\* (ctr *container) handleEvent
HandleEvent ==
    /\ handling # <<>> /\ ~Creating
    /\ tracked' = (tracked /\ handling[1].type # "exit")
    /\ fns' = fns \o handling
    /\ handling' = <<>>
    /\ UNCHANGED <<config, dVars, hVars, stream, th>>

----------------------------------------------------------------------------
(* daemon/monitor.go: StateChanged, run by the queued functions            *)

\* ShouldRestart of the restart manager; StateChanged never passes
\* hasBeenManuallyStopped, so unless-stopped is the same policy as always.
ShouldRestart(code) ==
    /\ ~rm.canceled /\ ~rm.active
    /\ \/ config.policy = "always"
       \/ /\ config.policy = "on-failure" /\ code # 0
          /\ MaxRetry = 0 \/ rm.count < MaxRetry

\* StateExit: the state changes and Cleanup runs under the mutex.  With a
\* restart a goroutine is left to wait for the restart manager; without one
\* the function goes on to autoRemove after the mutex is released.
StateExit ==
    LET code == Head(fns).code
    IN  /\ At(Monitor, "idle") /\ fns # <<>> /\ Head(fns).type = "exit"
        /\ fns' = Tail(fns)
        /\ \/ ~reg /\ UNCHANGED <<dVars, th>>
           \/ /\ reg /\ Unlocked
              /\ mounts' = Cleanup(mounts)
              /\ IF ShouldRestart(code)
                 THEN /\ rm' = [rm EXCEPT !.active = TRUE, !.count = @ + 1]
                      /\ c' = SetRestarting(c, code)
                      /\ th' = [FireWaiters(th, code) EXCEPT ![Restarter] =
                                  [Goto(@, "restartWait") EXCEPT !.code = code]]
                 ELSE /\ c' = SetStopped(c, code)
                      /\ th' = [FireWaiters(th, code) EXCEPT
                                  ![Monitor] = Goto(@, "autoRemove")]
                      /\ UNCHANGED rm
              /\ UNCHANGED <<autoRemove, reg, mutex>>
        /\ UNCHANGED <<config, hVars, tracked, stream, handling>>

\* Mutant of PausedAfter: an unpaused container stays marked.
PausedForever(type) == TRUE

\* The value StatePause and StateResume give to Paused.
PausedAfter(type) == type = "pause"

\* StatePause and StateResume: the goroutine that waits holds the mutex.
StatePauseResume ==
    /\ At(Monitor, "idle") /\ fns # <<>> /\ Head(fns).type # "exit"
    /\ fns' = Tail(fns)
    /\ c' = IF reg THEN [c EXCEPT !.Paused = PausedAfter(Head(fns).type)] ELSE c
    /\ th' = PauseMonitorHandle(th)
    /\ UNCHANGED <<config, autoRemove, reg, mutex, rm, mounts, hVars, tracked,
                   stream, handling>>

\* The deferred autoRemove of StateExit: ContainerRm with ForceRemove.
AutoRemove(a) ==
    /\ At(a, "autoRemove")
    /\ JustStep(a, IF autoRemove
                   THEN [Call(th[a], "rmLookup", "idle") EXCEPT !.force = TRUE]
                   ELSE Goto(th[a], "idle"))

\* The goroutine of StateExit: the restart manager is cancelled, or its timer
\* expires and the container is started.
RestartWait ==
    /\ At(Restarter, "restartWait")
    /\ \/ /\ rm.canceled
          /\ JustStep(Restarter, [Goto(th[Restarter], "restarted")
                                    EXCEPT !.res = "err"])
       \/ /\ rm' = [rm EXCEPT !.active = FALSE]
          /\ Step(Restarter, Call(th[Restarter], "containerStart", "restarted"))
          /\ UNCHANGED <<config, autoRemove, reg, c, mutex, mounts, hVars, eVars>>

\* Without a start the container is stopped after all; the goroutine calls
\* SetStopped without the mutex.
RestartResult ==
    /\ At(Restarter, "restarted")
    /\ IF th[Restarter].res = "ok"
       THEN JustStep(Restarter, Goto(th[Restarter], "idle"))
       ELSE /\ c' = SetStopped(c, th[Restarter].code)
            /\ th' = [FireWaiters(th, th[Restarter].code) EXCEPT
                        ![Restarter] = Goto(@, "autoRemove")]
            /\ UNCHANGED <<config, autoRemove, reg, mutex, rm, mounts, hVars, eVars>>

----------------------------------------------------------------------------
(* The API calls                                                           *)

\* Where a call starts: the operations that test the state first return an
\* error, and change nothing, when the test fails.
Entry(op) ==
    CASE op = "start"   -> IF ~c.Paused /\ ~c.Running THEN "containerStart" ELSE None
      [] op \in {"stop", "stopForever"} -> IF c.Running THEN "containerStop" ELSE None
      [] op = "kill"    -> "kill"
      [] op = "signal"  -> "signal"
      [] op \in {"rm", "rmForce"} -> "rmMark"
      [] op = "restart" -> "restart"
      [] op = "pause"   -> "pause"
      [] op = "unpause" -> "resume"
      [] op = "wait"    -> "waitStop"

\* A request finds the container (GetContainer).  target is the process the
\* request is about.
Request(a) ==
    /\ At(a, "idle") /\ th[a].calls < MaxCalls /\ reg
    /\ \E op \in config.ops :
         /\ op \in {"start", "stop", "stopForever"} => Unlocked
         /\ Entry(op) # None
         /\ JustStep(a, [NewGoroutine EXCEPT
                           !.pc = Entry(op), !.stk = <<"idle">>, !.op = op,
                           !.force = (op = "rmForce"),
                           !.forever = (op = "stopForever"),
                           !.target = proc, !.calls = th[a].calls + 1])

\* ContainerKill with a signal that is not SIGKILL.
SendSignal(a) ==
    /\ At(a, "signal")
    /\ \E sig \in {"stop", "other"} :
         KillWithSignal(a, sig, Return(th[a], "ok"), Return(th[a], "err"))

----------------------------------------------------------------------------
\* A container that was created and never started.
Init ==
    /\ config \in Setups
    /\ autoRemove = config.autoRemove
    /\ reg = TRUE
    /\ c = NewState
    /\ mutex = Nobody
    /\ rm = NewRestartManager
    /\ mounts = 0
    /\ proc = 0
    /\ host = [starts |-> 0, frozen |-> FALSE, killed |-> FALSE]
    /\ tracked = FALSE
    /\ stream = <<>> /\ handling = <<>> /\ fns = <<>>
    /\ th = [a \in Actors |-> NewGoroutine]

\* The steps of goroutine a that it does not choose to take.
Run(a) ==
    \/ WaitStop(a) \/ Kill(a) \/ ContainerStop(a) \/ ContainerStart(a)
    \/ ContainerRm(a) \/ ContainerRestart(a) \/ ContainerPause(a)
    \/ SendSignal(a) \/ AutoRemove(a)

Next ==
    \/ \E a \in Clients : Request(a)
    \/ \E a \in Actors : Run(a)
    \/ ProcessExit \/ EventLookup \/ HandleEvent
    \/ StateExit \/ StatePauseResume
    \/ RestartWait \/ RestartResult

Spec == Init /\ [][Next]_vars

----------------------------------------------------------------------------
(* Properties                                                              *)

Labels == {"idle", "waitStop", "waitChan", "select", "kill", "killSignal",
           "killFailed", "killDirect", "killEnd", "containerStop",
           "stopSignal", "stopFailed", "stopForce", "stopWaited",
           "stopKilled", "stopEnd", "containerStart", "stateStart",
           "startFailed", "rmLookup", "rmMark", "rmCheck", "rmKilled",
           "rmStopped", "rmFiles", "rmEnd", "restart", "restartStopped",
           "restartEnd", "pause", "resume", "setState", "stateSet", "signal",
           "autoRemove", "restartWait", "restarted"}
Pids == 0 .. MaxStarts
Codes == {0, 1, 128}
Events == [type : {"exit", "pause", "resume"}, code : {0, 1}]
Goroutine == [pc : Labels, stk : Seq(Labels), res : {"ok", "err"},
              woken : Codes \cup {Asleep}, timed : BOOLEAN, force : BOOLEAN,
              forever : BOOLEAN, saved : BOOLEAN, code : Codes,
              op : AllOps \cup {None}, target : Pids, calls : 0 .. MaxCalls]

\* The types of the state, of the goroutines and of the event queues.
TypeOK ==
    /\ config \in Setups
    /\ autoRemove \in BOOLEAN /\ reg \in BOOLEAN /\ tracked \in BOOLEAN
    /\ c \in [Running : BOOLEAN, Paused : BOOLEAN, Restarting : BOOLEAN,
              RemovalInProgress : BOOLEAN, Dead : BOOLEAN, Pid : Pids,
              ExitCode : Codes]
    /\ mutex \in Actors \cup {Nobody}
    /\ rm \in [canceled : BOOLEAN, active : BOOLEAN, count : Nat]
    /\ mounts \in Int
    /\ proc \in Pids
    /\ host \in [starts : Pids, frozen : BOOLEAN, killed : BOOLEAN]
    /\ stream \in Seq(Events) /\ handling \in Seq(Events) /\ fns \in Seq(Events)
    /\ th \in [Actors -> Goroutine]

\* No call, event or queued function is in progress.
Quiescent ==
    /\ \A a \in Actors : At(a, "idle")
    /\ stream = <<>> /\ handling = <<>> /\ fns = <<>>

\* Was every write of the container's state to disk bound to succeed?  A start
\* whose write fails leaves a process behind (FailedStartLeavesNothing).
Saved == "disk" \notin config.faults

\* When everything has settled, a registered container's state tells the truth
\* about the host: it is running, under the recorded pid, exactly when the
\* process exists, paused exactly when it is frozen, never restarting, and
\* libcontainerd tracks exactly the containers that have a process.
Agreement ==
    Saved /\ Quiescent /\ reg =>
        /\ c.Running <=> proc # 0
        /\ c.Pid = proc
        /\ c.Paused <=> proc # 0 /\ host.frozen
        /\ ~c.Restarting
        /\ tracked <=> proc # 0

\* The RW layer stays mounted under a running process whatever stops, starts
\* and failed starts surround it, and a settled container holds one mount
\* when it runs and none when it does not.
MountsBalanced ==
    /\ Saved /\ proc # 0 => mounts > 0
    /\ Saved /\ Quiescent /\ reg => mounts = (IF proc # 0 THEN 1 ELSE 0)

\* ContainerRm takes a container out of the daemon only when its process is
\* gone, and no start, restart policy or automatic restart brings one back.
RemovedStaysDown == ~reg => proc = 0

\* A stop, kill or removal that reports success has ended the process that
\* ran when it was called.
StopStops ==
    \A a \in Clients :
        /\ At(a, "idle") /\ th[a].res = "ok"
        /\ th[a].op \in {"stop", "stopForever", "kill", "rm", "rmForce", "restart"}
        => proc = 0 \/ proc # th[a].target

\* Nobody waits on a channel that was already closed and replaced when the
\* container stopped.
WaitersAreWoken ==
    \A a \in Actors : At(a, "select") /\ th[a].woken = Asleep => c.Running

\* WaitStop loses no wake-up as long as every SetStopped runs under the mutex,
\* that is without a restart policy.
NoLostWakeup == config.policy = "no" => WaitersAreWoken

\* Liveness: the goroutines, containerd and libcontainerd keep running, timers
\* expire, and a process that was sent SIGKILL dies once it is not frozen.  No
\* fairness on requests, nor on a process that nobody kills.
Fairness ==
    /\ \A a \in Actors : WF_vars(Run(a))
    /\ WF_vars(ProcessExit /\ host.killed)
    /\ WF_vars(EventLookup) /\ WF_vars(HandleEvent)
    /\ WF_vars(StateExit) /\ WF_vars(StatePauseResume)
    /\ WF_vars(RestartWait) /\ WF_vars(RestartResult)

FairSpec == Spec /\ Fairness


----------------------------------------------------------------------------
(* Statements of the repository that the code does not keep                *)

\* kill.go, killWithSignal: "Telling the monitor that it should exit on its
\* next event loop is enough".  A container that was told so while it was
\* restarting is not started again.
CanceledStaysDown ==
    [][proc' # proc /\ At(Restarter, "containerStart")
         /\ ~At(Restarter, "containerStart")' => ~rm.canceled]_vars

\* restart.go, containerRestart: "set AutoRemove flag to false before stop so
\* the container won't be removed during restart process".
RestartKeepsContainer ==
    \A a \in Clients : th[a].op = "restart" /\ th[a].saved => reg

\* start.go, containerStart: "if we encounter an error during start we need to
\* ensure that any other setup has been cleaned up properly".
FailedStartLeavesNothing ==
    \A a \in Clients :
        At(a, "idle") /\ th[a].op = "start" /\ th[a].res = "err" => proc = 0

\* state.go, WaitStop: "Returns exit code, that was passed to SetStopped".
WaitReturnsExitCode ==
    [][\A a \in Clients :
         /\ At(a, "select") /\ th[a].woken # Asleep
         /\ th'[a].pc # "select" /\ th'[a].res = "ok"
         => th'[a].code = th[a].woken]_vars
=============================================================================
