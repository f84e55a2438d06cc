---------------------- MODULE ContainerLifecycleProofs ----------------------
(***************************************************************************)
(* Proofs about ContainerLifecycle, for any number of clients and calls,   *)
(* any setups and any number of processes.                                 *)
(*                                                                         *)
(* The container is started by one goroutine at a time, and not before the *)
(* exit of the process before it was handled: an exit that is pending      *)
(* keeps Running, which keeps clients away, and the restart goroutine is   *)
(* only there when no exit is pending (CoreOK).  So a goroutine that has   *)
(* found the container stopped, or was woken, knows that the process it    *)
(* has seen is gone (GoneOK), and no process comes back under a removal    *)
(* that holds RemovalInProgress (RemovalOK).                               *)
(***************************************************************************)
EXTENDS ContainerLifecycle, FiniteSetTheorems, SequenceTheorems, TLAPS

----------------------------------------------------------------------------
(* Goroutines                                                              *)

WaitLabels == {"waitStop", "waitChan", "select"}
KillLabels == {"kill", "killSignal", "killFailed", "killDirect", "killEnd"}
StopLabels == {"containerStop", "stopSignal", "stopFailed", "stopForce", "stopWaited",
               "stopKilled", "stopEnd"}
RmBody == {"rmCheck", "rmKilled", "rmStopped", "rmFiles", "rmEnd"}
RmLabels == RmBody \cup {"rmLookup", "rmMark"}
Outermost == {"idle", "autoRemove", "restartWait", "restarted"}

\* What a goroutine is there for.
Role(a, t) == IF a = Monitor THEN "monitor"
              ELSE IF a = Restarter THEN "restarter" ELSE t.op

\* The stacks with which each procedure runs: a request enters it, or another
\* procedure has pushed its return point.
Entered(r, ops) == IF r \in ops THEN {<<"idle">>} ELSE {}
OnTop(l, s) == <<l>> \o s
Push(labels, stacks) == UNION {{OnTop(l, s) : s \in stacks} : l \in labels}
ClientStarts(r) == Entered(r, {"start"}) \cup Push({"restartEnd"}, Entered(r, {"restart"}))
StartStacks(r) == ClientStarts(r) \cup (IF r = "restarter" THEN {<<"restarted">>} ELSE {})
RmStacks(r) == Entered(r, {"rm", "rmForce", "monitor"}) \cup Push({"startFailed"}, ClientStarts(r))
StopStacks(r) == Entered(r, {"stop", "stopForever"})
                   \cup Push({"restartStopped"}, Entered(r, {"restart"}))
                   \cup Push({"rmStopped"}, RmStacks(r))
KillStacks(r) == Entered(r, {"kill"}) \cup Push({"stopKilled"}, StopStacks(r))
                   \cup Push({"rmKilled"}, RmStacks(r))
WaitStacks(r) == Entered(r, {"wait"})
                   \cup Push({"stopFailed", "stopWaited", "stopEnd"}, StopStacks(r))
                   \cup Push({"killFailed", "killDirect", "killEnd"}, KillStacks(r))

StackOK(pc, stk, r) ==
    /\ pc \in Outermost => stk = <<>>
    /\ pc = "autoRemove" => r \in {"monitor", "restarter"}
    /\ pc \in {"restartWait", "restarted"} => r = "restarter"
    /\ pc \in WaitLabels => stk \in WaitStacks(r)
    /\ pc \in KillLabels => stk \in KillStacks(r)
    /\ pc \in StopLabels => stk \in StopStacks(r)
    /\ pc \in {"containerStart", "stateStart"} => stk \in StartStacks(r)
    /\ pc = "startFailed" => stk \in ClientStarts(r)
    /\ pc \in RmLabels => stk \in RmStacks(r)
    /\ pc \in {"restart", "restartStopped", "restartEnd"} => r = "restart" /\ stk = <<"idle">>
    /\ pc \in {"pause", "resume", "setState", "stateSet"} => r \in {"pause", "unpause"} /\ stk = <<"idle">>
    /\ pc = "signal" => r = "signal" /\ stk = <<"idle">>

Rest(s) == {s[i] : i \in DOMAIN s}

\* A goroutine between SetRemovalInProgress and its reset, in what it calls too.
Removing(t) == t.pc \in RmBody \/ Rest(t.stk) \cap RmBody # {}

\* A goroutine that has mounted the layer for containerRestart.
Mounting(t) == t.op = "restart" /\ t.pc \notin {"idle", "restart"}

\* A wait without timeout does not return with an error.
Untimed(t) == t.pc \in WaitLabels /\ Head(t.stk) \in {"killEnd", "stopEnd"} => ~t.timed

\* A goroutine that has seen the container stopped since its call began.
StopOps == {"stop", "stopForever", "kill", "rm", "rmForce", "restart"}
Confirmed(t) ==
    \/ t.pc = "select" /\ t.woken # Asleep
    \/ t.res = "ok" /\ t.pc \in {"killFailed", "killDirect", "stopFailed", "stopWaited",
                                 "stopKilled", "rmKilled", "rmStopped", "restartStopped",
                                 "restartEnd", "rmEnd"}
    \/ t.pc \in {"killEnd", "stopEnd", "rmFiles"}
    \/ t.pc \in {"containerStart", "stateStart"} /\ Head(t.stk) = "restartEnd"
    \/ t.pc = "idle" /\ t.res = "ok" /\ t.op \in StopOps

ThreadOK(a, t) ==
    /\ StackOK(t.pc, t.stk, Role(a, t)) /\ Untimed(t)
    /\ a \in {Monitor, Restarter} => t.op = None
    /\ t.saved => config.policy = "no"
ThreadsOK ==
    /\ \A a \in Actors : ThreadOK(a, th[a])
    /\ autoRemove => config.policy = "no"
    /\ config.policy = "no" => At(Restarter, "idle")

Locking == {"waitChan", "stateStart", "setState", "stateSet"}
MutexOK == \A a \in Actors : th[a].pc \in Locking <=> mutex = a

----------------------------------------------------------------------------
(* Events: at most one pause or resume is under way, and at most one exit, *)
(* which comes after it.                                                   *)

Form(s) ==
    \/ s = <<>>
    \/ \E e \in Events : s = <<e>>
    \/ \E p \in Events, x \in Events : p.type # "exit" /\ x.type = "exit" /\ s = <<p, x>>
HasExit(s) == s # <<>> /\ s[Len(s)].type = "exit"
HasPause(s) == s # <<>> /\ s[1].type # "exit"
PauseFits(s) == HasPause(s) => (s[1].type = "pause" <=> host.frozen)

Unread == HasExit(stream) \/ HasExit(handling)
ExitPending == Unread \/ HasExit(fns)
PausePending == HasPause(stream) \/ HasPause(handling) \/ HasPause(fns)

QueuesOK ==
    /\ Form(stream) /\ Form(handling) /\ Form(fns) /\ Len(handling) < 2
    /\ ~(HasExit(stream) /\ (HasExit(handling) \/ HasExit(fns)))
    /\ ~(HasExit(handling) /\ HasExit(fns))
    /\ ~(HasPause(stream) /\ (HasPause(handling) \/ HasPause(fns)))
    /\ ~(HasPause(handling) /\ HasPause(fns))
    /\ HasPause(stream) => ~HasExit(handling) /\ ~HasExit(fns) /\ tracked
    /\ HasPause(handling) => ~HasExit(fns)
    /\ PauseFits(stream) /\ PauseFits(handling) /\ PauseFits(fns)
    /\ PausePending => ~c.Dead /\ \E a \in Actors : At(a, "setState")
    /\ host.frozen => proc # 0
    /\ ~PausePending => (c.Paused <=> host.frozen)

----------------------------------------------------------------------------
(* The process and what the daemon believes about it                       *)

\* The restart goroutine has a start before it.
RestartDue ==
    \/ th[Restarter].pc \in {"restartWait", "containerStart"}
    \/ At(Restarter, "restarted") /\ th[Restarter].res = "err"

ProcessOK ==
    /\ proc # 0 => proc = host.starts /\ ~ExitPending
    /\ proc # 0 \/ ExitPending => Creating \/ (c.Running /\ ~RestartDue)
    /\ tracked => proc # 0 \/ Unread
    /\ Saved /\ (proc # 0 \/ Unread) => tracked
    /\ Creating => tracked
BeliefOK ==
    /\ RestartDue => ~Creating
    /\ RestartDue \/ At(Restarter, "stateStart") => c.Running /\ c.Restarting /\ c.Pid = 0
    /\ c.Restarting => RestartDue \/ At(Restarter, "stateStart")
    /\ c.Running /\ ~c.Restarting =>
          c.Pid = host.starts /\ (Saved /\ reg => proc # 0 \/ ExitPending)
    /\ ~c.Running => c.Pid = 0 /\ ~c.Restarting /\ ~c.Paused
CoreOK == QueuesOK /\ ProcessOK /\ BeliefOK

----------------------------------------------------------------------------
(* What follows from it for the calls                                      *)

RemovalOK ==
    /\ \A a \in Actors : Removing(th[a]) => c.RemovalInProgress
    /\ \A a, b \in Actors : Removing(th[a]) /\ Removing(th[b]) => a = b
    /\ \A a \in Actors : At(a, "rmFiles") => c.Dead
    /\ ~reg => c.Dead
    /\ c.Dead => proc = 0

Gone(t) == proc = 0 \/ proc # t.target
GoneOK ==
    \A a \in Actors :
        /\ th[a].target <= host.starts
        /\ Confirmed(th[a]) => Gone(th[a]) /\ (Removing(th[a]) => proc = 0)

WaitersOK ==
    config.policy = "no" =>
        \A a \in Actors :
            At(a, "waitChan") \/ (At(a, "select") /\ th[a].woken = Asleep) => c.Running

Mounters == {a \in Actors : Mounting(th[a])}
MountsOK ==
    Saved /\ reg =>
        mounts = Cardinality(Mounters) + (IF tracked \/ HasExit(fns) THEN 1 ELSE 0)

IInv == /\ TypeOK /\ ThreadsOK /\ MutexOK /\ CoreOK
        /\ RemovalOK /\ GoneOK /\ WaitersOK /\ MountsOK

----------------------------------------------------------------------------
(* Calls and returns                                                       *)

\* Putting a return point on a stack, and taking it off.
LEMMA PushPop ==
    ASSUME NEW S, NEW x \in S, NEW s \in Seq(S)
    PROVE  /\ OnTop(x, s) \in Seq(S) /\ OnTop(x, s) # <<>>
           /\ Head(OnTop(x, s)) = x /\ Tail(OnTop(x, s)) = s
           /\ Rest(OnTop(x, s)) = {x} \cup Rest(s)
<1> DEFINE q == OnTop(x, s)
<1>1. q \in Seq(S) /\ Len(q) = Len(s) + 1 /\ q[1] = x
  BY DEF OnTop
<1>2. \A i \in 1 .. Len(s) : q[i + 1] = s[i]
  BY DEF OnTop
<1>3. q # <<>> /\ Head(q) = x
  BY <1>1
<1>4. Tail(q) = s
  <2>1. Tail(q) \in Seq(S) /\ Len(Tail(q)) = Len(s)
    BY <1>1, <1>3
  <2>2. \A i \in 1 .. Len(s) : Tail(q)[i] = s[i]
    BY <1>1, <1>2, <1>3
  <2> QED BY <2>1, <2>2, SeqEqual
<1>5. Rest(q) = {x} \cup Rest(s)
  <2>1. ASSUME NEW y \in Rest(q) PROVE y \in {x} \cup Rest(s)
    <3>1. PICK i \in 1 .. Len(q) : y = q[i]
      BY <1>1, <2>1 DEF Rest
    <3>2. CASE i = 1
      BY <3>1, <3>2, <1>1
    <3>3. CASE i # 1
      <4>1. i - 1 \in 1 .. Len(s) /\ q[(i - 1) + 1] = s[i - 1]
        BY <3>1, <3>3, <1>1, <1>2
      <4> QED BY <4>1, <3>1 DEF Rest
    <3> QED BY <3>2, <3>3
  <2>2. ASSUME NEW y \in {x} \cup Rest(s) PROVE y \in Rest(q)
    <3>1. CASE y = x
      <4>1. 1 \in DOMAIN q
        BY <1>1
      <4> QED BY <4>1, <3>1, <1>1 DEF Rest
    <3>2. CASE y \in Rest(s)
      <4>1. PICK i \in 1 .. Len(s) : y = s[i]
        BY <3>2 DEF Rest
      <4>2. i + 1 \in DOMAIN q /\ q[i + 1] = y
        BY <4>1, <1>1, <1>2
      <4> QED BY <4>2 DEF Rest
    <3> QED BY <3>1, <3>2
  <2> QED BY <2>1, <2>2
<1> QED BY <1>1, <1>3, <1>4, <1>5

LEMMA Bottom ==
    /\ <<"idle">> \in Seq(Labels) /\ <<"idle">> # <<>> /\ Head(<<"idle">>) = "idle"
    /\ Rest(<<"idle">>) = {"idle"}
    /\ <<"restarted">> \in Seq(Labels) /\ Head(<<"restarted">>) = "restarted"
    /\ Tail(<<"restarted">>) = <<>> /\ Rest(<<"restarted">>) = {"restarted"}
    /\ Rest(<<>>) = {}
<1>1. "idle" \in Labels /\ "restarted" \in Labels
  BY DEF Labels
<1> QED BY <1>1 DEF Rest

LEMMA Pushed ==
    ASSUME NEW L, NEW Q, NEW q
    PROVE  q \in Push(L, Q) <=> \E l \in L : \E s \in Q : q = OnTop(l, s)
<1>1. q \in Push(L, Q) <=> \E l \in L : q \in {OnTop(l, s) : s \in Q}
  BY DEF Push
<1>2. \A l \in L : q \in {OnTop(l, s) : s \in Q} <=> \E s \in Q : q = OnTop(l, s)
  OBVIOUS
<1> QED BY <1>1, <1>2

\* Stacks are sequences of labels, and nothing that a removal returns to is a
\* removal itself.
LEMMA StacksAre ==
    ASSUME NEW r
    PROVE  /\ \A s \in ClientStarts(r) : s \in Seq(Labels) /\ Rest(s) \cap RmBody = {}
           /\ \A s \in StartStacks(r) : s \in Seq(Labels) /\ Rest(s) \cap RmBody = {}
           /\ \A s \in RmStacks(r) : s \in Seq(Labels) /\ Rest(s) \cap RmBody = {}
           /\ \A s \in StopStacks(r) : s \in Seq(Labels)
           /\ \A s \in KillStacks(r) : s \in Seq(Labels)
           /\ \A s \in WaitStacks(r) : s \in Seq(Labels)
<1>0. /\ "idle" \notin RmBody /\ "restarted" \notin RmBody
      /\ "restartEnd" \notin RmBody /\ "startFailed" \notin RmBody
  BY DEF RmBody
<1>1. \A ops : \A s \in Entered(r, ops) : s = <<"idle">> /\ s \in Seq(Labels) /\ Rest(s) \cap RmBody = {}
  BY <1>0, Bottom DEF Entered
<1>2. ASSUME NEW L, L \subseteq Labels, NEW Q, \A s \in Q : s \in Seq(Labels)
      PROVE  \A s \in Push(L, Q) : s \in Seq(Labels)
  <2>1. ASSUME NEW q \in Push(L, Q) PROVE q \in Seq(Labels)
    <3>1. PICK l \in L : \E s \in Q : q = OnTop(l, s)
      BY Pushed
    <3> QED BY <3>1, <1>2, PushPop
  <2> QED BY <2>1
<1>3. ASSUME NEW L, L \subseteq Labels, L \cap RmBody = {}, NEW Q,
             \A s \in Q : s \in Seq(Labels) /\ Rest(s) \cap RmBody = {}
      PROVE  \A s \in Push(L, Q) : s \in Seq(Labels) /\ Rest(s) \cap RmBody = {}
  <2> SUFFICES ASSUME NEW q \in Push(L, Q)
               PROVE  q \in Seq(Labels) /\ Rest(q) \cap RmBody = {}
    OBVIOUS
  <2>1. PICK l \in L : \E s \in Q : q = OnTop(l, s)
    BY Pushed
  <2>3. PICK s \in Q : q = OnTop(l, s)
    BY <2>1
  <2>2. Rest(OnTop(l, s)) = {l} \cup Rest(s) /\ OnTop(l, s) \in Seq(Labels)
    BY <1>3, PushPop
  <2> QED BY <2>2, <2>3, <1>3
<1>4. /\ {"restartEnd"} \subseteq Labels /\ {"startFailed"} \subseteq Labels
      /\ {"restartStopped"} \subseteq Labels /\ {"rmStopped"} \subseteq Labels
      /\ {"stopKilled"} \subseteq Labels /\ {"rmKilled"} \subseteq Labels
      /\ {"stopFailed", "stopWaited", "stopEnd"} \subseteq Labels
      /\ {"killFailed", "killDirect", "killEnd"} \subseteq Labels
  BY DEF Labels
<1>5. \A s \in ClientStarts(r) : s \in Seq(Labels) /\ Rest(s) \cap RmBody = {}
  <2>1. \A s \in Push({"restartEnd"}, Entered(r, {"restart"})) : s \in Seq(Labels) /\ Rest(s) \cap RmBody = {}
    <3> HIDE DEF RmBody
    <3> QED BY <1>0, <1>1, <1>3, <1>4
  <2> QED BY <2>1, <1>1 DEF ClientStarts
<1>6. \A s \in StartStacks(r) : s \in Seq(Labels) /\ Rest(s) \cap RmBody = {}
  BY <1>5, <1>0, Bottom DEF StartStacks
<1>7. \A s \in RmStacks(r) : s \in Seq(Labels) /\ Rest(s) \cap RmBody = {}
  <2>1. \A s \in Push({"startFailed"}, ClientStarts(r)) : s \in Seq(Labels) /\ Rest(s) \cap RmBody = {}
    BY <1>0, <1>5, <1>3, <1>4
  <2> QED BY <2>1, <1>1 DEF RmStacks
<1>8. \A s \in StopStacks(r) : s \in Seq(Labels)
  <2>1. \A s \in Push({"restartStopped"}, Entered(r, {"restart"})) : s \in Seq(Labels)
    BY <1>1, <1>2, <1>4
  <2>2. \A s \in Push({"rmStopped"}, RmStacks(r)) : s \in Seq(Labels)
    BY <1>7, <1>2, <1>4
  <2> QED BY <2>1, <2>2, <1>1 DEF StopStacks
<1>9. \A s \in KillStacks(r) : s \in Seq(Labels)
  <2>1. \A s \in Push({"stopKilled"}, StopStacks(r)) : s \in Seq(Labels)
    BY <1>8, <1>2, <1>4
  <2>2. \A s \in Push({"rmKilled"}, RmStacks(r)) : s \in Seq(Labels)
    BY <1>7, <1>2, <1>4
  <2> QED BY <2>1, <2>2, <1>1 DEF KillStacks
<1>10. \A s \in WaitStacks(r) : s \in Seq(Labels)
  <2>1. \A s \in Push({"stopFailed", "stopWaited", "stopEnd"}, StopStacks(r)) : s \in Seq(Labels)
    BY <1>8, <1>2, <1>4
  <2>2. \A s \in Push({"killFailed", "killDirect", "killEnd"}, KillStacks(r)) : s \in Seq(Labels)
    BY <1>9, <1>2, <1>4
  <2> QED BY <2>1, <2>2, <1>1 DEF WaitStacks
<1> QED BY <1>5, <1>6, <1>7, <1>8, <1>9, <1>10

\* The goroutine after a return: to the client, or to the procedure that
\* has pushed the label.
LEMMA ReturnIdle ==
    ASSUME NEW t \in Goroutine, t.stk = <<"idle">>, NEW v \in {"ok", "err"}
    PROVE  LET u == Return(t, v)
           IN  /\ u \in Goroutine /\ u.pc = "idle" /\ u.stk = <<>> /\ u.res = v /\ u.op = t.op
               /\ u.target = t.target /\ u.calls = t.calls /\ u.saved = FALSE /\ u.code = 0
<1>1. Head(t.stk) = "idle"
  BY Bottom
<1>2. /\ NewGoroutine.pc = "idle" /\ NewGoroutine.stk = <<>> /\ NewGoroutine.saved = FALSE
      /\ NewGoroutine.code = 0
  BY DEF NewGoroutine
<1>3. Return(t, v) = [NewGoroutine EXCEPT !.res = v, !.op = t.op, !.target = t.target, !.calls = t.calls]
  BY <1>1 DEF Return
<1>4. "idle" \in Labels /\ <<>> \in Seq(Labels) /\ Asleep \in Codes \cup {Asleep} /\ 0 \in Codes
  BY DEF Labels, Codes
<1>5. t.op \in AllOps \cup {None} /\ t.target \in Pids /\ t.calls \in 0 .. MaxCalls
  BY DEF Goroutine
<1> QED BY <1>2, <1>3, <1>4, <1>5 DEF NewGoroutine, Goroutine

LEMMA ReturnTo ==
    ASSUME NEW t \in Goroutine, NEW l \in Labels, l # "idle", NEW s \in Seq(Labels),
           t.stk = OnTop(l, s), NEW v \in {"ok", "err"}
    PROVE  LET u == Return(t, v)
           IN  /\ u \in Goroutine /\ u.pc = l /\ u.stk = s /\ u.res = v /\ u.op = t.op
               /\ u.target = t.target /\ u.calls = t.calls /\ u.saved = t.saved /\ u.code = t.code
<1>1. Head(t.stk) = l /\ Tail(t.stk) = s
  BY PushPop
<1>2. Return(t, v) = [t EXCEPT !.pc = l, !.stk = s, !.res = v]
  BY <1>1 DEF Return
<1> QED BY <1>2 DEF Goroutine

\* The goroutine in a procedure that it has called.
LEMMA CallIs ==
    ASSUME NEW t \in Goroutine, NEW p \in Labels, NEW l \in Labels
    PROVE  LET u == Call(t, p, l)
           IN  /\ u \in Goroutine /\ u.pc = p /\ u.stk = OnTop(l, t.stk) /\ u.res = t.res
               /\ u.op = t.op /\ u.target = t.target /\ u.calls = t.calls
               /\ u.saved = t.saved /\ u.timed = t.timed
<1>1. t.stk \in Seq(Labels) /\ OnTop(l, t.stk) \in Seq(Labels)
  BY PushPop DEF Goroutine
<1> QED BY <1>1 DEF Call, Goroutine, OnTop

\* What calls and returns leave alone.
Kept(t, u) == u.op = t.op /\ u.target = t.target /\ u.calls = t.calls /\ (u.saved => t.saved)

\* The restart goroutine calls nothing but containerStart.
LEMMA RestarterStacks ==
    /\ ClientStarts("restarter") = {} /\ RmStacks("restarter") = {}
    /\ StopStacks("restarter") = {} /\ KillStacks("restarter") = {} /\ WaitStacks("restarter") = {}
<1>1. \A L : Push(L, {}) = {}
  BY DEF Push
<1>2. ClientStarts("restarter") = {}
  BY <1>1 DEF ClientStarts, Entered
<1>3. RmStacks("restarter") = {}
  BY <1>1, <1>2 DEF RmStacks, Entered
<1>4. StopStacks("restarter") = {}
  BY <1>1, <1>3 DEF StopStacks, Entered
<1>5. KillStacks("restarter") = {}
  BY <1>1, <1>3, <1>4 DEF KillStacks, Entered
<1>6. WaitStacks("restarter") = {}
  BY <1>1, <1>4, <1>5 DEF WaitStacks, Entered
<1> QED BY <1>2, <1>3, <1>4, <1>5, <1>6

LEMMA Roles ==
    ASSUME NEW a, NEW t, NEW u, u.op = t.op
    PROVE  Role(a, u) = Role(a, t)
BY DEF Role

\* The return of a request.
LEMMA ReturnsIdle ==
    ASSUME NEW a \in Actors, NEW t \in Goroutine, ThreadOK(a, t), t.stk = <<"idle">>,
           NEW v \in {"ok", "err"}
    PROVE  LET u == Return(t, v)
           IN  /\ u \in Goroutine /\ ThreadOK(a, u) /\ Kept(t, u) /\ u.res = v /\ u.pc = "idle"
               /\ ~Removing(u) /\ ~Mounting(u) /\ Rest(t.stk) \cap RmBody = {}
<1> DEFINE u == Return(t, v)
<1>1. /\ u \in Goroutine /\ u.pc = "idle" /\ u.stk = <<>> /\ u.res = v /\ u.op = t.op
      /\ u.target = t.target /\ u.calls = t.calls /\ u.saved = FALSE
  BY ReturnIdle
<1> HIDE DEF u
<1>2. StackOK(u.pc, u.stk, Role(a, u)) /\ Untimed(u)
  BY <1>1 DEF StackOK, Outermost, WaitLabels, KillLabels, StopLabels, RmLabels, RmBody, Untimed
<1>3. ThreadOK(a, u)
  BY <1>1, <1>2 DEF ThreadOK
<1>4. Rest(t.stk) \cap RmBody = {} /\ Rest(u.stk) = {}
  BY <1>1, Bottom DEF RmBody
<1>5. ~Removing(u) /\ ~Mounting(u)
  BY <1>1, <1>4 DEF Removing, Mounting, RmBody
<1> QED BY <1>1, <1>3, <1>4, <1>5 DEF Kept, u

\* The return into a procedure that may have that stack.
LEMMA ReturnsTo ==
    ASSUME NEW a \in Actors, NEW t \in Goroutine, ThreadOK(a, t), NEW v \in {"ok", "err"},
           NEW l \in Labels, l \notin {"idle", "restart"} \cup WaitLabels, NEW s \in Seq(Labels),
           t.stk = OnTop(l, s),
           StackOK(l, s, Role(a, t))
    PROVE  LET u == Return(t, v)
           IN  /\ u \in Goroutine /\ ThreadOK(a, u) /\ Kept(t, u) /\ u.res = v /\ u.pc = l
               /\ u.stk = s /\ u.code = t.code /\ Head(t.stk) = l
               /\ Removing(u) <=> Rest(t.stk) \cap RmBody # {}
               /\ Mounting(u) <=> u.op = "restart"
<1> DEFINE u == Return(t, v)
<1>1. /\ u \in Goroutine /\ u.pc = l /\ u.stk = s /\ u.res = v /\ u.op = t.op
      /\ u.target = t.target /\ u.calls = t.calls /\ u.saved = t.saved /\ u.code = t.code
  BY ReturnTo
<1>2. Head(t.stk) = l /\ Tail(t.stk) = s /\ Rest(t.stk) = {l} \cup Rest(s)
  <2>1. /\ Head(OnTop(l, s)) = l /\ Tail(OnTop(l, s)) = s
        /\ Rest(OnTop(l, s)) = {l} \cup Rest(s)
    BY PushPop
  <2> QED BY <2>1
<1> HIDE DEF u
<1>4. StackOK(u.pc, u.stk, Role(a, u))
  BY <1>1, Roles
<1>5. ThreadOK(a, u)
  BY <1>1, <1>4 DEF ThreadOK, Untimed
<1>6. Removing(u) <=> Rest(t.stk) \cap RmBody # {}
  BY <1>1, <1>2 DEF Removing
<1>7. Mounting(u) <=> u.op = "restart"
  BY <1>1 DEF Mounting
<1> QED BY <1>1, <1>2, <1>5, <1>6, <1>7 DEF Kept, u

\* What a return to one of the points in after does to the goroutine.
Returned(a, t, u, v, after) ==
    /\ u \in Goroutine /\ ThreadOK(a, u) /\ Kept(t, u) /\ u.res = v
    /\ u.pc \in after /\ u.pc = Head(t.stk)
    /\ Removing(u) <=> Rest(t.stk) \cap RmBody # {}
    /\ Mounting(u) <=> Mounting(t)

AfterWait == {"idle", "stopFailed", "stopWaited", "stopEnd", "killFailed", "killDirect", "killEnd"}
AfterKill == {"idle", "stopKilled", "rmKilled"}
AfterStop == {"idle", "restartStopped", "rmStopped"}
AfterStart == {"idle", "restartEnd", "restarted"}
AfterRm == {"idle", "startFailed"}

\* A request that runs a procedure itself returns from it to the client.
LEMMA EnteredReturns ==
    ASSUME NEW a \in Actors, NEW t \in Goroutine, ThreadOK(a, t), NEW v \in {"ok", "err"},
           NEW ops, t.stk \in Entered(Role(a, t), ops), "restart" \notin ops, "restarter" \notin ops
    PROVE  /\ Returned(a, t, Return(t, v), v, {"idle"})
           /\ Role(a, t) \in ops /\ a # Restarter
<1>1. t.stk = <<"idle">> /\ Role(a, t) \in ops
  BY DEF Entered
<1>2. t.op # "restart"
  <2>1. "restart" # None
    BY DEF None
  <2> QED BY <1>1, <2>1 DEF ThreadOK, Role
<1>3. a # Restarter
  BY <1>1, GoroutinesOK DEF Role
<1> QED BY <1>1, <1>2, <1>3, ReturnsIdle, Bottom DEF Returned, Mounting

\* A procedure that another one has called returns to it.
LEMMA PushedReturns ==
    ASSUME NEW a \in Actors, NEW t \in Goroutine, NEW v \in {"ok", "err"}, NEW L, NEW Q
    PROVE  /\ ThreadOK(a, t) /\ t.pc \notin {"idle", "restart"}
           /\ L \subseteq Labels /\ L \cap ({"idle", "restart"} \cup WaitLabels) = {}
           /\ \A s \in Q : s \in Seq(Labels)
           /\ t.stk \in Push(L, Q)
           /\ \A l \in L : \A s \in Q : StackOK(l, s, Role(a, t))
           => /\ Returned(a, t, Return(t, v), v, L) /\ Return(t, v).stk \in Q
              /\ Return(t, v).code = t.code
<1>0. SUFFICES ASSUME ThreadOK(a, t), t.pc \notin {"idle", "restart"},
                      L \subseteq Labels, L \cap ({"idle", "restart"} \cup WaitLabels) = {},
                      \A s \in Q : s \in Seq(Labels),
                      t.stk \in Push(L, Q),
                      \A l \in L : \A s \in Q : StackOK(l, s, Role(a, t))
               PROVE  /\ Returned(a, t, Return(t, v), v, L) /\ Return(t, v).stk \in Q
                      /\ Return(t, v).code = t.code
  OBVIOUS
<1>1. PICK q \in Push(L, Q) : q = t.stk
  BY <1>0
<1>2. PICK l \in L : \E s \in Q : q = OnTop(l, s)
  BY <1>0, Pushed
<1>3. PICK s \in Q : t.stk = OnTop(l, s)
  BY <1>1, <1>2
<1>4. l \in Labels /\ l \notin {"idle", "restart"} \cup WaitLabels
  BY <1>0
<1>5. s \in Seq(Labels)
  BY <1>0
<1>6. StackOK(l, s, Role(a, t))
  BY <1>0
<1>7. ThreadOK(a, t)
  BY <1>0
<1>8. PICK u : u = Return(t, v)
  OBVIOUS
<1>9. /\ u \in Goroutine /\ ThreadOK(a, u) /\ Kept(t, u) /\ u.res = v /\ u.pc = l
      /\ u.stk = s /\ u.code = t.code /\ Head(t.stk) = l
      /\ Removing(u) <=> Rest(t.stk) \cap RmBody # {}
      /\ Mounting(u) <=> u.op = "restart"
  BY <1>3, <1>4, <1>5, <1>6, <1>7, <1>8, ReturnsTo
<1>10. Mounting(u) <=> Mounting(t)
  BY <1>0, <1>9 DEF Mounting, Kept
<1> QED BY <1>8, <1>9, <1>10 DEF Returned

\* WaitStop, Kill, containerStop, containerStart and ContainerRm return.
LEMMA WaitReturns ==
    ASSUME NEW a \in Actors, NEW t \in Goroutine, ThreadOK(a, t), NEW v \in {"ok", "err"},
           t.pc \in WaitLabels
    PROVE  /\ Returned(a, t, Return(t, v), v, AfterWait) /\ a # Restarter
           /\ Return(t, v).pc = "idle" => t.op = "wait"
<1> DEFINE r == Role(a, t)
<1>1. t.stk \in WaitStacks(r)
  BY DEF ThreadOK, StackOK
<1>2. a # Restarter
  BY <1>1, RestarterStacks, GoroutinesOK DEF Role
<1>3. t.pc \notin {"idle", "restart"}
  BY DEF WaitLabels
<1>4. CASE t.stk \in Entered(r, {"wait"})
  <2>1. Returned(a, t, Return(t, v), v, {"idle"}) /\ r \in {"wait"}
    BY <1>4, EnteredReturns
  <2>2. t.op = "wait"
    BY <2>1, <1>2 DEF Role
  <2> QED BY <2>1, <2>2, <1>2 DEF Returned, AfterWait
<1>5. CASE t.stk \in Push({"stopFailed", "stopWaited", "stopEnd"}, StopStacks(r))
  <2> DEFINE L == {"stopFailed", "stopWaited", "stopEnd"}
  <2>1. L \subseteq Labels /\ L \cap ({"idle", "restart"} \cup WaitLabels) = {}
    BY DEF Labels, WaitLabels
  <2>2. \A l \in L : \A s \in StopStacks(r) : StackOK(l, s, r)
    BY DEF StackOK, Outermost, WaitLabels, KillLabels, StopLabels, RmLabels, RmBody
  <2>3. Returned(a, t, Return(t, v), v, L)
    <3> HIDE DEF L
    <3> QED BY <1>3, <1>5, <2>1, <2>2, StacksAre, PushedReturns DEF L
  <2> QED BY <2>3, <1>2 DEF Returned, AfterWait
<1>6. CASE t.stk \in Push({"killFailed", "killDirect", "killEnd"}, KillStacks(r))
  <2> DEFINE L == {"killFailed", "killDirect", "killEnd"}
  <2>1. L \subseteq Labels /\ L \cap ({"idle", "restart"} \cup WaitLabels) = {}
    BY DEF Labels, WaitLabels
  <2>2. \A l \in L : \A s \in KillStacks(r) : StackOK(l, s, r)
    BY DEF StackOK, Outermost, WaitLabels, KillLabels, StopLabels, RmLabels, RmBody
  <2>3. Returned(a, t, Return(t, v), v, L)
    <3> HIDE DEF L
    <3> QED BY <1>3, <1>6, <2>1, <2>2, StacksAre, PushedReturns DEF L
  <2> QED BY <2>3, <1>2 DEF Returned, AfterWait
<1> QED BY <1>1, <1>4, <1>5, <1>6 DEF WaitStacks

LEMMA KillReturns ==
    ASSUME NEW a \in Actors, NEW t \in Goroutine, ThreadOK(a, t), NEW v \in {"ok", "err"},
           t.pc \in KillLabels
    PROVE  Returned(a, t, Return(t, v), v, AfterKill) /\ a # Restarter
<1> DEFINE r == Role(a, t)
<1>1. t.stk \in KillStacks(r)
  BY DEF ThreadOK, StackOK
<1>2. a # Restarter
  BY <1>1, RestarterStacks, GoroutinesOK DEF Role
<1>3. t.pc \notin {"idle", "restart"}
  BY DEF KillLabels
<1>4. CASE t.stk \in Entered(r, {"kill"})
  <2>1. Returned(a, t, Return(t, v), v, {"idle"})
    BY <1>4, EnteredReturns
  <2> QED BY <2>1, <1>2 DEF Returned, AfterKill
<1>5. CASE t.stk \in Push({"stopKilled"}, StopStacks(r))
  <2> DEFINE L == {"stopKilled"}
  <2>1. L \subseteq Labels /\ L \cap ({"idle", "restart"} \cup WaitLabels) = {}
    BY DEF Labels, WaitLabels
  <2>2. \A l \in L : \A s \in StopStacks(r) : StackOK(l, s, r)
    BY DEF StackOK, Outermost, WaitLabels, KillLabels, StopLabels, RmLabels, RmBody
  <2>3. Returned(a, t, Return(t, v), v, L) /\ Return(t, v).code = t.code
    <3> HIDE DEF L
    <3> QED BY <1>3, <1>5, <2>1, <2>2, StacksAre, PushedReturns DEF L
  <2> QED BY <2>3, <1>2 DEF Returned, AfterKill
<1>6. CASE t.stk \in Push({"rmKilled"}, RmStacks(r))
  <2> DEFINE L == {"rmKilled"}
  <2>1. L \subseteq Labels /\ L \cap ({"idle", "restart"} \cup WaitLabels) = {}
    BY DEF Labels, WaitLabels
  <2>2. \A l \in L : \A s \in RmStacks(r) : StackOK(l, s, r)
    BY DEF StackOK, Outermost, WaitLabels, KillLabels, StopLabels, RmLabels, RmBody
  <2>3. Returned(a, t, Return(t, v), v, L) /\ Return(t, v).code = t.code
    <3> HIDE DEF L
    <3> QED BY <1>3, <1>6, <2>1, <2>2, StacksAre, PushedReturns DEF L
  <2> QED BY <2>3, <1>2 DEF Returned, AfterKill
<1> QED BY <1>1, <1>4, <1>5, <1>6 DEF KillStacks

LEMMA StopReturns ==
    ASSUME NEW a \in Actors, NEW t \in Goroutine, ThreadOK(a, t), NEW v \in {"ok", "err"},
           t.pc \in StopLabels
    PROVE  Returned(a, t, Return(t, v), v, AfterStop) /\ a # Restarter
<1> DEFINE r == Role(a, t)
<1>1. t.stk \in StopStacks(r)
  BY DEF ThreadOK, StackOK
<1>2. a # Restarter
  BY <1>1, RestarterStacks, GoroutinesOK DEF Role
<1>3. t.pc \notin {"idle", "restart"}
  BY DEF StopLabels
<1>4. CASE t.stk \in Entered(r, {"stop", "stopForever"})
  <2>1. Returned(a, t, Return(t, v), v, {"idle"})
    BY <1>4, EnteredReturns
  <2> QED BY <2>1, <1>2 DEF Returned, AfterStop
<1>7. \A s \in Entered(r, {"restart"}) : s \in Seq(Labels)
  BY Bottom DEF Entered
<1>5. CASE t.stk \in Push({"restartStopped"}, Entered(r, {"restart"}))
  <2> DEFINE L == {"restartStopped"}
  <2>1. L \subseteq Labels /\ L \cap ({"idle", "restart"} \cup WaitLabels) = {}
    BY DEF Labels, WaitLabels
  <2>2. \A l \in L : \A s \in Entered(r, {"restart"}) : StackOK(l, s, r)
    BY DEF Entered, StackOK, Outermost, WaitLabels, KillLabels, StopLabels, RmLabels, RmBody
  <2>3. Returned(a, t, Return(t, v), v, L) /\ Return(t, v).code = t.code
    <3> HIDE DEF L
    <3> QED BY <1>3, <1>5, <2>1, <2>2, <1>7, PushedReturns DEF L
  <2> QED BY <2>3, <1>2 DEF Returned, AfterStop
<1>6. CASE t.stk \in Push({"rmStopped"}, RmStacks(r))
  <2> DEFINE L == {"rmStopped"}
  <2>1. L \subseteq Labels /\ L \cap ({"idle", "restart"} \cup WaitLabels) = {}
    BY DEF Labels, WaitLabels
  <2>2. \A l \in L : \A s \in RmStacks(r) : StackOK(l, s, r)
    BY DEF StackOK, Outermost, WaitLabels, KillLabels, StopLabels, RmLabels, RmBody
  <2>3. Returned(a, t, Return(t, v), v, L) /\ Return(t, v).code = t.code
    <3> HIDE DEF L
    <3> QED BY <1>3, <1>6, <2>1, <2>2, StacksAre, PushedReturns DEF L
  <2> QED BY <2>3, <1>2 DEF Returned, AfterStop
<1> QED BY <1>1, <1>4, <1>5, <1>6 DEF StopStacks

LEMMA StartReturns ==
    ASSUME NEW a \in Actors, NEW t \in Goroutine, ThreadOK(a, t), NEW v \in {"ok", "err"},
           t.pc \in {"containerStart", "stateStart", "startFailed"}
    PROVE  /\ Returned(a, t, Return(t, v), v, AfterStart)
           /\ Return(t, v).pc = "restarted" <=> a = Restarter
           /\ Return(t, v).pc = "idle" => t.op = "start"
           /\ a = Restarter => Return(t, v).code = t.code /\ t.stk \notin ClientStarts(Role(a, t))
<1> DEFINE r == Role(a, t)
<1>1. t.stk \in StartStacks(r)
  BY DEF ThreadOK, StackOK, StartStacks
<1>2. a = Restarter <=> r = "restarter"
  BY GoroutinesOK DEF Role, ThreadOK, Goroutine, AllOps, None, Actors
<1>3. t.pc \notin {"idle", "restart"}
  OBVIOUS
<1>8. a = Restarter => t.stk \notin ClientStarts(r)
  BY <1>2, RestarterStacks
<1>4. CASE t.stk \in Entered(r, {"start"})
  <2>1. Returned(a, t, Return(t, v), v, {"idle"}) /\ r \in {"start"} /\ a # Restarter
    BY <1>4, EnteredReturns
  <2>2. t.op = "start"
    BY <2>1 DEF Role
  <2> QED BY <2>1, <2>2 DEF Returned, AfterStart
<1>7. \A s \in Entered(r, {"restart"}) : s \in Seq(Labels)
  BY Bottom DEF Entered
<1>5. CASE t.stk \in Push({"restartEnd"}, Entered(r, {"restart"}))
  <2> DEFINE L == {"restartEnd"}
  <2>1. L \subseteq Labels /\ L \cap ({"idle", "restart"} \cup WaitLabels) = {}
    BY DEF Labels, WaitLabels
  <2>2. \A l \in L : \A s \in Entered(r, {"restart"}) : StackOK(l, s, r)
    BY DEF Entered, StackOK, Outermost, WaitLabels, KillLabels, StopLabels, RmLabels, RmBody
  <2>3. Returned(a, t, Return(t, v), v, L) /\ Return(t, v).code = t.code
    <3> HIDE DEF L
    <3> QED BY <1>3, <1>5, <2>1, <2>2, <1>7, PushedReturns DEF L
  <2>4. t.stk \in ClientStarts(r)
    BY <1>5 DEF ClientStarts
  <2> QED BY <2>3, <2>4, <1>8 DEF Returned, AfterStart
<1>6. CASE r = "restarter" /\ t.stk = <<"restarted">>
  <2>1. OnTop("restarted", <<>>) = <<"restarted">>
    BY DEF OnTop
  <2>2. StackOK("restarted", <<>>, r)
    BY <1>6 DEF StackOK, Outermost, WaitLabels, KillLabels, StopLabels, RmLabels, RmBody
  <2>3. "restarted" \in Labels /\ "restarted" \notin {"idle", "restart"} \cup WaitLabels
        /\ <<>> \in Seq(Labels)
    BY DEF Labels, WaitLabels
  <2>4. PICK u : u = Return(t, v)
    OBVIOUS
  <2>5. /\ u \in Goroutine /\ ThreadOK(a, u) /\ Kept(t, u) /\ u.res = v /\ u.pc = "restarted"
        /\ u.stk = <<>> /\ u.code = t.code /\ Head(t.stk) = "restarted"
        /\ Removing(u) <=> Rest(t.stk) \cap RmBody # {}
        /\ Mounting(u) <=> u.op = "restart"
    <3>1. PICK l \in Labels, s \in Seq(Labels) : l = "restarted" /\ s = <<>>
      BY <2>3
    <3>2. /\ l \notin {"idle", "restart"} \cup WaitLabels /\ StackOK(l, s, Role(a, t))
          /\ t.stk = OnTop(l, s)
      BY <3>1, <2>1, <2>2, <2>3, <1>6
    <3>3. /\ u \in Goroutine /\ ThreadOK(a, u) /\ Kept(t, u) /\ u.res = v /\ u.pc = l
          /\ u.stk = s /\ u.code = t.code /\ Head(t.stk) = l
          /\ Removing(u) <=> Rest(t.stk) \cap RmBody # {}
          /\ Mounting(u) <=> u.op = "restart"
      BY <3>2, <2>4, ReturnsTo
    <3> QED BY <3>1, <3>3
  <2>6. Mounting(u) <=> Mounting(t)
    BY <2>5, <1>3 DEF Mounting, Kept
  <2> QED BY <1>2, <1>6, <1>8, <2>4, <2>5, <2>6 DEF Returned, AfterStart
<1> QED BY <1>1, <1>4, <1>5, <1>6 DEF StartStacks, ClientStarts

LEMMA RmReturns ==
    ASSUME NEW a \in Actors, NEW t \in Goroutine, ThreadOK(a, t), NEW v \in {"ok", "err"},
           t.pc \in RmLabels
    PROVE  /\ Returned(a, t, Return(t, v), v, AfterRm) /\ a # Restarter
           /\ ~Removing(Return(t, v)) /\ Rest(t.stk) \cap RmBody = {}
<1> DEFINE r == Role(a, t)
<1>1. t.stk \in RmStacks(r)
  BY DEF ThreadOK, StackOK
<1>2. a # Restarter
  BY <1>1, RestarterStacks, GoroutinesOK DEF Role
<1>3. t.pc \notin {"idle", "restart"}
  BY DEF RmLabels, RmBody
<1>7. Rest(t.stk) \cap RmBody = {}
  BY <1>1, StacksAre
<1>4. CASE t.stk \in Entered(r, {"rm", "rmForce", "monitor"})
  <2>1. Returned(a, t, Return(t, v), v, {"idle"})
    BY <1>4, EnteredReturns
  <2> QED BY <2>1, <1>2, <1>7 DEF Returned, AfterRm
<1>5. CASE t.stk \in Push({"startFailed"}, ClientStarts(r))
  <2> DEFINE L == {"startFailed"}
  <2>1. L \subseteq Labels /\ L \cap ({"idle", "restart"} \cup WaitLabels) = {}
    BY DEF Labels, WaitLabels
  <2>2. \A l \in L : \A s \in ClientStarts(r) : StackOK(l, s, r)
    BY DEF StackOK, Outermost, WaitLabels, KillLabels, StopLabels, RmLabels, RmBody
  <2>3. Returned(a, t, Return(t, v), v, L) /\ Return(t, v).code = t.code
    <3> HIDE DEF L
    <3> QED BY <1>3, <1>5, <2>1, <2>2, StacksAre, PushedReturns DEF L
  <2> QED BY <2>3, <1>2, <1>7 DEF Returned, AfterRm
<1> QED BY <1>1, <1>4, <1>5 DEF RmStacks

\* What a step inside a request does to its goroutine.
Local(a, t, u) ==
    /\ u \in Goroutine /\ ThreadOK(a, u) /\ Kept(t, u)
    /\ Removing(u) <=> Removing(t)
    /\ Mounting(u) <=> Mounting(t)

\* A return out of a procedure that is not itself a removal.
LEMMA ReturnedLocal ==
    ASSUME NEW a \in Actors, NEW t \in Goroutine, NEW u, NEW v, NEW after,
           Returned(a, t, u, v, after), t.pc \notin RmBody
    PROVE  Local(a, t, u)
BY DEF Returned, Local, Removing

\* A jump inside a procedure.
LEMMA GotoIs ==
    ASSUME NEW t \in Goroutine, NEW l \in Labels
    PROVE  LET u == Goto(t, l)
           IN  /\ u \in Goroutine /\ u.pc = l /\ u.stk = t.stk /\ u.res = t.res /\ u.op = t.op
               /\ u.target = t.target /\ u.calls = t.calls /\ u.saved = t.saved
               /\ u.timed = t.timed /\ u.woken = t.woken /\ u.code = t.code /\ u.force = t.force
BY DEF Goto, Goroutine

LEMMA JumpLocal ==
    ASSUME NEW a \in Actors, NEW t \in Goroutine, ThreadOK(a, t), NEW u \in Goroutine,
           t.pc \notin {"idle", "restart"}, u.pc \notin {"idle", "restart"} \cup WaitLabels,
           u.pc \in RmBody <=> t.pc \in RmBody,
           u.stk = t.stk, u.op = t.op, u.target = t.target, u.calls = t.calls, u.saved = t.saved,
           StackOK(u.pc, t.stk, Role(a, t))
    PROVE  Local(a, t, u)
<1>1. StackOK(u.pc, u.stk, Role(a, u))
  BY Roles
<1>2. ThreadOK(a, u)
  BY <1>1 DEF ThreadOK, Untimed
<1> QED BY <1>2 DEF Local, Kept, Removing, Mounting

\* A call: the removal that is under way, if any, stays under way.
LEMMA CallLocal ==
    ASSUME NEW a \in Actors, NEW t \in Goroutine, ThreadOK(a, t), NEW u \in Goroutine,
           NEW l \in Labels,
           t.pc \notin {"idle", "restart"}, u.pc \notin {"idle", "restart"} \cup RmBody,
           l \in RmBody <=> t.pc \in RmBody,
           u.stk = OnTop(l, t.stk), u.op = t.op, u.target = t.target, u.calls = t.calls,
           u.saved => t.saved, Untimed(u), StackOK(u.pc, u.stk, Role(a, t))
    PROVE  Local(a, t, u)
<1>1. StackOK(u.pc, u.stk, Role(a, u))
  BY Roles
<1>2. ThreadOK(a, u)
  BY <1>1 DEF ThreadOK
<1>3. Rest(u.stk) = {l} \cup Rest(t.stk)
  <2>1. PICK s \in Seq(Labels) : s = t.stk
    BY DEF Goroutine
  <2>2. Rest(OnTop(l, s)) = {l} \cup Rest(s)
    BY PushPop
  <2> QED BY <2>1, <2>2
<1>4. Removing(u) <=> Removing(t)
  BY <1>3 DEF Removing
<1> QED BY <1>2, <1>4 DEF Local, Kept, Mounting

\* WaitStop is called by Kill and containerStop.
LEMMA WaitCalls ==
    ASSUME NEW a \in Actors, NEW t \in Goroutine, ThreadOK(a, t), NEW l, NEW b \in BOOLEAN,
           \/ t.pc \in KillLabels /\ l \in {"killFailed", "killDirect", "killEnd"}
           \/ t.pc \in StopLabels /\ l \in {"stopFailed", "stopWaited", "stopEnd"},
           l \in {"killEnd", "stopEnd"} => ~b
    PROVE  LET u == [Call(t, "waitStop", l) EXCEPT !.timed = b]
           IN  Local(a, t, u) /\ u.pc = "waitStop"
<1> DEFINE r == Role(a, t)
<1>1. l \in Labels /\ "waitStop" \in Labels /\ l \notin RmBody /\ t.pc \notin RmBody
      /\ t.pc \notin {"idle", "restart"} /\ "waitStop" \notin {"idle", "restart"} \cup RmBody
  BY DEF Labels, RmBody, KillLabels, StopLabels
<1>2. PICK w : w = Call(t, "waitStop", l)
  OBVIOUS
<1>3. /\ w \in Goroutine /\ w.pc = "waitStop" /\ w.stk = OnTop(l, t.stk) /\ w.op = t.op
      /\ w.target = t.target /\ w.calls = t.calls /\ w.saved = t.saved
  BY <1>1, <1>2, CallIs
<1>4. PICK u : u = [w EXCEPT !.timed = b]
  OBVIOUS
<1>5. /\ u \in Goroutine /\ u.pc = "waitStop" /\ u.stk = OnTop(l, t.stk) /\ u.op = t.op
      /\ u.target = t.target /\ u.calls = t.calls /\ u.saved = t.saved /\ u.timed = b
  BY <1>3, <1>4 DEF Goroutine
<1>6. Head(u.stk) = l
  <2>1. PICK s \in Seq(Labels) : s = t.stk
    BY DEF Goroutine
  <2>2. Head(OnTop(l, s)) = l
    BY <1>1, PushPop
  <2> QED BY <1>5, <2>1, <2>2
<1>7. OnTop(l, t.stk) \in WaitStacks(r)
  <2>1. PICK s : s = t.stk
    OBVIOUS
  <2>2. PICK q : q = OnTop(l, s)
    OBVIOUS
  <2>3. CASE t.pc \in KillLabels /\ l \in {"killFailed", "killDirect", "killEnd"}
    <3>1. s \in KillStacks(r)
      BY <2>1, <2>3 DEF ThreadOK, StackOK
    <3>2. q \in Push({"killFailed", "killDirect", "killEnd"}, KillStacks(r))
      BY <2>2, <2>3, <3>1, Pushed
    <3> QED BY <2>1, <2>2, <3>2 DEF WaitStacks
  <2>4. CASE t.pc \in StopLabels /\ l \in {"stopFailed", "stopWaited", "stopEnd"}
    <3>1. s \in StopStacks(r)
      BY <2>1, <2>4 DEF ThreadOK, StackOK
    <3>2. q \in Push({"stopFailed", "stopWaited", "stopEnd"}, StopStacks(r))
      BY <2>2, <2>4, <3>1, Pushed
    <3> QED BY <2>1, <2>2, <3>2 DEF WaitStacks
  <2> QED BY <2>3, <2>4
<1>8. StackOK(u.pc, u.stk, r)
  BY <1>5, <1>7 DEF StackOK, Outermost, WaitLabels, KillLabels, StopLabels, RmLabels, RmBody
<1>9. Untimed(u)
  BY <1>5, <1>6 DEF Untimed
<1>10. Local(a, t, u)
  BY <1>1, <1>5, <1>8, <1>9, CallLocal
<1> QED BY <1>2, <1>4, <1>5, <1>10

----------------------------------------------------------------------------
(* A step of one goroutine: what each part of the invariant asks of it     *)

LEMMA ThreadsKept ==
    ASSUME TypeOK, ThreadsOK, NEW a \in Actors, NEW u,
           th' = [th EXCEPT ![a] = u], ThreadOK(a, u), config' = config,
           autoRemove' => config.policy = "no",
           a = Restarter => config.policy # "no" \/ u.pc = "idle"
    PROVE  ThreadsOK'
<1>1. th'[a] = u /\ \A b \in Actors : b # a => th'[b] = th[b]
  BY DEF TypeOK
<1>2. \A b \in Actors : ThreadOK(b, th'[b])
  BY <1>1 DEF ThreadsOK
<1>3. \A b \in Actors : ThreadOK(b, th[b])'
  BY <1>2 DEF ThreadOK
<1>4. (config.policy = "no" => At(Restarter, "idle"))'
  BY <1>1 DEF ThreadsOK, At, Actors
<1> QED BY <1>3, <1>4 DEF ThreadsOK

LEMMA MutexKept ==
    ASSUME TypeOK, MutexOK, NEW a \in Actors, NEW u, th' = [th EXCEPT ![a] = u],
           u.pc \in Locking <=> mutex' = a,
           \A b \in Actors : b # a => (mutex' = b <=> mutex = b)
    PROVE  MutexOK'
<1>1. th'[a] = u /\ \A b \in Actors : b # a => th'[b] = th[b]
  BY DEF TypeOK
<1> QED BY <1>1 DEF MutexOK

\* What the core looks at beside the state of the container.
SameView ==
    /\ Creating' <=> Creating
    /\ RestartDue' <=> RestartDue
    /\ At(Restarter, "stateStart")' <=> At(Restarter, "stateStart")
    /\ (\E b \in Actors : At(b, "setState")) => (\E b \in Actors : At(b, "setState"))'

LEMMA ViewKept ==
    ASSUME TypeOK, NEW a \in Actors, NEW u, th' = [th EXCEPT ![a] = u],
           th[a].pc \notin {"stateStart", "setState"}, u.pc # "stateStart",
           a = Restarter => (RestartDue' <=> RestartDue)
    PROVE  SameView
<1>1. th'[a] = u /\ \A b \in Actors : b # a => th'[b] = th[b]
  BY DEF TypeOK
<1>2. Restarter \in Actors
  BY DEF Actors
<1>3. Creating' <=> Creating
  BY <1>1 DEF Creating, At
<1>4. RestartDue' <=> RestartDue
  <2>1. CASE a = Restarter
    BY <2>1
  <2>2. CASE a # Restarter
    BY <2>2, <1>1, <1>2 DEF RestartDue, At
  <2> QED BY <2>1, <2>2
<1>5. At(Restarter, "stateStart")' <=> At(Restarter, "stateStart")
  BY <1>1, <1>2 DEF At
<1>6. (\E b \in Actors : At(b, "setState")) => (\E b \in Actors : At(b, "setState"))'
  BY <1>1 DEF At
<1> QED BY <1>3, <1>4, <1>5, <1>6 DEF SameView

LEMMA CoreKept ==
    ASSUME TypeOK, CoreOK, SameView,
           UNCHANGED <<config, proc, eVars>>, reg' => reg,
           host'.starts = host.starts, host'.frozen = host.frozen,
           c'.Running = c.Running, c'.Paused = c.Paused, c'.Restarting = c.Restarting,
           c'.Pid = c.Pid, PausePending /\ c'.Dead => c.Dead
    PROVE  CoreOK'
<1>1. UNCHANGED <<stream, handling, fns, tracked>>
  BY DEF eVars
<1>2. /\ Unread' <=> Unread
      /\ ExitPending' <=> ExitPending
      /\ PausePending' <=> PausePending
  BY <1>1 DEF Unread, ExitPending, PausePending, HasExit, HasPause
<1>3. QueuesOK'
  <2>1. /\ (PauseFits(stream) /\ PauseFits(handling) /\ PauseFits(fns))'
        /\ (Form(stream) /\ Form(handling) /\ Form(fns) /\ Len(handling) < 2)'
    BY <1>1 DEF CoreOK, QueuesOK, PauseFits, HasPause, Form
  <2>2. (PausePending => ~c.Dead /\ \E a \in Actors : At(a, "setState"))'
    BY <1>2 DEF CoreOK, QueuesOK, SameView
  <2>3. /\ (host.frozen => proc # 0)'
        /\ (~PausePending => (c.Paused <=> host.frozen))'
    BY <1>2 DEF CoreOK, QueuesOK
  <2>4. /\ HasExit(stream)' <=> HasExit(stream)
        /\ HasExit(handling)' <=> HasExit(handling)
        /\ HasExit(fns)' <=> HasExit(fns)
        /\ HasPause(stream)' <=> HasPause(stream)
        /\ HasPause(handling)' <=> HasPause(handling)
        /\ HasPause(fns)' <=> HasPause(fns)
    BY <1>1 DEF HasExit, HasPause
  <2> QED BY <1>1, <2>1, <2>2, <2>3, <2>4 DEF CoreOK, QueuesOK
<1>4. ProcessOK'
  BY <1>1, <1>2 DEF CoreOK, ProcessOK, SameView, Saved
<1>5. BeliefOK'
  BY <1>2 DEF CoreOK, BeliefOK, SameView, Saved
<1> QED BY <1>3, <1>4, <1>5 DEF CoreOK

LEMMA RemovalKept ==
    ASSUME TypeOK, RemovalOK, NEW a \in Actors, NEW u, th' = [th EXCEPT ![a] = u],
           Removing(u) <=> Removing(th[a]), u.pc # "rmFiles",
           UNCHANGED <<reg, proc>>, c'.RemovalInProgress = c.RemovalInProgress, c'.Dead = c.Dead
    PROVE  RemovalOK'
<1>1. th'[a] = u /\ \A b \in Actors : b # a => th'[b] = th[b]
  BY DEF TypeOK
<1>2. \A b \in Actors : Removing(th'[b]) <=> Removing(th[b])
  BY <1>1
<1>3. \A b \in Actors : At(b, "rmFiles")' => At(b, "rmFiles")
  BY <1>1 DEF At
<1> QED BY <1>2, <1>3 DEF RemovalOK

LEMMA GoneKept ==
    ASSUME TypeOK, GoneOK, NEW a \in Actors, NEW u, th' = [th EXCEPT ![a] = u],
           u.target <= host.starts,
           Confirmed(u) => Gone(u) /\ (Removing(u) => proc = 0),
           proc' = proc, host'.starts = host.starts
    PROVE  GoneOK'
<1>1. th'[a] = u /\ \A b \in Actors : b # a => th'[b] = th[b]
  BY DEF TypeOK
<1>2. \A b \in Actors : /\ th'[b].target <= host.starts
                        /\ Confirmed(th'[b]) => Gone(th'[b]) /\ (Removing(th'[b]) => proc = 0)
  BY <1>1 DEF GoneOK
<1> QED BY <1>2 DEF GoneOK, Gone

LEMMA WaitersKept ==
    ASSUME TypeOK, WaitersOK, NEW a \in Actors, NEW u, th' = [th EXCEPT ![a] = u],
           u.pc \notin {"waitChan", "select"}, config' = config, c'.Running = c.Running
    PROVE  WaitersOK'
<1>1. th'[a] = u /\ \A b \in Actors : b # a => th'[b] = th[b]
  BY DEF TypeOK
<1> QED BY <1>1 DEF WaitersOK, At

LEMMA MountersFinite ==
    IsFiniteSet(Mounters) /\ Cardinality(Mounters) \in Nat
<1>1. IsFiniteSet(Clients \cup {Monitor})
  BY GoroutinesOK, FS_AddElement
<1>2. IsFiniteSet((Clients \cup {Monitor}) \cup {Restarter})
  BY <1>1, FS_AddElement
<1>3. Actors = (Clients \cup {Monitor}) \cup {Restarter}
  BY DEF Actors
<1>4. IsFiniteSet(Actors) /\ Mounters \subseteq Actors
  BY <1>2, <1>3 DEF Mounters
<1>5. IsFiniteSet(Mounters)
  BY <1>4, FS_Subset
<1> QED BY <1>5, FS_CardinalityType

LEMMA MountsKept ==
    ASSUME TypeOK, MountsOK, NEW a \in Actors, NEW u, th' = [th EXCEPT ![a] = u],
           Mounting(u) <=> Mounting(th[a]), UNCHANGED <<config, mounts, tracked, fns>>, reg' => reg
    PROVE  MountsOK'
<1>1. th'[a] = u /\ \A b \in Actors : b # a => th'[b] = th[b]
  BY DEF TypeOK
<1>2. Mounters' = Mounters
  BY <1>1 DEF Mounters
<1>3. HasExit(fns)' <=> HasExit(fns)
  BY DEF HasExit
<1> QED BY <1>2, <1>3 DEF MountsOK, Saved

\* A step that only moves a goroutine: beside it the exit code, the restart
\* manager, a pending SIGKILL and AutoRemove may change.
Aside ==
    /\ UNCHANGED <<config, reg, mutex, mounts, proc, eVars>>
    /\ autoRemove' \in BOOLEAN /\ (autoRemove' => config.policy = "no")
    /\ host' \in [starts : Pids, frozen : BOOLEAN, killed : BOOLEAN]
    /\ host'.starts = host.starts /\ host'.frozen = host.frozen
    /\ rm' \in [canceled : BOOLEAN, active : BOOLEAN, count : Nat]
    /\ c' \in [Running : BOOLEAN, Paused : BOOLEAN, Restarting : BOOLEAN,
               RemovalInProgress : BOOLEAN, Dead : BOOLEAN, Pid : Pids, ExitCode : Codes]
    /\ c'.Running = c.Running /\ c'.Paused = c.Paused /\ c'.Restarting = c.Restarting
    /\ c'.Pid = c.Pid /\ c'.Dead = c.Dead /\ c'.RemovalInProgress = c.RemovalInProgress

LEMMA AsideNothing ==
    ASSUME TypeOK, ThreadsOK, UNCHANGED <<config, dVars, hVars, eVars>>
    PROVE  Aside
BY DEF TypeOK, ThreadsOK, Aside, dVars, hVars

LEMMA Plain ==
    ASSUME IInv, NEW a \in Actors, NEW t, NEW u, t = th[a], Local(a, t, u), Aside,
           th' = [th EXCEPT ![a] = u],
           t.pc \notin Locking, u.pc \notin Locking \cup {"select", "rmFiles"},
           Confirmed(u) => Gone(u) /\ (Removing(u) => proc = 0),
           a = Restarter => config.policy # "no" /\ (RestartDue' <=> RestartDue)
    PROVE  IInv'
<1> USE DEF IInv
<1>0. u \in Goroutine /\ ThreadOK(a, u) /\ Kept(t, u) /\ (Removing(u) <=> Removing(t)) /\ (Mounting(u) <=> Mounting(t))
  BY DEF Local
<1>1. TypeOK'
  <2>1. th' \in [Actors -> Goroutine]
    BY <1>0 DEF TypeOK
  <2>2. /\ config' \in Setups /\ autoRemove' \in BOOLEAN /\ reg' \in BOOLEAN /\ tracked' \in BOOLEAN
        /\ mutex' \in Actors \cup {Nobody} /\ mounts' \in Int /\ proc' \in Pids
        /\ stream' \in Seq(Events) /\ handling' \in Seq(Events) /\ fns' \in Seq(Events)
    BY DEF Aside, TypeOK, eVars
  <2> QED BY <2>1, <2>2 DEF TypeOK, Aside
<1>2. ThreadsOK'
  BY <1>0, ThreadsKept DEF Aside
<1>3. MutexOK'
  <2>1. mutex' = mutex /\ mutex # a /\ u.pc \notin Locking
    BY DEF Aside, MutexOK
  <2> QED BY <2>1, MutexKept
<1>4. CoreOK'
  <2>1. SameView
    BY ViewKept DEF Locking
  <2> QED BY <2>1, CoreKept DEF Aside
<1>5. RemovalOK'
  BY <1>0, RemovalKept DEF Aside
<1>6. GoneOK'
  <2>1. u.target <= host.starts
    BY <1>0 DEF Kept, GoneOK
  <2> QED BY <2>1, GoneKept DEF Aside
<1>7. WaitersOK'
  BY WaitersKept DEF Aside, Locking
<1>8. MountsOK'
  <2>1. UNCHANGED <<config, mounts, tracked, fns>> /\ (reg' => reg)
    BY DEF Aside, eVars
  <2> QED BY <1>0, <2>1, MountsKept
<1> QED BY <1>1, <1>2, <1>3, <1>4, <1>5, <1>6, <1>7, <1>8

\* What a goroutine that looks at the container without the mutex in the way
\* knows.
LEMMA StoppedIsDown ==
    ASSUME IInv, Unlocked, ~c.Running
    PROVE  proc = 0 /\ ~RestartDue /\ ~Creating
<1>1. \A a \in Actors : ~At(a, "stateStart")
  BY GoroutinesOK DEF IInv, MutexOK, Unlocked, Locking, At, Actors
<1>2. ~Creating /\ ~RestartDue
  BY <1>1 DEF Creating, IInv, CoreOK, BeliefOK
<1> QED BY <1>2 DEF IInv, CoreOK, ProcessOK

LEMMA OtherPidIsDown ==
    ASSUME IInv, c.Pid # 0, c.Pid # proc
    PROVE  proc = 0
BY DEF IInv, CoreOK, ProcessOK, BeliefOK

----------------------------------------------------------------------------
(* WaitStop                                                                *)

LEMMA Actor ==
    ASSUME IInv, NEW a \in Actors
    PROVE  th[a] \in Goroutine /\ ThreadOK(a, th[a]) /\ th[a].target <= host.starts
BY DEF IInv, TypeOK, ThreadsOK, GoneOK

\* The exit code is a local that nothing depends on.
LEMMA CodedLocal ==
    ASSUME NEW a \in Actors, NEW t \in Goroutine, NEW w, Local(a, t, w), NEW x \in Codes
    PROVE  LET u == [w EXCEPT !.code = x]
           IN  Local(a, t, u) /\ u.pc = w.pc /\ u.res = w.res /\ u.stk = w.stk
               /\ u.op = w.op /\ u.woken = w.woken
<1>1. PICK u : u = [w EXCEPT !.code = x]
  OBVIOUS
<1>2. w \in Goroutine
  BY DEF Local
<1>3. /\ u \in Goroutine /\ u.pc = w.pc /\ u.stk = w.stk /\ u.res = w.res /\ u.op = w.op
      /\ u.target = w.target /\ u.calls = w.calls /\ u.saved = w.saved /\ u.timed = w.timed
      /\ u.woken = w.woken
  BY <1>1, <1>2 DEF Goroutine
<1>4. ThreadOK(a, u)
  BY <1>3 DEF Local, ThreadOK, Role, Untimed
<1>5. Local(a, t, u)
  BY <1>3, <1>4 DEF Local, Kept, Removing, Mounting
<1> QED BY <1>1, <1>3, <1>5

\* A wait that ends well has seen the container stopped.
LEMMA WaitEnds ==
    ASSUME IInv, NEW a \in Actors, th[a].pc \in {"waitStop", "select"},
           Step(a, [Return(th[a], "ok") EXCEPT !.code = c.ExitCode]),
           Gone(th[a]) /\ (Removing(th[a]) => proc = 0),
           UNCHANGED <<config, dVars, hVars, eVars>>
    PROVE  IInv'
<1>1. PICK t : t = th[a]
  OBVIOUS
<1>2. t \in Goroutine /\ ThreadOK(a, t) /\ t.pc \in {"waitStop", "select"}
  BY <1>1, Actor
<1>3. PICK w : w = Return(t, "ok")
  OBVIOUS
<1>4. Returned(a, t, w, "ok", AfterWait) /\ a # Restarter
  BY <1>2, <1>3, WaitReturns DEF WaitLabels
<1>5. Local(a, t, w)
  BY <1>2, <1>4, ReturnedLocal DEF RmBody
<1>6. PICK u : u = [w EXCEPT !.code = c.ExitCode]
  OBVIOUS
<1>7. c.ExitCode \in Codes
  BY DEF IInv, TypeOK
<1>8. Local(a, t, u) /\ u.pc = w.pc /\ u.res = w.res
  BY <1>2, <1>5, <1>6, <1>7, CodedLocal
<1>9. th' = [th EXCEPT ![a] = u]
  BY <1>1, <1>3, <1>6 DEF Step
<1>10. Gone(u) /\ (Removing(u) => proc = 0)
  BY <1>1, <1>8 DEF Local, Kept, Gone
<1>11. t.pc \notin Locking /\ u.pc \notin Locking \cup {"select", "rmFiles"}
  BY <1>2, <1>4, <1>8 DEF Returned, AfterWait, Locking
<1>12. Aside
  BY AsideNothing DEF IInv
<1> QED BY <1>1, <1>4, <1>8, <1>9, <1>10, <1>11, <1>12, Plain

\* The timeout of a wait expires.
LEMMA WaitTimesOut ==
    ASSUME IInv, NEW a \in Actors, At(a, "select"), th[a].timed, JustReturn(a, "err")
    PROVE  IInv'
<1>1. PICK t : t = th[a]
  OBVIOUS
<1>2. t \in Goroutine /\ ThreadOK(a, t) /\ t.pc = "select" /\ t.timed
  BY <1>1, Actor DEF At
<1>3. PICK u : u = Return(t, "err")
  OBVIOUS
<1>4. Returned(a, t, u, "err", AfterWait) /\ a # Restarter
  BY <1>2, <1>3, WaitReturns DEF WaitLabels
<1>5. Local(a, t, u)
  BY <1>2, <1>4, ReturnedLocal DEF RmBody
<1>6. u.res = "err" /\ u.pc \notin {"killEnd", "stopEnd"}
  BY <1>2, <1>4 DEF Returned, ThreadOK, Untimed, WaitLabels
<1>7. ~Confirmed(u)
  BY <1>4, <1>6 DEF Confirmed, Returned, AfterWait
<1>8. th' = [th EXCEPT ![a] = u] /\ Aside
  BY <1>1, <1>3, AsideNothing DEF Step, JustReturn, IInv
<1>9. t.pc \notin Locking /\ u.pc \notin Locking \cup {"select", "rmFiles"}
  BY <1>2, <1>4 DEF Returned, AfterWait, Locking
<1> QED BY <1>1, <1>4, <1>5, <1>7, <1>8, <1>9, Plain

\* The steps of a wait that take and release the mutex.
LEMMA WaitMoves ==
    ASSUME IInv, NEW a \in Actors, NEW u \in Goroutine, NEW t, t = th[a],
           t.pc \in WaitLabels, u.pc \in {"waitChan", "select"},
           u.stk = t.stk, u.op = t.op, u.target = t.target, u.calls = t.calls,
           u.saved = t.saved, u.timed = t.timed, u.woken = Asleep \/ u.pc = "waitChan",
           th' = [th EXCEPT ![a] = u],
           u.pc = "waitChan" <=> mutex' = a,
           mutex' \in Actors \cup {Nobody},
           \A b \in Actors : b # a => (mutex' = b <=> mutex = b),
           config.policy = "no" => c.Running,
           UNCHANGED <<config, autoRemove, reg, c, rm, mounts, hVars, eVars>>
    PROVE  IInv'
<1> USE DEF IInv
<1>1. t \in Goroutine /\ ThreadOK(a, t) /\ t.target <= host.starts
  BY Actor
<1>2. UNCHANGED <<stream, handling, fns, tracked, proc, host>>
  BY DEF eVars, hVars
<1>3. ThreadOK(a, u)
  BY <1>1 DEF ThreadOK, StackOK, Role, Untimed, Outermost, WaitLabels, KillLabels, StopLabels, RmLabels, RmBody
<1>4. a # Restarter
  BY <1>1, WaitReturns
<1>5. (Removing(u) <=> Removing(t)) /\ (Mounting(u) <=> Mounting(t))
  BY DEF Removing, Mounting, RmBody, WaitLabels
<1>6. ~Confirmed(u)
  BY DEF Confirmed
<1>7. TypeOK'
  BY <1>2 DEF TypeOK
<1>8. ThreadsOK'
  <2>1. autoRemove' => config.policy = "no"
    BY DEF ThreadsOK
  <2> QED BY <1>3, <1>4, <2>1, ThreadsKept
<1>9. MutexOK'
  <2>1. u.pc \in Locking <=> mutex' = a
    BY DEF Locking
  <2> QED BY <2>1, MutexKept
<1>10. CoreOK'
  <2>1. SameView
    BY <1>4, ViewKept DEF WaitLabels
  <2> QED BY <1>2, <2>1, CoreKept
<1>11. RemovalOK'
  BY <1>2, <1>5, RemovalKept
<1>12. GoneOK'
  BY <1>1, <1>2, <1>6, GoneKept
<1>13. WaitersOK'
  <2>1. th'[a] = u /\ \A b \in Actors : b # a => th'[b] = th[b]
    BY DEF TypeOK
  <2> QED BY <2>1 DEF WaitersOK, At
<1>14. MountsOK'
  BY <1>2, <1>5, MountsKept
<1> QED BY <1>7, <1>8, <1>9, <1>10, <1>11, <1>12, <1>13, <1>14

LEMMA WaitStopKeeps ==
    ASSUME IInv, NEW a \in Actors, WaitStop(a)
    PROVE  IInv'
<1>0. PICK t : t = th[a]
  OBVIOUS
<1>1. t \in Goroutine
  BY <1>0, Actor
<1>2. "waitChan" \in Labels /\ "select" \in Labels /\ Asleep \in Codes \cup {Asleep}
  BY DEF Labels
<1>3. Nobody \notin Actors
  BY GoroutinesOK DEF Actors
<1>4. CASE WaitCheck(a) /\ c.Running
  <2>1. PICK u : u = Goto(t, "waitChan")
    OBVIOUS
  <2>2. /\ u \in Goroutine /\ u.pc = "waitChan" /\ u.stk = t.stk /\ u.op = t.op
        /\ u.target = t.target /\ u.calls = t.calls /\ u.saved = t.saved /\ u.timed = t.timed
    BY <1>1, <1>2, <2>1, GotoIs
  <2>3. /\ mutex' = a /\ mutex = Nobody /\ th' = [th EXCEPT ![a] = u] /\ t.pc = "waitStop"
        /\ UNCHANGED <<config, autoRemove, reg, c, rm, mounts, hVars, eVars>>
    BY <1>0, <1>4, <2>1 DEF WaitCheck, Step, Unlocked, At
  <2> QED BY <1>0, <1>3, <1>4, <2>2, <2>3, WaitMoves DEF WaitLabels
<1>5. CASE WaitCheck(a) /\ ~c.Running
  <2>1. /\ th[a].pc \in {"waitStop", "select"} /\ Unlocked
        /\ Step(a, [Return(th[a], "ok") EXCEPT !.code = c.ExitCode])
        /\ UNCHANGED <<config, dVars, hVars, eVars>>
    BY <1>5 DEF WaitCheck, At
  <2>2. proc = 0
    BY <1>5, <2>1, StoppedIsDown
  <2> QED BY <2>1, <2>2, WaitEnds DEF Gone
<1>6. CASE WaitReadChan(a)
  <2>1. PICK w : w = Goto(t, "select")
    OBVIOUS
  <2>2. /\ w \in Goroutine /\ w.pc = "select" /\ w.stk = t.stk /\ w.op = t.op
        /\ w.target = t.target /\ w.calls = t.calls /\ w.saved = t.saved /\ w.timed = t.timed
    BY <1>1, <1>2, <2>1, GotoIs
  <2>3. PICK u : u = [w EXCEPT !.woken = Asleep]
    OBVIOUS
  <2>4. /\ u \in Goroutine /\ u.pc = "select" /\ u.stk = t.stk /\ u.op = t.op
        /\ u.target = t.target /\ u.calls = t.calls /\ u.saved = t.saved /\ u.timed = t.timed
        /\ u.woken = Asleep
    BY <1>2, <2>2, <2>3 DEF Goroutine
  <2>5. /\ mutex' = Nobody /\ th' = [th EXCEPT ![a] = u] /\ t.pc = "waitChan"
        /\ UNCHANGED <<config, autoRemove, reg, c, rm, mounts, hVars, eVars>>
    BY <1>0, <1>6, <2>1, <2>3 DEF WaitReadChan, Step, At
  <2>6. mutex = a
    BY <1>0, <2>5 DEF IInv, MutexOK, Locking
  <2>7. config.policy = "no" => c.Running
    BY <1>0, <2>5 DEF IInv, WaitersOK, At
  <2>8. \A b \in Actors : b # a => (mutex' = b <=> mutex = b)
    BY <1>3, <2>5, <2>6
  <2>9. mutex' # a
    BY <1>3, <2>5
  <2> QED BY <1>0, <2>4, <2>5, <2>7, <2>8, <2>9, WaitMoves DEF WaitLabels
<1>7. CASE WaitSelect(a)
  <2>1. CASE /\ th[a].woken # Asleep /\ Unlocked
             /\ JustStep(a, [Return(th[a], "ok") EXCEPT !.code = c.ExitCode])
    <3>1. Confirmed(th[a]) /\ th[a].pc = "select"
      BY <1>7, <2>1 DEF WaitSelect, At, Confirmed
    <3>2. Gone(th[a]) /\ (Removing(th[a]) => proc = 0)
      BY <3>1 DEF IInv, GoneOK
    <3> QED BY <2>1, <3>1, <3>2, WaitEnds DEF JustStep
  <2>2. CASE th[a].timed /\ JustReturn(a, "err")
    BY <1>7, <2>2, WaitTimesOut DEF WaitSelect
  <2> QED BY <1>7, <2>1, <2>2 DEF WaitSelect
<1> QED BY <1>4, <1>5, <1>6, <1>7 DEF WaitStop

----------------------------------------------------------------------------
(* Kill and containerStop                                                  *)

\* A step that claims no more than the goroutine knew, or the state shows.
LEMMA Move ==
    ASSUME IInv, NEW a \in Actors, NEW t, NEW u, t = th[a], Local(a, t, u), Aside,
           th' = [th EXCEPT ![a] = u],
           t.pc \notin Locking, u.pc \notin Locking \cup {"select", "rmFiles"},
           Confirmed(u) => Confirmed(t) \/ proc = 0, a # Restarter
    PROVE  IInv'
<1>1. Confirmed(t) => Gone(t) /\ (Removing(t) => proc = 0)
  BY DEF IInv, GoneOK
<1>2. Confirmed(u) => Gone(u) /\ (Removing(u) => proc = 0)
  BY <1>1 DEF Local, Kept, Gone
<1> QED BY <1>2, Plain

\* A signal goes to the process, or cannot.
LEMMA SignalAside ==
    ASSUME IInv, NEW a \in Actors, NEW sig, NEW v, NEW w, KillWithSignal(a, sig, v, w)
    PROVE  Aside /\ (th' = [th EXCEPT ![a] = v] \/ th' = [th EXCEPT ![a] = w])
<1>1. /\ rm \in [canceled : BOOLEAN, active : BOOLEAN, count : Nat]
      /\ host \in [starts : Pids, frozen : BOOLEAN, killed : BOOLEAN]
      /\ autoRemove \in BOOLEAN /\ (autoRemove => config.policy = "no")
      /\ c \in [Running : BOOLEAN, Paused : BOOLEAN, Restarting : BOOLEAN,
                RemovalInProgress : BOOLEAN, Dead : BOOLEAN, Pid : Pids, ExitCode : Codes]
  BY DEF IInv, TypeOK, ThreadsOK
<1>2. UNCHANGED <<config, autoRemove, reg, c, mutex, mounts, proc, eVars>>
  BY DEF KillWithSignal
<1>3. rm' \in [canceled : BOOLEAN, active : BOOLEAN, count : Nat]
  BY <1>1 DEF KillWithSignal
<1>4. /\ host' \in [starts : Pids, frozen : BOOLEAN, killed : BOOLEAN]
      /\ host'.starts = host.starts /\ host'.frozen = host.frozen
  BY <1>1 DEF KillWithSignal
<1>5. th' = [th EXCEPT ![a] = v] \/ th' = [th EXCEPT ![a] = w]
  BY DEF KillWithSignal, Step
<1> QED BY <1>1, <1>2, <1>3, <1>4, <1>5 DEF Aside

\* The goroutine comes to wait for the stop.
LEMMA WaitBegins ==
    ASSUME IInv, NEW a \in Actors, NEW t, t = th[a], NEW l, NEW b \in BOOLEAN,
           \/ t.pc \in KillLabels /\ l \in {"killFailed", "killDirect", "killEnd"}
           \/ t.pc \in StopLabels /\ l \in {"stopFailed", "stopWaited", "stopEnd"},
           l \in {"killEnd", "stopEnd"} => ~b,
           NEW u, u = [Call(t, "waitStop", l) EXCEPT !.timed = b],
           th' = [th EXCEPT ![a] = u], Aside
    PROVE  IInv'
<1>1. t \in Goroutine /\ ThreadOK(a, t)
  BY Actor
<1>3. Local(a, t, u) /\ u.pc = "waitStop"
  BY <1>1, WaitCalls
<1>4. a # Restarter
  BY <1>1, KillReturns, StopReturns
<1>5. ~Confirmed(u)
  BY <1>3 DEF Confirmed
<1>6. t.pc \notin Locking /\ u.pc \notin Locking \cup {"select", "rmFiles"}
  BY <1>3 DEF Locking, KillLabels, StopLabels
<1> QED BY <1>3, <1>4, <1>5, <1>6, Move

\* Kill and containerStop return: with an error, or with what they know.
LEMMA KillOrStopReturns ==
    ASSUME IInv, NEW a \in Actors, NEW t, t = th[a], NEW v \in {"ok", "err"},
           t.pc \in KillLabels \cup StopLabels,
           v = "ok" => Confirmed(t) \/ proc = 0,
           NEW u, u = Return(t, v), th' = [th EXCEPT ![a] = u], Aside
    PROVE  IInv'
<1>1. t \in Goroutine /\ ThreadOK(a, t)
  BY Actor
<1>3. Returned(a, t, u, v, AfterKill \cup AfterStop) /\ a # Restarter
  BY <1>1, KillReturns, StopReturns DEF Returned
<1>4. Local(a, t, u)
  <2>1. t.pc \notin RmBody
    BY DEF RmBody, KillLabels, StopLabels
  <2> QED BY <1>1, <1>3, <2>1, ReturnedLocal
<1>5. v = "err" => ~Confirmed(u)
  BY <1>3 DEF Returned, Confirmed, AfterKill, AfterStop
<1>6. t.pc \notin Locking /\ u.pc \notin Locking \cup {"select", "rmFiles"}
  BY <1>3 DEF Returned, Locking, KillLabels, StopLabels, AfterKill, AfterStop
<1> QED BY <1>3, <1>4, <1>5, <1>6, Move

\* Kill and containerStop go on.
LEMMA KillOrStopGoes ==
    ASSUME IInv, NEW a \in Actors, NEW t, t = th[a], NEW l,
           \/ t.pc \in KillLabels /\ l = "killSignal"
           \/ t.pc \in StopLabels /\ l \in {"stopSignal", "stopForce"},
           th' = [th EXCEPT ![a] = Goto(t, l)], Aside
    PROVE  IInv'
<1>1. t \in Goroutine /\ ThreadOK(a, t) /\ l \in Labels
  BY Actor DEF Labels
<1>2. PICK u : u = Goto(t, l)
  OBVIOUS
<1>3. /\ u \in Goroutine /\ u.pc = l /\ u.stk = t.stk /\ u.op = t.op
      /\ u.target = t.target /\ u.calls = t.calls /\ u.saved = t.saved
  BY <1>1, <1>2, GotoIs
<1>4. StackOK(u.pc, t.stk, Role(a, t))
  BY <1>1, <1>3 DEF ThreadOK, StackOK, Outermost, WaitLabels, KillLabels, StopLabels, RmLabels, RmBody
<1>5. /\ t.pc \notin {"idle", "restart"} /\ u.pc \notin {"idle", "restart"} \cup WaitLabels
      /\ u.pc \notin RmBody /\ t.pc \notin RmBody
  BY <1>3 DEF WaitLabels, KillLabels, StopLabels, RmBody
<1>6. Local(a, t, u)
  BY <1>1, <1>3, <1>4, <1>5, JumpLocal
<1>7. ~Confirmed(u)
  BY <1>3 DEF Confirmed
<1>8. t.pc \notin Locking /\ u.pc \notin Locking \cup {"select", "rmFiles"}
  BY <1>3 DEF Locking, KillLabels, StopLabels
<1>9. a # Restarter
  BY <1>1, KillReturns, StopReturns
<1> QED BY <1>2, <1>6, <1>7, <1>8, <1>9, Move

\* containerStop calls Kill.
LEMMA StopCallsKill ==
    ASSUME IInv, NEW a \in Actors, NEW t, t = th[a], t.pc = "stopWaited", Aside,
           NEW u, u = Call(t, "kill", "stopKilled"), th' = [th EXCEPT ![a] = u]
    PROVE  IInv'
<1>1. t \in Goroutine /\ ThreadOK(a, t) /\ "kill" \in Labels /\ "stopKilled" \in Labels
  BY Actor DEF Labels
<1>2. /\ u \in Goroutine /\ u.pc = "kill" /\ u.stk = OnTop("stopKilled", t.stk) /\ u.op = t.op
      /\ u.target = t.target /\ u.calls = t.calls /\ u.saved = t.saved
  BY <1>1, CallIs
<1>3. PICK s : s = t.stk
  OBVIOUS
<1>4. s \in StopStacks(Role(a, t))
  BY <1>1, <1>3 DEF ThreadOK, StackOK, StopLabels
<1>5. PICK q : q = OnTop("stopKilled", s)
  OBVIOUS
<1>6. q \in Push({"stopKilled"}, StopStacks(Role(a, t)))
  BY <1>4, <1>5, Pushed
<1>7. StackOK(u.pc, u.stk, Role(a, t))
  BY <1>2, <1>3, <1>5, <1>6 DEF KillStacks, StackOK, Outermost, WaitLabels, KillLabels, StopLabels, RmLabels, RmBody
<1>8. PICK l \in Labels : l = "stopKilled"
  BY <1>1
<1>9. /\ u.pc \notin {"idle", "restart"} \cup RmBody /\ l \notin RmBody /\ t.pc \notin RmBody
      /\ t.pc \notin {"idle", "restart"} /\ Untimed(u) /\ u.stk = OnTop(l, t.stk)
  BY <1>2, <1>8 DEF RmBody, Untimed, WaitLabels
<1>10. Local(a, t, u)
  BY <1>1, <1>2, <1>7, <1>9, CallLocal
<1>11. /\ ~Confirmed(u) /\ t.pc \notin Locking /\ u.pc \notin Locking \cup {"select", "rmFiles"}
  BY <1>2 DEF Confirmed, Locking
<1>12. a # Restarter
  BY <1>1, StopReturns DEF StopLabels
<1> QED BY <1>10, <1>11, <1>12, Move

LEMMA KillKeeps ==
    ASSUME IInv, NEW a \in Actors, Kill(a)
    PROVE  IInv'
<1>0. PICK t : t = th[a]
  OBVIOUS
<1>1. /\ \A u : u = Return(t, "err") /\ t.pc \in KillLabels /\ th' = [th EXCEPT ![a] = u] /\ Aside => IInv'
      /\ \A u : u = Return(t, "ok") /\ t.pc \in KillLabels /\ th' = [th EXCEPT ![a] = u] /\ Aside
                /\ (Confirmed(t) \/ proc = 0) => IInv'
  BY <1>0, KillOrStopReturns
<1>2. ASSUME NEW l \in {"killFailed", "killDirect"}, NEW u, t.pc \in KillLabels, Aside,
             u = [Call(t, "waitStop", l) EXCEPT !.timed = TRUE], th' = [th EXCEPT ![a] = u]
      PROVE  IInv'
  <2>1. PICK b \in BOOLEAN : b = TRUE
    OBVIOUS
  <2>2. u = [Call(t, "waitStop", l) EXCEPT !.timed = b]
    BY <1>2, <2>1
  <2>3. l \in {"killFailed", "killDirect", "killEnd"} /\ (l \in {"killEnd", "stopEnd"} => ~b)
    OBVIOUS
  <2> QED BY <1>0, <1>2, <2>2, <2>3, WaitBegins
<1>3. CASE KillCheck(a)
  <2>1. t.pc \in KillLabels
    BY <1>0, <1>3 DEF KillCheck, At, KillLabels
  <2>2. Aside
    BY <1>3, AsideNothing DEF KillCheck, JustStep, JustReturn, IInv
  <2>3. th' = [th EXCEPT ![a] = Goto(t, "killSignal")] \/ th' = [th EXCEPT ![a] = Return(t, "err")]
    BY <1>0, <1>3 DEF KillCheck, JustStep, JustReturn, Step
  <2> QED BY <1>0, <1>1, <2>1, <2>2, <2>3, KillOrStopGoes
<1>4. CASE KillSignal(a)
  <2>1. t.pc \in KillLabels
    BY <1>0, <1>4 DEF KillSignal, At, KillLabels
  <2>2. PICK v, w : /\ v = [Call(t, "waitStop", "killDirect") EXCEPT !.timed = TRUE]
                    /\ w = [Call(t, "waitStop", "killFailed") EXCEPT !.timed = TRUE]
    OBVIOUS
  <2>3. KillWithSignal(a, "KILL", v, w)
    BY <1>0, <1>4, <2>2 DEF KillSignal, WaitFor
  <2>4. Aside /\ (th' = [th EXCEPT ![a] = v] \/ th' = [th EXCEPT ![a] = w])
    BY <2>3, SignalAside
  <2> QED BY <1>2, <2>1, <2>2, <2>4
<1>5. CASE KillFailed(a)
  <2>1. t.pc \in KillLabels
    BY <1>0, <1>5 DEF KillFailed, At, KillLabels
  <2>2. Aside
    BY <1>5, AsideNothing DEF KillFailed, JustStep, JustReturn, IInv
  <2>3. PICK v, w : /\ v = [Call(t, "waitStop", "killDirect") EXCEPT !.timed = TRUE]
                    /\ w = Return(t, "err")
    OBVIOUS
  <2>4. th' = [th EXCEPT ![a] = v] \/ th' = [th EXCEPT ![a] = w]
    BY <1>0, <1>5, <2>3 DEF KillFailed, JustStep, JustReturn, Step, WaitFor
  <2> QED BY <1>1, <1>2, <2>1, <2>2, <2>3, <2>4
<1>6. CASE KillDirect(a)
  <2>1. t.pc \in KillLabels
    BY <1>0, <1>6 DEF KillDirect, At, KillLabels
  <2>2. Aside
    <3>1. CASE UNCHANGED <<config, dVars, hVars, eVars>>
      BY <3>1, AsideNothing DEF IInv
    <3>2. CASE /\ UNCHANGED <<config, dVars, proc, eVars>>
               /\ host' = [host EXCEPT !.killed = TRUE]
      <4>1. /\ host' \in [starts : Pids, frozen : BOOLEAN, killed : BOOLEAN]
            /\ host'.starts = host.starts /\ host'.frozen = host.frozen
        BY <3>2 DEF IInv, TypeOK
      <4> QED BY <3>2, <4>1 DEF Aside, dVars, IInv, TypeOK, ThreadsOK
    <3> QED BY <1>6, <3>1, <3>2 DEF KillDirect, JustStep, hVars
  <2>3. PICK v, w : /\ v = [Call(t, "waitStop", "killEnd") EXCEPT !.timed = FALSE]
                    /\ w = Return(t, "ok")
    OBVIOUS
  <2>4. \/ th' = [th EXCEPT ![a] = v]
        \/ th' = [th EXCEPT ![a] = w] /\ c.Pid # 0 /\ c.Pid # proc
    BY <1>0, <1>6, <2>3 DEF KillDirect, JustStep, Step, WaitForever
  <2>5. c.Pid # 0 /\ c.Pid # proc => proc = 0
    BY OtherPidIsDown
  <2>6. CASE th' = [th EXCEPT ![a] = v]
    BY <1>0, <2>1, <2>2, <2>3, <2>6, WaitBegins
  <2> QED BY <1>1, <2>1, <2>2, <2>3, <2>4, <2>5, <2>6
<1>7. CASE KillEnd(a)
  <2>1. t.pc \in KillLabels /\ Confirmed(t)
    BY <1>0, <1>7 DEF KillEnd, At, KillLabels, Confirmed
  <2>2. Aside /\ th' = [th EXCEPT ![a] = Return(t, "ok")]
    BY <1>0, <1>7, AsideNothing DEF KillEnd, JustReturn, Step, IInv
  <2> QED BY <1>1, <2>1, <2>2
<1> QED BY <1>3, <1>4, <1>5, <1>6, <1>7 DEF Kill

LEMMA StopKeeps ==
    ASSUME IInv, NEW a \in Actors, ContainerStop(a)
    PROVE  IInv'
<1>0. PICK t : t = th[a]
  OBVIOUS
<1>1. /\ \A u : u = Return(t, "err") /\ t.pc \in StopLabels /\ th' = [th EXCEPT ![a] = u] /\ Aside => IInv'
      /\ \A u : u = Return(t, "ok") /\ t.pc \in StopLabels /\ th' = [th EXCEPT ![a] = u] /\ Aside
                /\ (Confirmed(t) \/ proc = 0) => IInv'
  BY <1>0, KillOrStopReturns
<1>2. ASSUME NEW b \in BOOLEAN, NEW l \in {"stopFailed", "stopWaited"}, NEW u,
             t.pc \in StopLabels, Aside,
             u = [Call(t, "waitStop", l) EXCEPT !.timed = b], th' = [th EXCEPT ![a] = u]
      PROVE  IInv'
  <2>1. l \in {"stopFailed", "stopWaited", "stopEnd"} /\ (l \in {"killEnd", "stopEnd"} => ~b)
    OBVIOUS
  <2> QED BY <1>0, <1>2, <2>1, WaitBegins
<1>3. PICK b \in BOOLEAN : b = ~t.forever
  OBVIOUS
<1>4. PICK z : z = [Call(t, "waitStop", "stopWaited") EXCEPT !.timed = b]
  OBVIOUS
<1>5. z = WaitSeconds(t)
  BY <1>3, <1>4 DEF WaitSeconds
<1>6. t.pc \in StopLabels /\ th' = [th EXCEPT ![a] = z] /\ Aside => IInv'
  BY <1>2, <1>4
<1>7. CASE StopCheck(a)
  <2>1. t.pc \in StopLabels
    BY <1>0, <1>7 DEF StopCheck, At, StopLabels
  <2>2. Aside
    BY <1>7, AsideNothing DEF StopCheck, JustStep, JustReturn, IInv
  <2>3. \/ th' = [th EXCEPT ![a] = Goto(t, "stopSignal")]
        \/ th' = [th EXCEPT ![a] = Return(t, "ok")] /\ Unlocked /\ ~c.Running
    BY <1>0, <1>7 DEF StopCheck, JustStep, JustReturn, Step
  <2>4. Unlocked /\ ~c.Running => proc = 0
    BY StoppedIsDown
  <2> QED BY <1>0, <1>1, <2>1, <2>2, <2>3, <2>4, KillOrStopGoes
<1>8. CASE StopSignal(a)
  <2>1. t.pc \in StopLabels
    BY <1>0, <1>8 DEF StopSignal, At, StopLabels
  <2>2. PICK w : w = [Call(t, "waitStop", "stopFailed") EXCEPT !.timed = TRUE]
    OBVIOUS
  <2>3. KillWithSignal(a, "stop", z, w)
    BY <1>0, <1>5, <1>8, <2>2 DEF StopSignal, WaitFor
  <2>4. Aside /\ (th' = [th EXCEPT ![a] = z] \/ th' = [th EXCEPT ![a] = w])
    BY <2>3, SignalAside
  <2> QED BY <1>2, <1>6, <2>1, <2>2, <2>4
<1>9. CASE StopFailed(a)
  <2>1. t.pc \in StopLabels
    BY <1>0, <1>9 DEF StopFailed, At, StopLabels
  <2>2. Aside
    BY <1>9, AsideNothing DEF StopFailed, JustStep, IInv
  <2>3. th' = [th EXCEPT ![a] = Goto(t, "stopForce")] \/ th' = [th EXCEPT ![a] = z]
    BY <1>0, <1>5, <1>9 DEF StopFailed, JustStep, Step
  <2> QED BY <1>0, <1>6, <2>1, <2>2, <2>3, KillOrStopGoes
<1>10. CASE StopForce(a)
  <2>1. t.pc \in StopLabels
    BY <1>0, <1>10 DEF StopForce, At, StopLabels
  <2>2. PICK w : w = Return(t, "err")
    OBVIOUS
  <2>3. KillWithSignal(a, "KILL", z, w)
    BY <1>0, <1>5, <1>10, <2>2 DEF StopForce
  <2>4. Aside /\ (th' = [th EXCEPT ![a] = z] \/ th' = [th EXCEPT ![a] = w])
    BY <2>3, SignalAside
  <2> QED BY <1>1, <1>6, <2>1, <2>2, <2>4
<1>11. CASE StopWaited(a)
  <2>1. t.pc \in StopLabels /\ t.pc = "stopWaited" /\ (t.res = "ok" => Confirmed(t))
    BY <1>0, <1>11 DEF StopWaited, At, StopLabels, Confirmed
  <2>2. Aside
    BY <1>11, AsideNothing DEF StopWaited, JustStep, JustReturn, IInv
  <2>3. PICK v, w : v = Return(t, "ok") /\ w = Call(t, "kill", "stopKilled")
    OBVIOUS
  <2>4. \/ th' = [th EXCEPT ![a] = v] /\ t.res = "ok"
        \/ th' = [th EXCEPT ![a] = w]
    BY <1>0, <1>11, <2>3 DEF StopWaited, JustStep, JustReturn, Step
  <2>5. CASE th' = [th EXCEPT ![a] = w]
    BY <1>0, <2>1, <2>2, <2>3, <2>5, StopCallsKill
  <2> QED BY <1>1, <2>1, <2>2, <2>3, <2>4, <2>5
<1>12. CASE StopKilled(a)
  <2>1. t.pc \in StopLabels /\ (t.res = "ok" => Confirmed(t))
    BY <1>0, <1>12 DEF StopKilled, At, StopLabels, Confirmed
  <2>2. Aside
    BY <1>12, AsideNothing DEF StopKilled, JustStep, JustReturn, IInv
  <2>3. PICK v, w : /\ v = Return(t, "ok")
                    /\ w = [Call(t, "waitStop", "stopEnd") EXCEPT !.timed = FALSE]
    OBVIOUS
  <2>4. \/ th' = [th EXCEPT ![a] = v] /\ t.res = "ok"
        \/ th' = [th EXCEPT ![a] = w]
    BY <1>0, <1>12, <2>3 DEF StopKilled, JustStep, JustReturn, Step, WaitForever
  <2>5. CASE th' = [th EXCEPT ![a] = w]
    BY <1>0, <2>1, <2>2, <2>3, <2>5, WaitBegins
  <2> QED BY <1>1, <2>1, <2>2, <2>3, <2>4, <2>5
<1>13. CASE StopEnd(a)
  <2>1. t.pc \in StopLabels /\ Confirmed(t)
    BY <1>0, <1>13 DEF StopEnd, At, StopLabels, Confirmed
  <2>2. Aside /\ th' = [th EXCEPT ![a] = Return(t, "ok")]
    BY <1>0, <1>13, AsideNothing DEF StopEnd, JustReturn, Step, IInv
  <2> QED BY <1>1, <2>1, <2>2
<1> QED BY <1>7, <1>8, <1>9, <1>10, <1>11, <1>12, <1>13 DEF ContainerStop

----------------------------------------------------------------------------
(* ContainerRm                                                             *)

\* The steps that mark the container, dead or not, registered or not.
LEMMA RmMoves ==
    ASSUME IInv, NEW a \in Actors, NEW t, NEW u \in Goroutine, t = th[a], ThreadOK(a, u), Kept(t, u),
           Mounting(u) <=> Mounting(t), th' = [th EXCEPT ![a] = u], a # Restarter,
           t.pc \notin Locking, u.pc \notin Locking \cup {"select"},
           Confirmed(u) => Gone(u) /\ (Removing(u) => proc = 0),
           UNCHANGED <<config, autoRemove, mutex, rm, mounts, hVars, eVars>>,
           c' \in [Running : BOOLEAN, Paused : BOOLEAN, Restarting : BOOLEAN,
                   RemovalInProgress : BOOLEAN, Dead : BOOLEAN, Pid : Pids, ExitCode : Codes],
           c'.Running = c.Running, c'.Paused = c.Paused, c'.Restarting = c.Restarting,
           c'.Pid = c.Pid, PausePending /\ c'.Dead => c.Dead,
           reg' \in BOOLEAN, reg' => reg, RemovalOK'
    PROVE  IInv'
<1> USE DEF IInv
<1>1. UNCHANGED <<stream, handling, fns, tracked, proc, host>>
  BY DEF eVars, hVars
<1>2. TypeOK'
  BY <1>1 DEF TypeOK
<1>3. ThreadsOK'
  <2>1. autoRemove' => config.policy = "no"
    BY DEF ThreadsOK
  <2> QED BY <2>1, ThreadsKept
<1>4. MutexOK'
  <2>1. mutex' = mutex /\ mutex # a /\ u.pc \notin Locking
    BY DEF MutexOK
  <2> QED BY <2>1, MutexKept
<1>5. CoreOK'
  <2>1. SameView
    BY ViewKept DEF Locking
  <2> QED BY <1>1, <2>1, CoreKept
<1>6. GoneOK'
  <2>1. u.target <= host.starts
    BY DEF Kept, GoneOK
  <2> QED BY <1>1, <2>1, GoneKept
<1>7. WaitersOK'
  BY WaitersKept DEF Locking
<1>8. MountsOK'
  BY <1>1, MountsKept
<1> QED BY <1>2, <1>3, <1>4, <1>5, <1>6, <1>7, <1>8

LEMMA RmJump ==
    ASSUME NEW a \in Actors, NEW t \in Goroutine, ThreadOK(a, t), NEW u \in Goroutine,
           t.pc \in RmLabels, u.pc \in RmLabels,
           u.stk = t.stk, u.op = t.op, u.target = t.target, u.calls = t.calls, u.saved = t.saved
    PROVE  /\ ThreadOK(a, u) /\ Kept(t, u) /\ (Mounting(u) <=> Mounting(t)) /\ a # Restarter
           /\ (u.pc \in RmBody <=> t.pc \in RmBody) => Local(a, t, u)
<1>1. StackOK(u.pc, t.stk, Role(a, t))
  BY DEF ThreadOK, StackOK, Outermost, WaitLabels, KillLabels, StopLabels, RmLabels, RmBody
<1>2. StackOK(u.pc, u.stk, Role(a, u))
  BY <1>1, Roles
<1>3. ThreadOK(a, u)
  BY <1>2 DEF ThreadOK, Untimed, WaitLabels, RmLabels, RmBody
<1>4. (Mounting(u) <=> Mounting(t)) /\ Kept(t, u)
  BY DEF Mounting, Kept, RmLabels, RmBody
<1>5. a # Restarter
  BY RmReturns
<1>6. (u.pc \in RmBody <=> t.pc \in RmBody) => Local(a, t, u)
  BY <1>3, <1>4 DEF Local, Removing
<1> QED BY <1>3, <1>4, <1>5, <1>6

\* A jump inside a removal.
LEMMA RmGoes ==
    ASSUME IInv, NEW a \in Actors, NEW t, t = th[a], t.pc \in RmLabels,
           NEW l \in RmLabels \ {"rmFiles"}, NEW v \in {"ok", "err"},
           l \in RmBody <=> t.pc \in RmBody,
           l = "rmEnd" /\ v = "ok" => Confirmed(t) \/ proc = 0,
           l \in {"rmMark", "rmEnd"},
           NEW u, u = [Goto(t, l) EXCEPT !.res = v], th' = [th EXCEPT ![a] = u], Aside
    PROVE  IInv'
<1>1. t \in Goroutine /\ ThreadOK(a, t) /\ l \in Labels
  BY Actor DEF Labels
<1>2. PICK w : w = Goto(t, l)
  OBVIOUS
<1>3. /\ w \in Goroutine /\ w.pc = l /\ w.stk = t.stk /\ w.op = t.op
      /\ w.target = t.target /\ w.calls = t.calls /\ w.saved = t.saved
  BY <1>1, <1>2, GotoIs
<1>4. /\ u \in Goroutine /\ u.pc = l /\ u.stk = t.stk /\ u.op = t.op /\ u.res = v
      /\ u.target = t.target /\ u.calls = t.calls /\ u.saved = t.saved
  BY <1>2, <1>3 DEF Goroutine
<1>5. Local(a, t, u) /\ a # Restarter
  BY <1>1, <1>4, RmJump
<1>6. Confirmed(u) => Confirmed(t) \/ proc = 0
  BY <1>4 DEF Confirmed
<1>7. t.pc \notin Locking /\ u.pc \notin Locking \cup {"select", "rmFiles"}
  BY <1>4 DEF Locking, RmLabels, RmBody
<1> QED BY <1>4, <1>5, <1>6, <1>7, Move

\* A removal calls containerStop or Kill.
LEMMA RmCalls ==
    ASSUME IInv, NEW a \in Actors, NEW t, t = th[a], t.pc \in RmBody, Aside, NEW u,
           u = Call(t, "containerStop", "rmStopped") \/ u = Call(t, "kill", "rmKilled"),
           th' = [th EXCEPT ![a] = u]
    PROVE  IInv'
<1>0. PICK p, l : /\ \/ p = "containerStop" /\ l = "rmStopped"
                     \/ p = "kill" /\ l = "rmKilled"
                  /\ u = Call(t, p, l)
  OBVIOUS
<1>1. t \in Goroutine /\ ThreadOK(a, t) /\ p \in Labels /\ l \in Labels /\ l \in RmBody
  BY <1>0, Actor DEF Labels, RmBody
<1>2. /\ u \in Goroutine /\ u.pc = p /\ u.stk = OnTop(l, t.stk) /\ u.op = t.op
      /\ u.target = t.target /\ u.calls = t.calls /\ u.saved = t.saved
  BY <1>0, <1>1, CallIs
<1>3. PICK s : s = t.stk
  OBVIOUS
<1>4. s \in RmStacks(Role(a, t))
  BY <1>1, <1>3 DEF ThreadOK, StackOK, RmLabels
<1>5. PICK q : q = OnTop(l, s)
  OBVIOUS
<1>6. q \in Push({l}, RmStacks(Role(a, t)))
  BY <1>4, <1>5, Pushed
<1>7. StackOK(u.pc, u.stk, Role(a, t))
  <2>1. u.stk = q
    BY <1>2, <1>3, <1>5
  <2>2. CASE p = "containerStop" /\ l = "rmStopped"
    BY <1>2, <1>6, <2>1, <2>2 DEF StopStacks, StackOK, Outermost, WaitLabels, KillLabels, StopLabels, RmLabels, RmBody
  <2>3. CASE p = "kill" /\ l = "rmKilled"
    BY <1>2, <1>6, <2>1, <2>3 DEF KillStacks, StackOK, Outermost, WaitLabels, KillLabels, StopLabels, RmLabels, RmBody
  <2> QED BY <1>0, <2>2, <2>3
<1>8. /\ u.pc \notin {"idle", "restart"} \cup RmBody /\ t.pc \notin {"idle", "restart"} /\ Untimed(u)
  BY <1>0, <1>2 DEF RmBody, Untimed, WaitLabels
<1>9. Local(a, t, u)
  BY <1>1, <1>2, <1>7, <1>8, CallLocal
<1>10. /\ ~Confirmed(u) /\ t.pc \notin Locking /\ u.pc \notin Locking \cup {"select", "rmFiles"}
  BY <1>0, <1>2 DEF Confirmed, Locking, RmBody
<1>11. a # Restarter
  BY <1>1, RmReturns DEF RmLabels
<1> QED BY <1>9, <1>10, <1>11, Move

\* An early return of ContainerRm.
LEMMA RmReturnsEarly ==
    ASSUME IInv, NEW a \in Actors, NEW t, t = th[a], t.pc \in {"rmLookup", "rmMark"}, Aside,
           NEW u, u = Return(t, "err"), th' = [th EXCEPT ![a] = u]
    PROVE  IInv'
<1>1. t \in Goroutine /\ ThreadOK(a, t) /\ t.pc \in RmLabels /\ t.pc \notin RmBody
  BY Actor DEF RmLabels, RmBody
<1>2. Returned(a, t, u, "err", AfterRm) /\ a # Restarter
  BY <1>1, RmReturns
<1>3. Local(a, t, u)
  BY <1>1, <1>2, ReturnedLocal
<1>4. ~Confirmed(u) /\ t.pc \notin Locking /\ u.pc \notin Locking \cup {"select", "rmFiles"}
  BY <1>2 DEF Returned, AfterRm, Confirmed, Locking
<1> QED BY <1>2, <1>3, <1>4, Move

LEMMA GotoSame ==
    ASSUME NEW t \in Goroutine, NEW l \in Labels
    PROVE  Goto(t, l) = [Goto(t, l) EXCEPT !.res = t.res]
BY DEF Goto, Goroutine

\* A goroutine that holds the mutex is there as long as a pause is pending.
LEMMA NoPauseUnlocked ==
    ASSUME IInv, Unlocked
    PROVE  ~PausePending /\ ~Creating
BY GoroutinesOK DEF IInv, MutexOK, Unlocked, Locking, At, Actors, Creating, CoreOK, QueuesOK

LEMMA RmMarkKeeps ==
    ASSUME IInv, NEW a \in Actors, RmMark(a)
    PROVE  IInv'
<1>0. PICK t : t = th[a]
  OBVIOUS
<1>1. t \in Goroutine /\ ThreadOK(a, t) /\ t.pc = "rmMark" /\ t.pc \in RmLabels
  BY <1>0, Actor DEF RmMark, At, RmLabels
<1>2. CASE c.RemovalInProgress
  <2>1. PICK u : u = Return(t, "err")
    OBVIOUS
  <2>2. Aside /\ th' = [th EXCEPT ![a] = u]
    BY <1>0, <1>2, <2>1, AsideNothing DEF RmMark, JustReturn, Step, IInv
  <2> QED BY <1>0, <1>1, <2>1, <2>2, RmReturnsEarly
<1>3. CASE ~c.RemovalInProgress
  <2>1. PICK u : u = Goto(t, "rmCheck")
    OBVIOUS
  <2>2. /\ c' = [c EXCEPT !.RemovalInProgress = TRUE] /\ th' = [th EXCEPT ![a] = u]
        /\ UNCHANGED <<config, autoRemove, reg, mutex, rm, mounts, hVars, eVars>>
    BY <1>0, <1>3, <2>1 DEF RmMark, MarkRemoval, Step
  <2>3. "rmCheck" \in Labels /\ "rmCheck" \in RmLabels
    BY DEF Labels, RmLabels, RmBody
  <2>4. /\ u \in Goroutine /\ u.pc = "rmCheck" /\ u.stk = t.stk /\ u.op = t.op
        /\ u.target = t.target /\ u.calls = t.calls /\ u.saved = t.saved
    BY <1>1, <2>1, <2>3, GotoIs
  <2>5. ThreadOK(a, u) /\ Kept(t, u) /\ (Mounting(u) <=> Mounting(t)) /\ a # Restarter
    BY <1>1, <2>3, <2>4, RmJump
  <2>6. /\ c' \in [Running : BOOLEAN, Paused : BOOLEAN, Restarting : BOOLEAN,
                   RemovalInProgress : BOOLEAN, Dead : BOOLEAN, Pid : Pids, ExitCode : Codes]
        /\ c'.Running = c.Running /\ c'.Paused = c.Paused /\ c'.Restarting = c.Restarting
        /\ c'.Pid = c.Pid /\ c'.Dead = c.Dead /\ c'.RemovalInProgress
    BY <2>2 DEF IInv, TypeOK
  <2>7. th'[a] = u /\ \A b \in Actors : b # a => th'[b] = th[b] /\ ~Removing(th[b])
    BY <1>3, <2>2 DEF IInv, TypeOK, RemovalOK
  <2>8. RemovalOK'
    <3>1. proc' = proc
      BY <2>2 DEF hVars
    <3> QED BY <2>2, <2>4, <2>6, <2>7, <3>1 DEF IInv, RemovalOK, At
  <2>9. ~Confirmed(u) /\ t.pc \notin Locking /\ u.pc \notin Locking \cup {"select"}
    BY <1>1, <2>4 DEF Confirmed, Locking
  <2>10. reg' \in BOOLEAN /\ (reg' => reg)
    BY <2>2 DEF IInv, TypeOK
  <2> QED BY <1>0, <2>2, <2>4, <2>5, <2>6, <2>8, <2>9, <2>10, RmMoves
<1> QED BY <1>2, <1>3

LEMMA RmDeadKeeps ==
    ASSUME IInv, NEW a \in Actors, RmStopped(a), th[a].res # "err"
    PROVE  IInv'
<1>0. PICK t : t = th[a]
  OBVIOUS
<1>1. t \in Goroutine /\ ThreadOK(a, t) /\ t.pc = "rmStopped" /\ t.pc \in RmLabels /\ t.res = "ok"
  BY <1>0, Actor DEF RmStopped, At, RmLabels, RmBody, Goroutine
<1>2. proc = 0
  BY <1>0, <1>1 DEF IInv, GoneOK, Confirmed, Removing, RmBody
<1>3. PICK u : u = Goto(t, "rmFiles")
  OBVIOUS
<1>4. /\ c' = [c EXCEPT !.Dead = TRUE] /\ th' = [th EXCEPT ![a] = u] /\ Unlocked
      /\ UNCHANGED <<config, autoRemove, reg, mutex, rm, mounts, hVars, eVars>>
  BY <1>0, <1>3 DEF RmStopped, Step
<1>5. "rmFiles" \in Labels /\ "rmFiles" \in RmLabels
  BY DEF Labels, RmLabels, RmBody
<1>6. /\ u \in Goroutine /\ u.pc = "rmFiles" /\ u.stk = t.stk /\ u.op = t.op
      /\ u.target = t.target /\ u.calls = t.calls /\ u.saved = t.saved
  BY <1>1, <1>3, <1>5, GotoIs
<1>7. ThreadOK(a, u) /\ Kept(t, u) /\ (Mounting(u) <=> Mounting(t)) /\ a # Restarter
  BY <1>1, <1>5, <1>6, RmJump
<1>8. /\ c' \in [Running : BOOLEAN, Paused : BOOLEAN, Restarting : BOOLEAN,
                 RemovalInProgress : BOOLEAN, Dead : BOOLEAN, Pid : Pids, ExitCode : Codes]
      /\ c'.Running = c.Running /\ c'.Paused = c.Paused /\ c'.Restarting = c.Restarting
      /\ c'.Pid = c.Pid /\ c'.Dead /\ c'.RemovalInProgress = c.RemovalInProgress
  BY <1>4 DEF IInv, TypeOK
<1>9. th'[a] = u /\ \A b \in Actors : b # a => th'[b] = th[b]
  BY <1>4 DEF IInv, TypeOK
<1>10. RemovalOK'
  <2>1. proc' = 0
    BY <1>2, <1>4 DEF hVars
  <2>2. Removing(th[a])
    BY <1>0, <1>1 DEF Removing, RmBody
  <2>3. \A b \in Actors : Removing(th'[b]) => Removing(th[b])
    BY <1>9, <2>2
  <2> QED BY <1>4, <1>8, <2>1, <2>3 DEF IInv, RemovalOK
<1>11. Gone(u) /\ t.pc \notin Locking /\ u.pc \notin Locking \cup {"select"}
  BY <1>1, <1>2, <1>6 DEF Gone, Locking
<1>12. reg' \in BOOLEAN /\ (reg' => reg) /\ ~PausePending
  BY <1>4, NoPauseUnlocked DEF IInv, TypeOK
<1> QED BY <1>0, <1>2, <1>4, <1>6, <1>7, <1>8, <1>10, <1>11, <1>12, RmMoves

LEMMA RmFilesKeeps ==
    ASSUME IInv, NEW a \in Actors, RmFiles(a)
    PROVE  IInv'
<1>0. PICK t : t = th[a]
  OBVIOUS
<1>1. t \in Goroutine /\ ThreadOK(a, t) /\ t.pc = "rmFiles" /\ t.pc \in RmLabels
  BY <1>0, Actor DEF RmFiles, At, RmLabels, RmBody
<1>2. proc = 0 /\ c.Dead
  BY <1>0, <1>1 DEF IInv, GoneOK, Confirmed, Removing, RmBody, RemovalOK, At
<1>3. PICK r \in {"ok", "err"} :
        /\ reg' = (reg /\ r = "err" /\ ~th[a].force)
        /\ Step(a, [Goto(th[a], "rmEnd") EXCEPT !.res = r])
  BY DEF RmFiles
<1>4. PICK w : w = Goto(t, "rmEnd")
  OBVIOUS
<1>5. PICK u : u = [w EXCEPT !.res = r]
  OBVIOUS
<1>6. /\ th' = [th EXCEPT ![a] = u]
      /\ UNCHANGED <<config, autoRemove, c, mutex, rm, mounts, hVars, eVars>>
  BY <1>0, <1>3, <1>4, <1>5 DEF RmFiles, Step
<1>7. "rmEnd" \in Labels /\ "rmEnd" \in RmLabels
  BY DEF Labels, RmLabels, RmBody
<1>8. /\ w \in Goroutine /\ w.pc = "rmEnd" /\ w.stk = t.stk /\ w.op = t.op
      /\ w.target = t.target /\ w.calls = t.calls /\ w.saved = t.saved
  BY <1>1, <1>4, <1>7, GotoIs
<1>9. /\ u \in Goroutine /\ u.pc = "rmEnd" /\ u.stk = t.stk /\ u.op = t.op
      /\ u.target = t.target /\ u.calls = t.calls /\ u.saved = t.saved
  BY <1>5, <1>8 DEF Goroutine
<1>10. ThreadOK(a, u) /\ Kept(t, u) /\ (Mounting(u) <=> Mounting(t)) /\ a # Restarter
  BY <1>1, <1>7, <1>9, RmJump
<1>11. th'[a] = u /\ \A b \in Actors : b # a => th'[b] = th[b]
  BY <1>6 DEF IInv, TypeOK
<1>12. RemovalOK'
  <2>1. proc' = 0 /\ c' = c
    BY <1>2, <1>6 DEF hVars
  <2>2. Removing(th[a])
    BY <1>0, <1>1 DEF Removing, RmBody
  <2>3. \A b \in Actors : Removing(th'[b]) => Removing(th[b])
    BY <1>11, <2>2
  <2> QED BY <1>2, <2>1, <2>3 DEF IInv, RemovalOK
<1>13. Gone(u) /\ t.pc \notin Locking /\ u.pc \notin Locking \cup {"select"}
  BY <1>1, <1>2, <1>9 DEF Gone, Locking
<1>14. reg' \in BOOLEAN /\ (reg' => reg)
  BY <1>3 DEF IInv, TypeOK
<1>15. c' \in [Running : BOOLEAN, Paused : BOOLEAN, Restarting : BOOLEAN,
               RemovalInProgress : BOOLEAN, Dead : BOOLEAN, Pid : Pids, ExitCode : Codes]
  BY <1>6 DEF IInv, TypeOK
<1> QED BY <1>0, <1>2, <1>6, <1>9, <1>10, <1>12, <1>13, <1>14, <1>15, RmMoves

LEMMA RmEndKeeps ==
    ASSUME IInv, NEW a \in Actors, RmEnd(a)
    PROVE  IInv'
<1>0. PICK t : t = th[a]
  OBVIOUS
<1>1. t \in Goroutine /\ ThreadOK(a, t) /\ t.pc = "rmEnd" /\ t.pc \in RmLabels
  BY <1>0, Actor DEF RmEnd, At, RmLabels, RmBody
<1>2. PICK v \in {"ok", "err"} : v = t.res
  BY <1>1 DEF Goroutine
<1>3. PICK u : u = Return(t, v)
  OBVIOUS
<1>4. /\ c' = [c EXCEPT !.RemovalInProgress = FALSE] /\ th' = [th EXCEPT ![a] = u] /\ Unlocked
      /\ UNCHANGED <<config, autoRemove, reg, mutex, rm, mounts, hVars, eVars>>
  BY <1>0, <1>2, <1>3 DEF RmEnd, Step
<1>5. Returned(a, t, u, v, AfterRm) /\ a # Restarter /\ ~Removing(u)
  BY <1>1, <1>3, RmReturns
<1>6. /\ c' \in [Running : BOOLEAN, Paused : BOOLEAN, Restarting : BOOLEAN,
                 RemovalInProgress : BOOLEAN, Dead : BOOLEAN, Pid : Pids, ExitCode : Codes]
      /\ c'.Running = c.Running /\ c'.Paused = c.Paused /\ c'.Restarting = c.Restarting
      /\ c'.Pid = c.Pid /\ c'.Dead = c.Dead
  BY <1>4 DEF IInv, TypeOK
<1>7. th'[a] = u /\ \A b \in Actors : b # a => th'[b] = th[b]
  BY <1>4 DEF IInv, TypeOK
<1>8. RemovalOK'
  <2>1. proc' = proc
    BY <1>4 DEF hVars
  <2>2. Removing(th[a])
    BY <1>0, <1>1 DEF Removing, RmBody
  <2>3. \A b \in Actors : ~Removing(th'[b])
    BY <1>5, <1>7, <2>2 DEF IInv, RemovalOK
  <2>4. \A b \in Actors : At(b, "rmFiles")' => At(b, "rmFiles")
    BY <1>5, <1>7 DEF At, Returned, AfterRm
  <2> QED BY <1>4, <1>6, <2>1, <2>3, <2>4 DEF IInv, RemovalOK
<1>9. t.pc \notin Locking /\ u.pc \notin Locking \cup {"select"}
  BY <1>1, <1>5 DEF Locking, Returned, AfterRm
<1>10. Confirmed(u) => Gone(u)
  <2>1. Confirmed(u) => Confirmed(t)
    BY <1>1, <1>2, <1>5 DEF Confirmed, Returned, AfterRm
  <2>2. Confirmed(t) => Gone(t)
    BY <1>0 DEF IInv, GoneOK
  <2> QED BY <2>1, <2>2, <1>5 DEF Returned, Kept, Gone
<1>11. reg' \in BOOLEAN /\ (reg' => reg)
  BY <1>4 DEF IInv, TypeOK
<1>12. u \in Goroutine /\ ThreadOK(a, u) /\ Kept(t, u) /\ (Mounting(u) <=> Mounting(t))
  BY <1>5 DEF Returned
<1> QED BY <1>0, <1>4, <1>5, <1>6, <1>8, <1>9, <1>10, <1>11, <1>12, RmMoves

LEMMA RmKeeps ==
    ASSUME IInv, NEW a \in Actors, ContainerRm(a)
    PROVE  IInv'
<1>0. PICK t : t = th[a]
  OBVIOUS
<1>1. t \in Goroutine
  BY <1>0, Actor
<1>2. ASSUME NEW l \in {"rmMark", "rmEnd"}, NEW v \in {"ok", "err"}, Aside,
             t.pc \in RmLabels, l = "rmEnd" <=> t.pc \in RmBody,
             v = "ok" /\ l = "rmEnd" => Confirmed(t) \/ proc = 0,
             NEW u, u = [Goto(t, l) EXCEPT !.res = v], th' = [th EXCEPT ![a] = u]
      PROVE  IInv'
  <2>1. l \in RmLabels \ {"rmFiles"} /\ (l \in RmBody <=> t.pc \in RmBody)
    BY <1>2 DEF RmLabels, RmBody
  <2> QED BY <1>0, <1>2, <2>1, RmGoes
<1>3. CASE RmLookup(a)
  <2>1. t.pc = "rmLookup" /\ t.pc \in RmLabels /\ t.pc \notin RmBody /\ "rmMark" \in Labels
    BY <1>0, <1>3 DEF RmLookup, At, RmLabels, RmBody, Labels
  <2>2. Aside
    BY <1>3, AsideNothing DEF RmLookup, JustStep, JustReturn, IInv
  <2>3. PICK v \in {"ok", "err"} : v = t.res
    BY <1>1 DEF Goroutine
  <2>4. PICK u, w : u = [Goto(t, "rmMark") EXCEPT !.res = v] /\ w = Return(t, "err")
    OBVIOUS
  <2>5. th' = [th EXCEPT ![a] = u] \/ th' = [th EXCEPT ![a] = w]
    BY <1>0, <1>1, <1>3, <2>1, <2>3, <2>4, GotoSame DEF RmLookup, JustStep, JustReturn, Step
  <2>6. CASE th' = [th EXCEPT ![a] = u]
    BY <1>2, <2>1, <2>2, <2>4, <2>6
  <2>7. CASE th' = [th EXCEPT ![a] = w]
    BY <1>0, <2>1, <2>2, <2>4, <2>7, RmReturnsEarly
  <2> QED BY <2>5, <2>6, <2>7
<1>4. CASE RmMark(a)
  BY <1>4, RmMarkKeeps
<1>5. CASE RmCheck(a)
  <2>1. t.pc = "rmCheck" /\ t.pc \in RmLabels /\ t.pc \in RmBody
    BY <1>0, <1>5 DEF RmCheck, At, RmLabels, RmBody
  <2>2. Aside
    BY <1>5, AsideNothing DEF RmCheck, JustStep, IInv
  <2>3. PICK u1, u2, u3, u4 :
          /\ u1 = [Goto(t, "rmEnd") EXCEPT !.res = "ok"]
          /\ u2 = [Goto(t, "rmEnd") EXCEPT !.res = "err"]
          /\ u3 = Call(t, "containerStop", "rmStopped")
          /\ u4 = Call(t, "kill", "rmKilled")
    OBVIOUS
  <2>4. \/ ~reg /\ th' = [th EXCEPT ![a] = u1]
        \/ th' = [th EXCEPT ![a] = u2]
        \/ th' = [th EXCEPT ![a] = u3]
        \/ th' = [th EXCEPT ![a] = u4]
    BY <1>0, <1>5, <2>3 DEF RmCheck, JustStep, Step
  <2>5. ~reg => proc = 0
    BY DEF IInv, RemovalOK
  <2>6. CASE ~reg /\ th' = [th EXCEPT ![a] = u1]
    BY <1>2, <2>1, <2>2, <2>3, <2>5, <2>6
  <2>7. CASE th' = [th EXCEPT ![a] = u2]
    BY <1>2, <2>1, <2>2, <2>3, <2>7
  <2>8. CASE th' = [th EXCEPT ![a] = u3]
    BY <1>0, <2>1, <2>2, <2>3, <2>8, RmCalls
  <2>9. CASE th' = [th EXCEPT ![a] = u4]
    BY <1>0, <2>1, <2>2, <2>3, <2>9, RmCalls
  <2> QED BY <2>4, <2>6, <2>7, <2>8, <2>9
<1>6. CASE RmKilled(a)
  <2>1. t.pc = "rmKilled" /\ t.pc \in RmLabels /\ t.pc \in RmBody /\ "rmEnd" \in Labels
    BY <1>0, <1>6 DEF RmKilled, At, RmLabels, RmBody, Labels
  <2>2. Aside
    BY <1>6, AsideNothing DEF RmKilled, JustStep, IInv
  <2>3. PICK v \in {"ok", "err"} : v = t.res
    BY <1>1 DEF Goroutine
  <2>4. PICK u, w : u = [Goto(t, "rmEnd") EXCEPT !.res = v] /\ w = Call(t, "containerStop", "rmStopped")
    OBVIOUS
  <2>5. \/ th' = [th EXCEPT ![a] = u] /\ v = "err"
        \/ th' = [th EXCEPT ![a] = w]
    BY <1>0, <1>1, <1>6, <2>1, <2>3, <2>4, GotoSame DEF RmKilled, JustStep, Step
  <2>6. CASE th' = [th EXCEPT ![a] = u] /\ v = "err"
    BY <1>2, <2>1, <2>2, <2>4, <2>6
  <2>7. CASE th' = [th EXCEPT ![a] = w]
    BY <1>0, <2>1, <2>2, <2>4, <2>7, RmCalls
  <2> QED BY <2>5, <2>6, <2>7
<1>7. CASE RmStopped(a)
  <2>1. t.pc = "rmStopped" /\ t.pc \in RmLabels /\ t.pc \in RmBody /\ "rmEnd" \in Labels
    BY <1>0, <1>7 DEF RmStopped, At, RmLabels, RmBody, Labels
  <2>2. CASE t.res = "err"
    <3>1. Aside
      BY <1>0, <1>7, <2>2, AsideNothing DEF RmStopped, JustStep, IInv
    <3>2. PICK v \in {"ok", "err"} : v = t.res
      BY <1>1 DEF Goroutine
    <3>3. PICK u : u = [Goto(t, "rmEnd") EXCEPT !.res = v]
      OBVIOUS
    <3>4. th' = [th EXCEPT ![a] = u]
      BY <1>0, <1>1, <1>7, <2>1, <2>2, <3>2, <3>3, GotoSame DEF RmStopped, JustStep, Step
    <3> QED BY <1>2, <2>1, <2>2, <3>1, <3>2, <3>3, <3>4
  <2>3. CASE t.res # "err"
    BY <1>0, <1>7, <2>3, RmDeadKeeps
  <2> QED BY <2>2, <2>3
<1>8. CASE RmFiles(a)
  BY <1>8, RmFilesKeeps
<1>9. CASE RmEnd(a)
  BY <1>9, RmEndKeeps
<1> QED BY <1>3, <1>4, <1>5, <1>6, <1>7, <1>8, <1>9 DEF ContainerRm

----------------------------------------------------------------------------
(* containerStart                                                          *)

\* How containerStart leaves its goroutine: with a result, or, when the start
\* has failed, in the removal that AutoRemove asks for.
LEMMA StartResult ==
    ASSUME IInv, NEW a \in Actors, NEW t, t = th[a],
           t.pc \in {"containerStart", "stateStart", "startFailed"},
           NEW v \in {"ok", "err"}, NEW u, u = Return(t, v)
    PROVE  /\ Local(a, t, u) /\ u.pc \in AfterStart /\ u.res = v
           /\ u.pc = "restarted" <=> a = Restarter
           /\ Confirmed(u) => v = "ok" /\ (Confirmed(t) \/ t.pc = "startFailed")
<1>1. t \in Goroutine /\ ThreadOK(a, t)
  BY Actor
<1>2. /\ Returned(a, t, u, v, AfterStart)
      /\ u.pc = "restarted" <=> a = Restarter
      /\ u.pc = "idle" => t.op = "start"
  BY <1>1, StartReturns
<1>3. Local(a, t, u)
  BY <1>1, <1>2, ReturnedLocal DEF RmBody
<1>4. Confirmed(u) => v = "ok" /\ (Confirmed(t) \/ t.pc = "startFailed")
  BY <1>2 DEF Confirmed, Returned, Kept, AfterStart, StopOps
<1> QED BY <1>2, <1>3, <1>4 DEF Returned

LEMMA StartFailure ==
    ASSUME IInv, NEW a \in Actors, NEW t, t = th[a], t.pc \in {"containerStart", "stateStart"},
           NEW u, u = AfterFailure(a)
    PROVE  /\ Local(a, t, u) /\ u.pc \in AfterStart \cup {"rmLookup"} /\ ~Confirmed(u)
           /\ a = Restarter => u.pc = "restarted" /\ u.res = "err"
<1>1. t \in Goroutine /\ ThreadOK(a, t)
  BY Actor
<1>2. CASE ~autoRemove
  <2>1. u = Return(t, "err")
    BY <1>2 DEF AfterFailure
  <2>2. PICK v \in {"ok", "err"} : v = "err"
    OBVIOUS
  <2>3. u = Return(t, v)
    BY <2>1, <2>2
  <2>4. /\ Local(a, t, u) /\ u.pc \in AfterStart /\ u.res = v
        /\ u.pc = "restarted" <=> a = Restarter
        /\ Confirmed(u) => v = "ok"
    BY <2>3, StartResult
  <2> QED BY <2>2, <2>4
<1>3. CASE autoRemove
  <2>1. a # Restarter
    BY <1>3 DEF IInv, ThreadsOK, At
  <2>2. PICK r : r = Role(a, t)
    OBVIOUS
  <2>3. PICK s : s = t.stk
    OBVIOUS
  <2>4. s \in ClientStarts(r)
    <3>1. r # "restarter"
      BY <1>1, <2>1, <2>2 DEF Role, Goroutine, AllOps, None
    <3> QED BY <1>1, <2>2, <2>3, <3>1 DEF ThreadOK, StackOK, StartStacks
  <2>5. PICK q : q = OnTop("startFailed", s)
    OBVIOUS
  <2>6. q \in RmStacks(r)
    BY <2>4, <2>5, Pushed DEF RmStacks
  <2>7. PICK w : w = Call(t, "rmLookup", "startFailed")
    OBVIOUS
  <2>8. "rmLookup" \in Labels /\ "startFailed" \in Labels
    BY DEF Labels
  <2>9. /\ w \in Goroutine /\ w.pc = "rmLookup" /\ w.stk = OnTop("startFailed", t.stk)
        /\ w.op = t.op /\ w.target = t.target /\ w.calls = t.calls /\ w.saved = t.saved
    BY <1>1, <2>7, <2>8, CallIs
  <2>10. u = [w EXCEPT !.force = TRUE]
    BY <1>3, <2>7 DEF AfterFailure
  <2>11. /\ u \in Goroutine /\ u.pc = "rmLookup" /\ u.stk = OnTop("startFailed", t.stk)
         /\ u.op = t.op /\ u.target = t.target /\ u.calls = t.calls /\ u.saved = t.saved
    BY <2>9, <2>10 DEF Goroutine
  <2>12. StackOK(u.pc, u.stk, r)
    <3>1. u.stk = q
      BY <2>3, <2>5, <2>11
    <3> QED BY <2>6, <2>11, <3>1
            DEF StackOK, Outermost, WaitLabels, KillLabels, StopLabels, RmLabels, RmBody
  <2>13. /\ u.pc \notin {"idle", "restart"} \cup RmBody /\ t.pc \notin {"idle", "restart"}
         /\ "startFailed" \notin RmBody /\ t.pc \notin RmBody /\ Untimed(u)
    BY <2>11 DEF RmBody, Untimed, WaitLabels
  <2>14. Local(a, t, u)
    <3>1. PICK l \in Labels : l = "startFailed"
      BY <2>8
    <3>2. u.stk = OnTop(l, t.stk) /\ l \notin RmBody
      BY <2>11, <2>13, <3>1
    <3> QED BY <1>1, <2>2, <2>11, <2>12, <2>13, <3>2, CallLocal
  <2>15. ~Confirmed(u)
    BY <2>11 DEF Confirmed
  <2> QED BY <2>1, <2>11, <2>14, <2>15
<1> QED BY <1>2, <1>3

\* containerStart gives up before there is a process.
LEMMA StartGivesUp ==
    ASSUME IInv, NEW a \in Actors, NEW t, t = th[a], t.pc = "containerStart", NEW u,
           Local(a, t, u), u.pc \in AfterStart \cup {"rmLookup"}, Confirmed(u) => Confirmed(t),
           a = Restarter => u.pc = "restarted" /\ u.res = "err",
           th' = [th EXCEPT ![a] = u], Aside
    PROVE  IInv'
<1>1. Confirmed(u) => Gone(u) /\ (Removing(u) => proc = 0)
  BY DEF IInv, GoneOK, Local, Kept, Gone
<1>2. t.pc \notin Locking /\ u.pc \notin Locking \cup {"select", "rmFiles"}
  BY DEF AfterStart, Locking
<1>3. a = Restarter => config.policy # "no" /\ (RestartDue' <=> RestartDue)
  <2>1. th'[a] = u
    BY DEF IInv, TypeOK
  <2>2. a = Restarter => config.policy # "no"
    BY DEF IInv, ThreadsOK, At
  <2>3. a = Restarter => RestartDue /\ RestartDue'
    BY <2>1 DEF RestartDue, At
  <2> QED BY <2>2, <2>3
<1> QED BY <1>1, <1>2, <1>3, Plain

\* A process is created only when the one before it is gone and handled.
LEMMA StartIsAlone ==
    ASSUME IInv, NEW a \in Actors, At(a, "containerStart"), Unlocked, ~MayNotStart(a)
    PROVE  /\ proc = 0 /\ ~ExitPending /\ ~PausePending /\ ~Creating /\ ~host.frozen /\ ~c.Paused
           /\ ~c.Dead /\ ~c.RemovalInProgress
           /\ a # Restarter => ~c.Running /\ ~RestartDue
           /\ a = Restarter => RestartDue /\ config.policy # "no"
<1>1. ~PausePending /\ ~Creating
  BY NoPauseUnlocked
<1>2. ~c.Dead /\ ~c.RemovalInProgress /\ (a # Restarter => ~c.Running)
  BY DEF MayNotStart, Reset
<1>3. a # Restarter => ~RestartDue
  BY <1>2, StoppedIsDown
<1>4. a = Restarter => RestartDue /\ config.policy # "no"
  BY DEF RestartDue, At, IInv, ThreadsOK
<1>5. proc = 0 /\ ~ExitPending
  BY <1>1, <1>2, <1>4 DEF IInv, CoreOK, ProcessOK
<1>6. ~host.frozen /\ ~c.Paused
  BY <1>1, <1>5 DEF IInv, CoreOK, QueuesOK, TypeOK
<1> QED BY <1>1, <1>2, <1>3, <1>4, <1>5, <1>6

LEMMA StartCreates ==
    ASSUME IInv, NEW a \in Actors, At(a, "containerStart"), Unlocked, ~MayNotStart(a),
           ~tracked, host.starts < MaxStarts,
           rm' = IF Reset(a) THEN NewRestartManager ELSE rm,
           host' = [starts |-> host.starts + 1, frozen |-> FALSE, killed |-> FALSE],
           proc' = host.starts + 1, tracked' = TRUE, mounts' = mounts + 1, mutex' = a,
           Step(a, Goto(th[a], "stateStart")),
           UNCHANGED <<config, autoRemove, reg, c, stream, handling, fns>>
    PROVE  IInv'
<1> USE DEF IInv
<1>0. PICK t : t = th[a]
  OBVIOUS
<1>1. t \in Goroutine /\ ThreadOK(a, t) /\ t.pc = "containerStart" /\ t.target <= host.starts
  BY <1>0, Actor DEF At
<1>2. PICK u : u = Goto(t, "stateStart")
  OBVIOUS
<1>3. "stateStart" \in Labels /\ th' = [th EXCEPT ![a] = u]
  BY <1>0, <1>2 DEF Labels, Step
<1>4. /\ u \in Goroutine /\ u.pc = "stateStart" /\ u.stk = t.stk /\ u.op = t.op
      /\ u.target = t.target /\ u.calls = t.calls /\ u.saved = t.saved
  BY <1>1, <1>2, <1>3, GotoIs
<1>5. StackOK(u.pc, t.stk, Role(a, t))
  BY <1>1, <1>4 DEF ThreadOK, StackOK, Outermost, WaitLabels, KillLabels, StopLabels, RmLabels, RmBody
<1>6. Local(a, t, u)
  <2>1. /\ t.pc \notin {"idle", "restart"} /\ u.pc \notin {"idle", "restart"} \cup WaitLabels
        /\ u.pc \notin RmBody /\ t.pc \notin RmBody
    BY <1>1, <1>4 DEF WaitLabels, RmBody
  <2> QED BY <1>1, <1>4, <1>5, <2>1, JumpLocal
<1>7. th'[a] = u /\ \A b \in Actors : b # a => th'[b] = th[b]
  BY <1>3 DEF TypeOK
<1>8. /\ proc = 0 /\ ~ExitPending /\ ~PausePending /\ ~Creating /\ ~host.frozen /\ ~c.Paused
      /\ ~c.Dead /\ ~c.RemovalInProgress
      /\ a # Restarter => ~c.Running /\ ~RestartDue
      /\ a = Restarter => RestartDue /\ config.policy # "no"
  BY StartIsAlone
<1>9. host.starts \in Nat /\ host.starts + 1 \in Pids /\ MaxStarts \in Nat
  BY BoundsOK DEF TypeOK, Pids
<1>10. host'.starts = host.starts + 1 /\ host'.frozen = FALSE
  OBVIOUS
<1>11. TypeOK'
  <2>1. rm' \in [canceled : BOOLEAN, active : BOOLEAN, count : Nat]
    BY DEF TypeOK, NewRestartManager
  <2>2. th' \in [Actors -> Goroutine]
    BY <1>3, <1>4 DEF TypeOK
  <2>3. host' \in [starts : Pids, frozen : BOOLEAN, killed : BOOLEAN]
    BY <1>9
  <2> QED BY <1>9, <2>1, <2>2, <2>3 DEF TypeOK
<1>12. ThreadsOK'
  <2>1. ThreadOK(a, u) /\ (autoRemove' => config.policy = "no")
    BY <1>6 DEF Local, ThreadsOK
  <2> QED BY <1>3, <1>8, <2>1, ThreadsKept
<1>13. MutexOK'
  <2>1. \A b \in Actors : b # a => (mutex' = b <=> mutex = b)
    BY GoroutinesOK DEF Unlocked, Actors
  <2> QED BY <1>3, <1>4, <2>1, MutexKept DEF Locking
<1>14. /\ HasExit(stream)' = HasExit(stream) /\ HasExit(handling)' = HasExit(handling)
       /\ HasExit(fns)' = HasExit(fns) /\ HasPause(stream)' = HasPause(stream)
       /\ HasPause(handling)' = HasPause(handling) /\ HasPause(fns)' = HasPause(fns)
  BY DEF HasExit, HasPause
<1>15. ~ExitPending' /\ ~PausePending' /\ ~Unread' /\ ~Unread
  BY <1>8, <1>14 DEF ExitPending, PausePending, Unread
<1>16. QueuesOK'
  <2>1. (Form(stream) /\ Form(handling) /\ Form(fns) /\ Len(handling) < 2)'
    BY DEF CoreOK, QueuesOK, Form
  <2>2. (PauseFits(stream) /\ PauseFits(handling) /\ PauseFits(fns))'
    BY <1>15 DEF PauseFits, PausePending
  <2> QED BY <1>8, <1>10, <1>15, <2>1, <2>2 DEF QueuesOK, PausePending, ExitPending, Unread
<1>17. Restarter \in Actors /\ Creating'
  BY <1>4, <1>7 DEF Actors, Creating, At
<1>18. ~RestartDue'
  BY <1>4, <1>7, <1>8, <1>17 DEF RestartDue, At
<1>19. ProcessOK'
  BY <1>9, <1>10, <1>15, <1>17 DEF ProcessOK
<1>20. BeliefOK'
  <2>1. CASE a = Restarter
    BY <1>4, <1>7, <1>8, <1>18, <2>1 DEF CoreOK, BeliefOK, At
  <2>2. CASE a # Restarter
    <3>1. ~At(Restarter, "stateStart")'
      BY <1>7, <1>8, <1>17, <2>2 DEF Creating, At
    <3> QED BY <1>8, <1>18, <2>2, <3>1 DEF CoreOK, BeliefOK
  <2> QED BY <2>1, <2>2
<1>21. RemovalOK'
  <2>1. \A b \in Actors : ~Removing(th'[b])
    BY <1>0, <1>6, <1>7, <1>8 DEF RemovalOK, Local
  <2>2. \A b \in Actors : ~At(b, "rmFiles")'
    BY <1>4, <1>7, <1>8 DEF RemovalOK, At
  <2> QED BY <1>8, <2>1, <2>2 DEF RemovalOK
<1>22. GoneOK'
  <2>1. \A b \in Actors : ~Removing(th'[b])
    BY <1>0, <1>6, <1>7, <1>8 DEF RemovalOK, Local
  <2>2. \A b \in Actors : th'[b].target <= host.starts
    BY <1>1, <1>4, <1>7 DEF GoneOK
  <2>3. \A b \in Actors : th'[b].target \in Nat
    <3>1. th' \in [Actors -> Goroutine]
      BY <1>11 DEF TypeOK
    <3> QED BY <3>1 DEF Goroutine, Pids
  <2>4. \A b \in Actors : th'[b].target <= host.starts + 1 /\ th'[b].target # host.starts + 1
    BY <1>9, <2>2, <2>3
  <2> QED BY <1>10, <2>1, <2>4 DEF GoneOK, Gone
<1>23. WaitersOK'
  BY <1>3, <1>4, WaitersKept
<1>24. MountsOK'
  <2>1. Mounters' = Mounters
    BY <1>0, <1>6, <1>7 DEF Mounters, Local
  <2>2. ~HasExit(fns)' /\ ~HasExit(fns)
    BY <1>8, <1>15 DEF ExitPending
  <2>3. Saved /\ reg => mounts = Cardinality(Mounters) + 0
    BY <2>2 DEF MountsOK
  <2>4. mounts \in Int /\ Cardinality(Mounters) \in Nat
    BY MountersFinite DEF TypeOK
  <2> QED BY <2>1, <2>2, <2>3, <2>4 DEF MountsOK, Saved
<1> QED BY <1>11, <1>12, <1>13, <1>16, <1>19, <1>20, <1>21, <1>22, <1>23, <1>24 DEF CoreOK

\* The end of Create: the container is recorded as running, and forgotten by
\* libcontainerd when the record could not be written.
LEMMA StartEnds ==
    ASSUME IInv, NEW a \in Actors, NEW t, t = th[a], t.pc = "stateStart", NEW u,
           Local(a, t, u), u.pc \in AfterStart \cup {"rmLookup"}, Confirmed(u) => Confirmed(t),
           a = Restarter => u.pc = "restarted" /\ u.res = "ok",
           th' = [th EXCEPT ![a] = u], mutex' = Nobody,
           c' \in [Running : BOOLEAN, Paused : BOOLEAN, Restarting : BOOLEAN,
                   RemovalInProgress : BOOLEAN, Dead : BOOLEAN, Pid : Pids, ExitCode : Codes],
           c'.Running, c'.Paused = c.Paused, ~c'.Restarting, c'.Pid = host.starts,
           c'.Dead = c.Dead, c'.RemovalInProgress = c.RemovalInProgress,
           tracked' \in BOOLEAN, mounts' \in Int,
           Saved => UNCHANGED <<tracked, mounts>>, tracked' => tracked,
           UNCHANGED <<config, autoRemove, reg, rm, hVars, stream, handling, fns>>
    PROVE  IInv'
<1> USE DEF IInv
<1>1. /\ t \in Goroutine /\ ThreadOK(a, t) /\ t.target <= host.starts
      /\ u \in Goroutine /\ ThreadOK(a, u) /\ Kept(t, u)
      /\ Removing(u) <=> Removing(t)
      /\ Mounting(u) <=> Mounting(t)
  BY Actor DEF Local
<1>2. proc' = proc /\ host' = host
  BY DEF hVars
<1>3. th'[a] = u /\ \A b \in Actors : b # a => th'[b] = th[b]
  BY DEF TypeOK
<1>4. mutex = a /\ Nobody \notin Actors /\ Restarter \in Actors
  BY GoroutinesOK DEF MutexOK, Locking, Actors
<1>5. \A b \in Actors : b # a => th[b].pc \notin Locking
  BY <1>4 DEF MutexOK
<1>6. Creating /\ ~Creating'
  BY <1>3, <1>5 DEF Creating, At, Locking, AfterStart
<1>7. ~PausePending
  BY <1>5 DEF CoreOK, QueuesOK, At, Locking
<1>8. tracked /\ ~RestartDue
  BY <1>6 DEF CoreOK, ProcessOK, BeliefOK
<1>9. ~RestartDue' /\ ~At(Restarter, "stateStart")'
  BY <1>3, <1>4, <1>5, <1>8 DEF RestartDue, At, Locking
<1>10. TypeOK'
  <2>1. th' \in [Actors -> Goroutine]
    BY <1>1 DEF TypeOK
  <2> QED BY <1>2, <2>1 DEF TypeOK
<1>11. ThreadsOK'
  <2>1. autoRemove' => config.policy = "no"
    BY DEF ThreadsOK
  <2>2. a = Restarter => config.policy # "no"
    BY DEF ThreadsOK, At
  <2> QED BY <1>1, <2>1, <2>2, ThreadsKept
<1>12. MutexOK'
  <2>1. u.pc \notin Locking /\ mutex' # a
    BY <1>4 DEF AfterStart, Locking
  <2> QED BY <1>4, <2>1, MutexKept
<1>13. /\ HasExit(stream)' = HasExit(stream) /\ HasExit(handling)' = HasExit(handling)
       /\ HasExit(fns)' = HasExit(fns) /\ HasPause(stream)' = HasPause(stream)
       /\ HasPause(handling)' = HasPause(handling) /\ HasPause(fns)' = HasPause(fns)
  BY DEF HasExit, HasPause
<1>14. /\ ~PausePending' /\ (ExitPending' <=> ExitPending) /\ (Unread' <=> Unread)
  BY <1>7, <1>13 DEF ExitPending, PausePending, Unread
<1>15. QueuesOK'
  <2>1. (Form(stream) /\ Form(handling) /\ Form(fns) /\ Len(handling) < 2)'
    BY DEF CoreOK, QueuesOK, Form
  <2>2. (PauseFits(stream) /\ PauseFits(handling) /\ PauseFits(fns))'
    BY <1>14 DEF PauseFits, PausePending
  <2>3. (host.frozen => proc # 0)' /\ (c'.Paused <=> host'.frozen)
    BY <1>2, <1>7 DEF CoreOK, QueuesOK
  <2>4. /\ ~(HasExit(stream) /\ (HasExit(handling) \/ HasExit(fns)))'
        /\ ~(HasExit(handling) /\ HasExit(fns))'
    BY <1>13 DEF CoreOK, QueuesOK
  <2> QED BY <1>14, <2>1, <2>2, <2>3, <2>4 DEF QueuesOK, PausePending
<1>16. ProcessOK'
  BY <1>2, <1>6, <1>9, <1>14 DEF CoreOK, ProcessOK, Saved
<1>17. BeliefOK'
  <2>1. Saved' => Saved
    BY DEF Saved
  <2>2. proc # 0 \/ Unread
    BY <1>8 DEF CoreOK, ProcessOK
  <2>3. proc' # 0 \/ ExitPending'
    BY <1>2, <1>14, <2>2 DEF ExitPending
  <2> QED BY <1>2, <1>6, <1>9, <2>3 DEF BeliefOK
<1>18. RemovalOK'
  BY <1>1, <1>2, RemovalKept DEF AfterStart
<1>19. GoneOK'
  <2>1. u.target <= host.starts
    BY <1>1 DEF Kept
  <2>2. Confirmed(u) => Gone(u) /\ (Removing(u) => proc = 0)
    BY <1>1 DEF GoneOK, Kept, Gone
  <2> QED BY <1>2, <2>1, <2>2, GoneKept
<1>20. WaitersOK'
  BY DEF WaitersOK
<1>21. MountsOK'
  <2>1. CASE Saved
    BY <1>1, <2>1, MountsKept
  <2>2. CASE ~Saved
    BY <2>2 DEF MountsOK, Saved
  <2> QED BY <2>1, <2>2
<1> QED BY <1>10, <1>11, <1>12, <1>15, <1>16, <1>17, <1>18, <1>19, <1>20, <1>21 DEF CoreOK

LEMMA StartBeginKeeps ==
    ASSUME IInv, NEW a \in Actors, StartBegin(a)
    PROVE  IInv'
<1>0. PICK t : t = th[a]
  OBVIOUS
<1>1. t \in Goroutine /\ ThreadOK(a, t) /\ t.pc = "containerStart" /\ Unlocked
  BY <1>0, Actor DEF StartBegin, At
<1>2. CASE MayNotStart(a)
  <2>1. PICK v \in {"ok", "err"} : v = IF Reset(a) /\ c.Running THEN "ok" ELSE "err"
    OBVIOUS
  <2>2. PICK u : u = Return(t, v)
    OBVIOUS
  <2>3. Aside /\ th' = [th EXCEPT ![a] = u]
    BY <1>0, <1>2, <2>1, <2>2, AsideNothing DEF StartBegin, JustReturn, Step, IInv
  <2>4. /\ Local(a, t, u) /\ u.pc \in AfterStart /\ u.res = v
        /\ u.pc = "restarted" <=> a = Restarter
        /\ Confirmed(u) => Confirmed(t)
    BY <1>0, <1>1, <2>2, StartResult
  <2>5. a = Restarter => v = "err"
    BY <2>1 DEF Reset
  <2> QED BY <1>0, <1>1, <2>3, <2>4, <2>5, StartGivesUp
<1>3. CASE ~MayNotStart(a)
  <2>0. UNCHANGED <<config, autoRemove, reg, stream, handling, fns>>
    BY <1>3 DEF StartBegin
  <2>1. CASE /\ StartFails(a) /\ UNCHANGED <<mounts, proc, host, tracked>>
             /\ rm' \in {rm, NewRestartManager}
    <3>1. PICK u : u = AfterFailure(a)
      OBVIOUS
    <3>2. /\ Local(a, t, u) /\ u.pc \in AfterStart \cup {"rmLookup"} /\ ~Confirmed(u)
          /\ a = Restarter => u.pc = "restarted" /\ u.res = "err"
      BY <1>0, <1>1, <3>1, StartFailure
    <3>3. c' = [c EXCEPT !.ExitCode = IF c.ExitCode = 0 THEN 128 ELSE c.ExitCode]
      BY <2>1 DEF StartFails
    <3>4. mutex' = mutex /\ th' = [th EXCEPT ![a] = u]
      BY <1>1, <2>1, <3>1 DEF StartFails, Unlocked, Step
    <3>5. /\ c' \in [Running : BOOLEAN, Paused : BOOLEAN, Restarting : BOOLEAN,
                     RemovalInProgress : BOOLEAN, Dead : BOOLEAN, Pid : Pids, ExitCode : Codes]
          /\ c'.Running = c.Running /\ c'.Paused = c.Paused /\ c'.Restarting = c.Restarting
          /\ c'.Pid = c.Pid /\ c'.Dead = c.Dead /\ c'.RemovalInProgress = c.RemovalInProgress
      BY <3>3 DEF IInv, TypeOK, Codes
    <3>6. rm' \in [canceled : BOOLEAN, active : BOOLEAN, count : Nat]
      <4>1. NewRestartManager \in [canceled : BOOLEAN, active : BOOLEAN, count : Nat]
        BY DEF NewRestartManager
      <4>2. rm \in [canceled : BOOLEAN, active : BOOLEAN, count : Nat]
        BY DEF IInv, TypeOK
      <4> QED BY <2>1, <4>1, <4>2
    <3>7. /\ autoRemove' \in BOOLEAN /\ (autoRemove' => config.policy = "no")
          /\ host' \in [starts : Pids, frozen : BOOLEAN, killed : BOOLEAN]
      BY <2>0, <2>1 DEF IInv, TypeOK, ThreadsOK
    <3>8. Aside
      BY <2>0, <2>1, <3>4, <3>5, <3>6, <3>7 DEF Aside, eVars
    <3> QED BY <1>0, <1>1, <3>2, <3>4, <3>8, StartGivesUp
  <2>2. CASE /\ ~tracked /\ host.starts < MaxStarts
             /\ rm' = IF Reset(a) THEN NewRestartManager ELSE rm
             /\ host' = [starts |-> host.starts + 1, frozen |-> FALSE, killed |-> FALSE]
             /\ proc' = host.starts + 1 /\ tracked' = TRUE /\ mounts' = mounts + 1 /\ mutex' = a
             /\ Step(a, Goto(th[a], "stateStart")) /\ UNCHANGED c
    <3>1. At(a, "containerStart")
      BY DEF StartBegin
    <3> QED BY <1>1, <1>3, <2>0, <2>2, <3>1, StartCreates
  <2> QED BY <1>3, <2>1, <2>2 DEF StartBegin
<1> QED BY <1>2, <1>3

LEMMA StateStartKeeps ==
    ASSUME IInv, NEW a \in Actors, StateStart(a)
    PROVE  IInv'
<1>0. PICK t : t = th[a]
  OBVIOUS
<1>1. t \in Goroutine /\ ThreadOK(a, t) /\ t.pc = "stateStart" /\ mutex' = Nobody
  BY <1>0, Actor DEF StateStart, At
<1>2. /\ UNCHANGED <<config, autoRemove, reg, rm, hVars, stream, handling, fns>>
      /\ host.starts \in Pids /\ mounts \in Int /\ tracked \in BOOLEAN
  BY DEF StateStart, IInv, TypeOK
<1>3. PICK x : x = SetRunning(c, host.starts)
  OBVIOUS
<1>4. /\ x \in [Running : BOOLEAN, Paused : BOOLEAN, Restarting : BOOLEAN,
                RemovalInProgress : BOOLEAN, Dead : BOOLEAN, Pid : Pids, ExitCode : Codes]
      /\ x.Running /\ x.Paused = c.Paused /\ ~x.Restarting
      /\ x.Pid = host.starts /\ x.Dead = c.Dead /\ x.RemovalInProgress = c.RemovalInProgress
  BY <1>2, <1>3 DEF SetRunning, IInv, TypeOK, Codes
<1>5. CASE /\ c' = SetRunning(c, host.starts) /\ Step(a, Return(th[a], "ok"))
           /\ UNCHANGED <<tracked, mounts>>
  <2>1. PICK v \in {"ok", "err"} : v = "ok"
    OBVIOUS
  <2>2. PICK u : u = Return(t, v)
    OBVIOUS
  <2>3. c' = x /\ th' = [th EXCEPT ![a] = u]
    BY <1>0, <1>3, <1>5, <2>1, <2>2 DEF Step
  <2>4. /\ Local(a, t, u) /\ u.pc \in AfterStart /\ u.res = "ok"
        /\ u.pc = "restarted" <=> a = Restarter
        /\ Confirmed(u) => Confirmed(t)
    BY <1>0, <1>1, <2>1, <2>2, StartResult
  <2>5. tracked' \in BOOLEAN /\ mounts' \in Int
    BY <1>2, <1>5
  <2> QED BY <1>0, <1>1, <1>2, <1>4, <1>5, <2>3, <2>4, <2>5, StartEnds
<1>6. CASE /\ "disk" \in config.faults /\ tracked' = FALSE /\ mounts' = Cleanup(mounts)
           /\ c' = [SetRunning(c, host.starts) EXCEPT !.ExitCode = 128]
           /\ Step(a, AfterFailure(a))
  <2>1. PICK u : u = AfterFailure(a)
    OBVIOUS
  <2>2. /\ Local(a, t, u) /\ u.pc \in AfterStart \cup {"rmLookup"} /\ ~Confirmed(u)
    BY <1>0, <1>1, <2>1, StartFailure
  <2>3. a # Restarter /\ ~Saved
    BY <1>0, <1>1, <1>6, BoundsOK DEF IInv, TypeOK, ThreadsOK, At, Saved
  <2>4. /\ c' \in [Running : BOOLEAN, Paused : BOOLEAN, Restarting : BOOLEAN,
                   RemovalInProgress : BOOLEAN, Dead : BOOLEAN, Pid : Pids, ExitCode : Codes]
        /\ c'.Running /\ c'.Paused = c.Paused /\ ~c'.Restarting
        /\ c'.Pid = host.starts /\ c'.Dead = c.Dead /\ c'.RemovalInProgress = c.RemovalInProgress
    BY <1>3, <1>4, <1>6 DEF Codes
  <2>5. tracked' \in BOOLEAN /\ mounts' \in Int
    <3>1. mounts \in Int
      BY <1>2
    <3>2. mounts' = mounts - 1 /\ tracked' = FALSE
      BY <1>6 DEF Cleanup
    <3>3. mounts' \in Int
      BY <3>1, <3>2
    <3>4. tracked' \in BOOLEAN
      BY <3>2
    <3> QED BY <3>3, <3>4
  <2>6. th' = [th EXCEPT ![a] = u]
    BY <1>6, <2>1 DEF Step
  <2> QED BY <1>0, <1>1, <1>2, <1>6, <2>2, <2>3, <2>4, <2>5, <2>6, StartEnds
<1> QED BY <1>5, <1>6 DEF StateStart

LEMMA StartKeeps ==
    ASSUME IInv, NEW a \in Actors, ContainerStart(a)
    PROVE  IInv'
<1>0. PICK t : t = th[a]
  OBVIOUS
<1>1. CASE StartBegin(a)
  BY <1>1, StartBeginKeeps
<1>2. CASE StateStart(a)
  BY <1>2, StateStartKeeps
<1>3. CASE StartFailed(a)
  <2>1. PICK v \in {"ok", "err"} : v = "err"
    OBVIOUS
  <2>2. PICK u : u = Return(t, v)
    OBVIOUS
  <2>3. Aside /\ th' = [th EXCEPT ![a] = u] /\ t.pc = "startFailed"
    BY <1>0, <1>3, <2>1, <2>2, AsideNothing DEF StartFailed, JustReturn, Step, At, IInv
  <2>4. Local(a, t, u) /\ u.pc \in AfterStart /\ ~Confirmed(u)
    BY <1>0, <2>1, <2>2, <2>3, StartResult
  <2>5. a # Restarter
    <3>1. t \in Goroutine /\ ThreadOK(a, t)
      BY <1>0, Actor
    <3>2. t.stk \in ClientStarts(Role(a, t))
      BY <2>3, <3>1 DEF ThreadOK, StackOK
    <3> QED BY <2>3, <3>1, <3>2, StartReturns
  <2>6. t.pc \notin Locking /\ u.pc \notin Locking \cup {"select", "rmFiles"}
    BY <2>3, <2>4 DEF AfterStart, Locking
  <2> QED BY <1>0, <2>3, <2>4, <2>5, <2>6, Move
<1> QED BY <1>1, <1>2, <1>3 DEF ContainerStart

----------------------------------------------------------------------------
(* containerRestart                                                        *)

\* containerRestart counts as one mount between its begin and its end.
LEMMA MountsMoved ==
    ASSUME IInv, NEW a \in Actors, NEW t, t = th[a], NEW u, th' = [th EXCEPT ![a] = u],
           \/ ~Mounting(t) /\ Mounting(u) /\ mounts' = mounts + 1
           \/ Mounting(t) /\ ~Mounting(u) /\ mounts' = mounts - 1,
           UNCHANGED <<config, reg, tracked, fns>>
    PROVE  MountsOK' /\ mounts' \in Int
<1>1. th'[a] = u /\ \A b \in Actors : b # a => th'[b] = th[b]
  BY DEF IInv, TypeOK
<1>2. mounts \in Int /\ Cardinality(Mounters) \in Nat /\ IsFiniteSet(Mounters)
  BY MountersFinite DEF IInv, TypeOK
<1>3. PICK k \in {0, 1} : k = IF tracked \/ HasExit(fns) THEN 1 ELSE 0
  OBVIOUS
<1>4. Saved /\ reg => mounts = Cardinality(Mounters) + k
  BY <1>3 DEF IInv, MountsOK
<1>5. (Saved' <=> Saved) /\ k = IF tracked' \/ HasExit(fns)' THEN 1 ELSE 0
  BY <1>3 DEF Saved, HasExit
<1>6. mounts' \in Int
  BY <1>2
<1>7. CASE ~Mounting(t) /\ Mounting(u) /\ mounts' = mounts + 1
  <2>1. Mounters' = Mounters \cup {a} /\ a \notin Mounters
    BY <1>1, <1>7 DEF Mounters
  <2>2. Cardinality(Mounters') = Cardinality(Mounters) + 1
    BY <1>2, <2>1, FS_AddElement
  <2>3. Saved /\ reg => mounts' = Cardinality(Mounters)' + k
    BY <1>2, <1>3, <1>4, <1>7, <2>2
  <2> QED BY <1>5, <1>6, <2>3 DEF MountsOK
<1>8. CASE Mounting(t) /\ ~Mounting(u) /\ mounts' = mounts - 1
  <2>1. Mounters' = Mounters \ {a} /\ a \in Mounters
    BY <1>1, <1>8 DEF Mounters
  <2>2. Cardinality(Mounters') = Cardinality(Mounters) - 1
    BY <1>2, <2>1, FS_RemoveElement
  <2>3. Saved /\ reg => mounts' = Cardinality(Mounters)' + k
    BY <1>2, <1>3, <1>4, <1>8, <2>2
  <2> QED BY <1>5, <1>6, <2>3 DEF MountsOK
<1> QED BY <1>7, <1>8

\* A step of containerRestart that mounts or unmounts.
LEMMA RestartMoves ==
    ASSUME IInv, NEW a \in Actors, NEW t, NEW u \in Goroutine, t = th[a], ThreadOK(a, u),
           u.target = t.target, a # Restarter, th' = [th EXCEPT ![a] = u],
           \/ ~Mounting(t) /\ Mounting(u) /\ mounts' = mounts + 1
           \/ Mounting(t) /\ ~Mounting(u) /\ mounts' = mounts - 1,
           Removing(u) <=> Removing(t),
           t.pc \notin Locking, u.pc \notin Locking \cup {"select", "rmFiles"},
           Confirmed(u) => Gone(u) /\ (Removing(u) => proc = 0),
           autoRemove' \in BOOLEAN, autoRemove' => config.policy = "no",
           UNCHANGED <<config, reg, c, mutex, rm, hVars, eVars>>
    PROVE  IInv'
<1> USE DEF IInv
<1>1. UNCHANGED <<stream, handling, fns, tracked, proc, host>>
  BY DEF eVars, hVars
<1>2. MountsOK' /\ mounts' \in Int
  BY <1>1, MountsMoved
<1>3. TypeOK'
  BY <1>1, <1>2 DEF TypeOK
<1>4. ThreadsOK'
  BY ThreadsKept
<1>5. MutexOK'
  <2>1. mutex' = mutex /\ mutex # a /\ u.pc \notin Locking
    BY DEF MutexOK
  <2> QED BY <2>1, MutexKept
<1>6. CoreOK'
  <2>1. SameView
    BY ViewKept DEF Locking
  <2> QED BY <1>1, <2>1, CoreKept
<1>7. RemovalOK'
  BY <1>1, RemovalKept
<1>8. GoneOK'
  <2>1. u.target <= host.starts
    BY DEF GoneOK
  <2> QED BY <1>1, <2>1, GoneKept
<1>9. WaitersOK'
  BY WaitersKept DEF Locking
<1> QED BY <1>2, <1>3, <1>4, <1>5, <1>6, <1>7, <1>8, <1>9

\* A goroutine of containerRestart.
LEMMA Restarts ==
    ASSUME NEW a \in Actors, NEW t \in Goroutine, ThreadOK(a, t),
           t.pc \in {"restart", "restartStopped", "restartEnd"}
    PROVE  t.stk = <<"idle">> /\ t.op = "restart" /\ Role(a, t) = "restart" /\ a # Restarter
BY GoroutinesOK DEF ThreadOK, StackOK, Role

\* The calls of containerRestart.
LEMMA RestartCalls ==
    ASSUME NEW a \in Actors, NEW t \in Goroutine, ThreadOK(a, t), t.pc \in {"restart", "restartStopped"},
           NEW u, u = Call(t, "containerStop", "restartStopped") \/ u = Call(t, "containerStart", "restartEnd")
    PROVE  /\ u \in Goroutine /\ ThreadOK(a, u) /\ Kept(t, u) /\ u.saved = t.saved
           /\ u.pc \in {"containerStop", "containerStart"} /\ ~Removing(u) /\ Mounting(u) /\ ~Removing(t)
<1>1. PICK p, l : /\ \/ p = "containerStop" /\ l = "restartStopped"
                     \/ p = "containerStart" /\ l = "restartEnd"
                  /\ u = Call(t, p, l)
  OBVIOUS
<1>2. t.stk = <<"idle">> /\ t.op = "restart" /\ Role(a, t) = "restart" /\ a # Restarter
  BY Restarts
<1>3. p \in Labels /\ l \in Labels
  BY <1>1 DEF Labels
<1>4. /\ u \in Goroutine /\ u.pc = p /\ u.stk = OnTop(l, t.stk) /\ u.op = t.op
      /\ u.target = t.target /\ u.calls = t.calls /\ u.saved = t.saved
  BY <1>1, <1>3, CallIs
<1>5. PICK s \in Seq(Labels) : s = t.stk
  BY DEF Goroutine
<1>6. PICK q : q = OnTop(l, s)
  OBVIOUS
<1>7. s \in Entered("restart", {"restart"})
  BY <1>2, <1>5 DEF Entered
<1>8. q \in Push({l}, Entered("restart", {"restart"}))
  BY <1>6, <1>7, Pushed
<1>9. u.stk = q
  BY <1>4, <1>5, <1>6
<1>10. StackOK(u.pc, u.stk, "restart")
  <2>1. CASE p = "containerStop" /\ l = "restartStopped"
    BY <1>4, <1>8, <1>9, <2>1 DEF StopStacks, StackOK, Outermost, WaitLabels, KillLabels, StopLabels, RmLabels, RmBody
  <2>2. CASE p = "containerStart" /\ l = "restartEnd"
    BY <1>4, <1>8, <1>9, <2>2 DEF ClientStarts, StartStacks, StackOK, Outermost, WaitLabels, KillLabels, StopLabels, RmLabels, RmBody
  <2> QED BY <1>1, <2>1, <2>2
<1>11. Role(a, u) = "restart"
  BY <1>2, <1>4, Roles
<1>12. ThreadOK(a, u)
  BY <1>1, <1>4, <1>10, <1>11 DEF ThreadOK, Untimed, WaitLabels
<1>13. Rest(u.stk) = {l} \cup Rest(s) /\ Rest(s) = {"idle"}
  <2>1. Rest(OnTop(l, s)) = {l} \cup Rest(s)
    BY <1>3, PushPop
  <2>2. Rest(s) = {"idle"}
    BY <1>2, <1>5, Bottom
  <2> QED BY <1>4, <1>5, <2>1, <2>2
<1>14. ~Removing(u) /\ ~Removing(t)
  BY <1>1, <1>4, <1>5, <1>13 DEF Removing, RmBody
<1>15. Mounting(u)
  BY <1>1, <1>2, <1>4 DEF Mounting
<1> QED BY <1>1, <1>4, <1>12, <1>14, <1>15 DEF Kept

LEMMA RestartBeginKeeps ==
    ASSUME IInv, NEW a \in Actors, RestartBegin(a)
    PROVE  IInv'
<1>0. PICK t : t = th[a]
  OBVIOUS
<1>1. t \in Goroutine /\ ThreadOK(a, t) /\ t.pc = "restart" /\ Unlocked /\ mounts' = mounts + 1
  BY <1>0, Actor DEF RestartBegin, At
<1>2. t.op = "restart" /\ a # Restarter /\ ~Mounting(t) /\ t.pc \notin Locking
  BY <1>1, Restarts DEF Mounting, Locking
<1>3. UNCHANGED <<config, reg, c, mutex, rm, hVars, eVars>>
  BY DEF RestartBegin
<1>4. CASE c.Running
  <2>1. PICK w : w = Call(t, "containerStop", "restartStopped")
    OBVIOUS
  <2>2. /\ w \in Goroutine /\ ThreadOK(a, w) /\ Kept(t, w)
        /\ ~Removing(w) /\ Mounting(w) /\ ~Removing(t)
    BY <1>1, <2>1, RestartCalls
  <2>3. w.pc = "containerStop"
    BY <2>1, <1>1 DEF Call, Goroutine
  <2>4. PICK u : u = [w EXCEPT !.saved = autoRemove]
    OBVIOUS
  <2>5. autoRemove \in BOOLEAN /\ (autoRemove => config.policy = "no")
    BY DEF IInv, TypeOK, ThreadsOK
  <2>6. /\ u \in Goroutine /\ u.pc = w.pc /\ u.stk = w.stk /\ u.op = w.op /\ u.saved = autoRemove
        /\ u.target = w.target /\ u.timed = w.timed
    BY <2>2, <2>4, <2>5 DEF Goroutine
  <2>7. ThreadOK(a, u)
    BY <2>2, <2>5, <2>6 DEF ThreadOK, Role, Untimed
  <2>8. /\ Mounting(u) /\ ~Removing(u) /\ ~Confirmed(u) /\ u.target = t.target
        /\ u.pc \notin Locking \cup {"select", "rmFiles"}
    BY <2>2, <2>3, <2>6 DEF Mounting, Removing, Confirmed, Kept, Locking
  <2>9. autoRemove' = FALSE /\ th' = [th EXCEPT ![a] = u]
    BY <1>0, <1>4, <2>1, <2>4 DEF RestartBegin, Step
  <2> QED BY <1>0, <1>1, <1>2, <1>3, <2>2, <2>6, <2>7, <2>8, <2>9, RestartMoves
<1>5. CASE ~c.Running
  <2>1. PICK u : u = Call(t, "containerStart", "restartEnd")
    OBVIOUS
  <2>2. /\ u \in Goroutine /\ ThreadOK(a, u) /\ Kept(t, u)
        /\ ~Removing(u) /\ Mounting(u) /\ ~Removing(t)
        /\ u.pc \in {"containerStop", "containerStart"}
    BY <1>1, <2>1, RestartCalls
  <2>3. proc = 0
    BY <1>1, <1>5, StoppedIsDown
  <2>4. Gone(u) /\ u.pc \notin Locking \cup {"select", "rmFiles"} /\ u.target = t.target
    BY <2>2, <2>3 DEF Gone, Locking, Kept
  <2>5. autoRemove' = autoRemove /\ th' = [th EXCEPT ![a] = u]
    BY <1>0, <1>5, <2>1 DEF RestartBegin, Step
  <2>6. autoRemove' \in BOOLEAN /\ (autoRemove' => config.policy = "no")
    BY <2>5 DEF IInv, TypeOK, ThreadsOK
  <2> QED BY <1>0, <1>1, <1>2, <1>3, <2>2, <2>3, <2>4, <2>5, <2>6, RestartMoves
<1> QED BY <1>4, <1>5

LEMMA RestartStoppedKeeps ==
    ASSUME IInv, NEW a \in Actors, RestartStopped(a)
    PROVE  IInv'
<1>0. PICK t : t = th[a]
  OBVIOUS
<1>1. t \in Goroutine /\ ThreadOK(a, t) /\ t.pc = "restartStopped"
  BY <1>0, Actor DEF RestartStopped, At
<1>2. t.stk = <<"idle">> /\ t.op = "restart" /\ Role(a, t) = "restart" /\ a # Restarter
  BY <1>1, Restarts
<1>3. Aside
  <2>1. autoRemove' = t.saved /\ UNCHANGED <<config, reg, c, mutex, rm, mounts, hVars, eVars>>
    BY <1>0 DEF RestartStopped
  <2>2. t.saved \in BOOLEAN /\ (t.saved => config.policy = "no")
    BY <1>1 DEF Goroutine, ThreadOK
  <2> QED BY <2>1, <2>2 DEF Aside, IInv, TypeOK, hVars
<1>4. CASE t.res = "err"
  <2>1. PICK u : u = Goto(t, "restartEnd")
    OBVIOUS
  <2>2. "restartEnd" \in Labels
    BY DEF Labels
  <2>3. /\ u \in Goroutine /\ u.pc = "restartEnd" /\ u.stk = t.stk /\ u.op = t.op /\ u.res = "err"
        /\ u.target = t.target /\ u.calls = t.calls /\ u.saved = t.saved
    BY <1>1, <1>4, <2>1, <2>2, GotoIs
  <2>4. StackOK(u.pc, t.stk, Role(a, t))
    BY <1>2, <2>3 DEF StackOK, Outermost, WaitLabels, KillLabels, StopLabels, RmLabels, RmBody
  <2>5. /\ t.pc \notin {"idle", "restart"} /\ u.pc \notin {"idle", "restart"} \cup WaitLabels
        /\ u.pc \notin RmBody /\ t.pc \notin RmBody
    BY <1>1, <2>3 DEF WaitLabels, RmBody
  <2>6. Local(a, t, u)
    BY <1>1, <2>3, <2>4, <2>5, JumpLocal
  <2>7. ~Confirmed(u) /\ t.pc \notin Locking /\ u.pc \notin Locking \cup {"select", "rmFiles"}
    BY <1>1, <2>3 DEF Confirmed, Locking
  <2>8. th' = [th EXCEPT ![a] = u]
    BY <1>0, <1>4, <2>1 DEF RestartStopped, Step
  <2> QED BY <1>0, <1>2, <1>3, <2>6, <2>7, <2>8, Move
<1>5. CASE t.res # "err"
  <2>1. PICK u : u = Call(t, "containerStart", "restartEnd")
    OBVIOUS
  <2>2. /\ u \in Goroutine /\ ThreadOK(a, u) /\ Kept(t, u)
        /\ ~Removing(u) /\ Mounting(u) /\ ~Removing(t)
        /\ u.pc \in {"containerStop", "containerStart"}
    BY <1>1, <2>1, RestartCalls
  <2>3. Confirmed(t)
    BY <1>1, <1>5 DEF Confirmed, Goroutine
  <2>4. Local(a, t, u)
    BY <1>1, <1>2, <2>2 DEF Local, Mounting
  <2>5. t.pc \notin Locking /\ u.pc \notin Locking \cup {"select", "rmFiles"}
    BY <1>1, <2>2 DEF Locking
  <2>6. th' = [th EXCEPT ![a] = u]
    BY <1>0, <1>5, <2>1 DEF RestartStopped, Step
  <2> QED BY <1>0, <1>2, <1>3, <2>3, <2>4, <2>5, <2>6, Move
<1> QED BY <1>4, <1>5

LEMMA RestartEndKeeps ==
    ASSUME IInv, NEW a \in Actors, RestartEnd(a)
    PROVE  IInv'
<1>0. PICK t : t = th[a]
  OBVIOUS
<1>1. t \in Goroutine /\ ThreadOK(a, t) /\ t.pc = "restartEnd" /\ mounts' = mounts - 1
  BY <1>0, Actor DEF RestartEnd, At
<1>2. t.stk = <<"idle">> /\ t.op = "restart" /\ a # Restarter /\ Mounting(t) /\ t.pc \notin Locking
  BY <1>1, Restarts DEF Mounting, Locking
<1>3. PICK v \in {"ok", "err"} : v = t.res
  BY <1>1 DEF Goroutine
<1>4. PICK u : u = Return(t, v)
  OBVIOUS
<1>5. /\ u \in Goroutine /\ ThreadOK(a, u) /\ Kept(t, u) /\ u.res = v /\ u.pc = "idle"
      /\ ~Removing(u) /\ ~Mounting(u) /\ Rest(t.stk) \cap RmBody = {}
  BY <1>1, <1>2, <1>4, ReturnsIdle
<1>6. ~Removing(t) /\ u.target = t.target /\ u.pc \notin Locking \cup {"select", "rmFiles"}
  BY <1>1, <1>5 DEF Removing, RmBody, Kept, Locking
<1>7. Confirmed(u) => Gone(u)
  <2>1. Confirmed(u) => Confirmed(t)
    BY <1>1, <1>3, <1>5 DEF Confirmed
  <2> QED BY <1>0, <1>6, <2>1 DEF IInv, GoneOK, Gone
<1>8. th' = [th EXCEPT ![a] = u] /\ UNCHANGED <<config, autoRemove, reg, c, mutex, rm, hVars, eVars>>
  BY <1>0, <1>3, <1>4 DEF RestartEnd, Step
<1>9. autoRemove' \in BOOLEAN /\ (autoRemove' => config.policy = "no")
  BY <1>8 DEF IInv, TypeOK, ThreadsOK
<1> QED BY <1>0, <1>1, <1>2, <1>5, <1>6, <1>7, <1>8, <1>9, RestartMoves

LEMMA RestartKeeps ==
    ASSUME IInv, NEW a \in Actors, ContainerRestart(a)
    PROVE  IInv'
BY RestartBeginKeeps, RestartStoppedKeeps, RestartEndKeeps DEF ContainerRestart

----------------------------------------------------------------------------
(* Pause and unpause, signals, and the automatic removal                   *)

\* A request that runs no other procedure and stops nothing returns.
LEMMA RequestReturns ==
    ASSUME IInv, NEW a \in Actors, NEW t, t = th[a], t.stk = <<"idle">>,
           t.pc \notin RmBody, Role(a, t) \in {"pause", "unpause", "signal"},
           NEW v \in {"ok", "err"}, NEW u, u = Return(t, v)
    PROVE  Local(a, t, u) /\ u.pc = "idle" /\ ~Confirmed(u) /\ a # Restarter
<1>1. t \in Goroutine /\ ThreadOK(a, t)
  BY Actor
<1>2. a # Restarter /\ t.op \in {"pause", "unpause", "signal"}
  BY GoroutinesOK DEF Role
<1>3. /\ u \in Goroutine /\ ThreadOK(a, u) /\ Kept(t, u) /\ u.res = v /\ u.pc = "idle"
      /\ ~Removing(u) /\ ~Mounting(u) /\ Rest(t.stk) \cap RmBody = {}
  BY <1>1, ReturnsIdle
<1>4. Local(a, t, u)
  BY <1>2, <1>3 DEF Local, Removing, Mounting, Kept
<1>5. ~Confirmed(u)
  BY <1>2, <1>3 DEF Confirmed, StopOps, Kept
<1> QED BY <1>2, <1>3, <1>4, <1>5

\* A queue in which nothing is pending is empty.
LEMMA NothingPending ==
    ASSUME NEW s, Form(s), ~HasExit(s), ~HasPause(s)
    PROVE  s = <<>>
<1>1. CASE \E e \in Events : s = <<e>>
  BY <1>1 DEF HasExit, HasPause
<1>2. CASE \E p \in Events, x \in Events : p.type # "exit" /\ x.type = "exit" /\ s = <<p, x>>
  BY <1>2 DEF HasPause
<1> QED BY <1>1, <1>2 DEF Form

LEMMA OneEvent ==
    ASSUME NEW e \in Events
    PROVE  /\ Form(<<e>>) /\ <<e>> \in Seq(Events)
           /\ HasExit(<<e>>) <=> e.type = "exit"
           /\ HasPause(<<e>>) <=> e.type # "exit"
BY DEF Form, HasExit, HasPause

LEMMA NoEvent ==
    Form(<<>>) /\ ~HasExit(<<>>) /\ ~HasPause(<<>>)
BY DEF Form, HasExit, HasPause

LEMMA TwoEvents ==
    ASSUME NEW p \in Events, NEW x \in Events, p.type # "exit", x.type = "exit"
    PROVE  Form(<<p, x>>) /\ HasExit(<<p, x>>) /\ HasPause(<<p, x>>) /\ <<p, x>> \in Seq(Events)
<1>1. Form(<<p, x>>)
  BY DEF Form
<1>2. HasExit(<<p, x>>) /\ HasPause(<<p, x>>)
  BY DEF HasExit, HasPause
<1> QED BY <1>1, <1>2

LEMMA Appended ==
    ASSUME NEW p \in Events, NEW x \in Events
    PROVE  Append(<<p>>, x) = <<p, x>> /\ <<p>> \o <<x>> = <<p, x>>
<1> DEFINE q == Append(<<p>>, x)
          r == <<p>> \o <<x>>
          s == <<p, x>>
<1>1. /\ q \in Seq(Events) /\ Len(q) = 2 /\ q[1] = p /\ q[2] = x
  OBVIOUS
<1>2. /\ r \in Seq(Events) /\ Len(r) = 2 /\ r[1] = p /\ r[2] = x
  OBVIOUS
<1>3. /\ s \in Seq(Events) /\ Len(s) = 2 /\ s[1] = p /\ s[2] = x
  OBVIOUS
<1> HIDE DEF q, r, s
<1>4. \A i \in 1 .. 2 : q[i] = s[i] /\ r[i] = s[i]
  BY <1>1, <1>2, <1>3
<1>5. q = s /\ r = s
  BY <1>1, <1>2, <1>3, <1>4, SeqEqual
<1> QED BY <1>5 DEF q, r, s

\* containerd freezes or thaws the process, and its event is on the way.
LEMMA StateIsSet ==
    ASSUME IInv, NEW a \in Actors, NEW state \in {"pause", "resume"}, At(a, state), Unlocked,
           tracked, proc # 0, mutex' = a,
           host' = [host EXCEPT !.frozen = (state = "pause")],
           stream' = Append(stream, [type |-> state, code |-> 0]),
           Step(a, Goto(th[a], "setState")),
           UNCHANGED <<config, autoRemove, reg, c, rm, mounts, proc, tracked, handling, fns>>
    PROVE  IInv'
<1> USE DEF IInv
<1>0. PICK t : t = th[a]
  OBVIOUS
<1>1. t \in Goroutine /\ ThreadOK(a, t) /\ t.pc = state /\ t.target <= host.starts
  BY <1>0, Actor DEF At
<1>2. PICK u : u = Goto(t, "setState")
  OBVIOUS
<1>3. "setState" \in Labels /\ th' = [th EXCEPT ![a] = u]
  BY <1>0, <1>2 DEF Labels, Step
<1>4. /\ u \in Goroutine /\ u.pc = "setState" /\ u.stk = t.stk /\ u.op = t.op
      /\ u.target = t.target /\ u.calls = t.calls /\ u.saved = t.saved
  BY <1>1, <1>2, <1>3, GotoIs
<1>5. StackOK(u.pc, t.stk, Role(a, t)) /\ Role(a, t) \in {"pause", "unpause"}
  BY <1>1, <1>4 DEF ThreadOK, StackOK, Outermost, WaitLabels, KillLabels, StopLabels, RmLabels, RmBody
<1>6. Local(a, t, u)
  <2>1. /\ t.pc \notin {"idle", "restart"} /\ u.pc \notin {"idle", "restart"} \cup WaitLabels
        /\ u.pc \notin RmBody /\ t.pc \notin RmBody
    BY <1>1, <1>4 DEF WaitLabels, RmBody
  <2> QED BY <1>1, <1>4, <1>5, <2>1, JumpLocal
<1>7. th'[a] = u /\ a # Restarter
  BY <1>3, <1>5, GoroutinesOK DEF TypeOK, Role
<1>8. /\ u \in Goroutine /\ ThreadOK(a, u) /\ Kept(t, u)
      /\ Removing(u) <=> Removing(t)
      /\ Mounting(u) <=> Mounting(t)
  BY <1>6 DEF Local
<1>9. /\ host' \in [starts : Pids, frozen : BOOLEAN, killed : BOOLEAN]
      /\ host'.starts = host.starts /\ (host'.frozen <=> state = "pause")
  BY DEF TypeOK
<1>10. ~PausePending /\ ~ExitPending /\ ~c.Dead
  BY NoPauseUnlocked DEF CoreOK, ProcessOK, RemovalOK
<1>11. stream = <<>> /\ handling = <<>> /\ fns = <<>>
  BY <1>10, NothingPending DEF PausePending, ExitPending, Unread, CoreOK, QueuesOK
<1>12. PICK e \in Events : e = [type |-> state, code |-> 0]
  BY DEF Events
<1>13. stream' = <<e>> /\ handling' = <<>> /\ fns' = <<>> /\ e.type = state
  BY <1>11, <1>12
<1>14. /\ Form(stream') /\ ~HasExit(stream') /\ HasPause(stream') /\ stream' \in Seq(Events)
       /\ Form(handling') /\ ~HasExit(handling') /\ ~HasPause(handling')
       /\ Form(fns') /\ ~HasExit(fns') /\ ~HasPause(fns') /\ Len(handling') < 2
  <2>1. /\ Form(stream') /\ ~HasExit(stream') /\ HasPause(stream') /\ stream' \in Seq(Events)
    BY <1>13, OneEvent
  <2>2. Len(handling') < 2
    BY <1>13
  <2>3. /\ Form(handling') /\ ~HasExit(handling') /\ ~HasPause(handling')
        /\ Form(fns') /\ ~HasExit(fns') /\ ~HasPause(fns')
    BY <1>13, NoEvent
  <2> QED BY <2>1, <2>2, <2>3
<1>15. TypeOK'
  <2>1. th' \in [Actors -> Goroutine]
    BY <1>3, <1>4 DEF TypeOK
  <2> QED BY <1>9, <1>14, <2>1 DEF TypeOK
<1>16. ThreadsOK'
  <2>1. autoRemove' => config.policy = "no"
    BY DEF ThreadsOK
  <2> QED BY <1>3, <1>7, <1>8, <2>1, ThreadsKept
<1>17. MutexOK'
  <2>1. \A b \in Actors : b # a => (mutex' = b <=> mutex = b)
    BY GoroutinesOK DEF Unlocked, Actors
  <2> QED BY <1>3, <1>4, <2>1, MutexKept DEF Locking
<1>18. SameView
  <2>1. th[a].pc \notin {"stateStart", "setState"} /\ u.pc # "stateStart"
    BY <1>0, <1>1, <1>4
  <2> QED BY <1>3, <1>7, <2>1, ViewKept
<1>19. /\ ~Unread' /\ ~ExitPending' /\ PausePending' /\ ~Unread
  BY <1>10, <1>14 DEF Unread, ExitPending, PausePending
<1>20. QueuesOK'
  <2>1. PauseFits(stream)' /\ PauseFits(handling)' /\ PauseFits(fns)'
    BY <1>9, <1>13, <1>14 DEF PauseFits
  <2>2. \E b \in Actors : At(b, "setState")'
    BY <1>4, <1>7 DEF At
  <2> QED BY <1>10, <1>14, <1>19, <2>1, <2>2 DEF QueuesOK
<1>21. ProcessOK'
  BY <1>9, <1>18, <1>19 DEF CoreOK, ProcessOK, SameView, Saved
<1>22. BeliefOK'
  BY <1>9, <1>18, <1>19 DEF CoreOK, BeliefOK, SameView, Saved
<1>23. RemovalOK'
  BY <1>0, <1>3, <1>4, <1>8, RemovalKept
<1>24. GoneOK'
  <2>1. ~Confirmed(u) /\ u.target <= host.starts
    BY <1>1, <1>4 DEF Confirmed
  <2> QED BY <1>3, <1>9, <2>1, GoneKept
<1>25. WaitersOK'
  BY <1>3, <1>4, WaitersKept
<1>26. MountsOK'
  BY <1>0, <1>3, <1>8, MountsKept
<1> QED BY <1>15, <1>16, <1>17, <1>20, <1>21, <1>22, <1>23, <1>24, <1>25, <1>26 DEF CoreOK

LEMMA SetStateEndKeeps ==
    ASSUME IInv, NEW a \in Actors, SetStateEnd(a)
    PROVE  IInv'
<1> USE DEF IInv
<1>0. PICK t : t = th[a]
  OBVIOUS
<1>1. t \in Goroutine /\ ThreadOK(a, t) /\ t.pc = "stateSet" /\ t.target <= host.starts
  BY <1>0, Actor DEF SetStateEnd, At
<1>2. PICK u : u = Return(t, "ok")
  OBVIOUS
<1>3. /\ mutex' = Nobody /\ th' = [th EXCEPT ![a] = u]
      /\ UNCHANGED <<config, autoRemove, reg, c, rm, mounts, hVars, eVars>>
  BY <1>0, <1>2 DEF SetStateEnd, Step
<1>4. UNCHANGED <<stream, handling, fns, tracked, proc, host>>
  BY <1>3 DEF eVars, hVars
<1>5. t.stk = <<"idle">> /\ t.pc \notin RmBody /\ Role(a, t) \in {"pause", "unpause", "signal"}
  BY <1>1 DEF ThreadOK, StackOK, RmBody
<1>6. Local(a, t, u) /\ u.pc = "idle" /\ ~Confirmed(u) /\ a # Restarter
  BY <1>0, <1>2, <1>5, RequestReturns
<1>7. /\ u \in Goroutine /\ ThreadOK(a, u) /\ Kept(t, u)
      /\ Removing(u) <=> Removing(t)
      /\ Mounting(u) <=> Mounting(t)
  BY <1>6 DEF Local
<1>8. TypeOK'
  BY <1>3, <1>4, <1>7 DEF TypeOK
<1>9. ThreadsOK'
  <2>1. autoRemove' => config.policy = "no"
    BY <1>3 DEF ThreadsOK
  <2> QED BY <1>3, <1>6, <1>7, <2>1, ThreadsKept
<1>10. MutexOK'
  <2>1. mutex = a /\ mutex' \notin Actors
    BY <1>0, <1>1, <1>3, GoroutinesOK DEF MutexOK, Locking, Actors
  <2> QED BY <1>3, <1>6, <2>1, MutexKept DEF Locking
<1>11. CoreOK'
  <2>1. th[a].pc \notin {"stateStart", "setState"} /\ u.pc # "stateStart"
    BY <1>0, <1>1, <1>6
  <2>2. SameView
    BY <1>3, <1>6, <2>1, ViewKept
  <2> QED BY <1>3, <1>4, <2>2, CoreKept
<1>12. RemovalOK'
  BY <1>0, <1>3, <1>4, <1>6, <1>7, RemovalKept
<1>13. GoneOK'
  <2>1. u.target <= host.starts
    BY <1>1, <1>7 DEF Kept
  <2> QED BY <1>3, <1>4, <1>6, <2>1, GoneKept
<1>14. WaitersOK'
  BY <1>3, <1>6, WaitersKept
<1>15. MountsOK'
  BY <1>0, <1>3, <1>4, <1>7, MountsKept
<1> QED BY <1>8, <1>9, <1>10, <1>11, <1>12, <1>13, <1>14, <1>15

LEMMA PauseKeeps ==
    ASSUME IInv, NEW a \in Actors, ContainerPause(a)
    PROVE  IInv'
<1>0. PICK t : t = th[a]
  OBVIOUS
<1>1. CASE SetStateEnd(a)
  BY <1>1, SetStateEndKeeps
<1>2. ASSUME NEW state \in {"pause", "resume"}, SetStateBegin(a, state) PROVE IInv'
  <2>1. CASE JustReturn(a, "err")
    <3>1. PICK u : u = Return(t, "err")
      OBVIOUS
    <3>2. Aside /\ th' = [th EXCEPT ![a] = u] /\ t.pc = state
      BY <1>0, <1>2, <2>1, <3>1, AsideNothing DEF SetStateBegin, JustReturn, Step, At, IInv
    <3>3. t.stk = <<"idle">> /\ t.pc \notin RmBody /\ Role(a, t) \in {"pause", "unpause", "signal"}
      BY <1>0, <3>2, Actor DEF ThreadOK, StackOK, RmBody
    <3>4. Local(a, t, u) /\ u.pc = "idle" /\ ~Confirmed(u) /\ a # Restarter
      BY <1>0, <3>1, <3>3, RequestReturns
    <3>5. t.pc \notin Locking /\ u.pc \notin Locking \cup {"select", "rmFiles"}
      BY <3>2, <3>4 DEF Locking
    <3> QED BY <1>0, <3>2, <3>4, <3>5, Move
  <2>2. CASE ~JustReturn(a, "err")
    <3>1. /\ tracked /\ proc # 0 /\ mutex' = a /\ At(a, state) /\ Unlocked
          /\ host' = [host EXCEPT !.frozen = (state = "pause")]
          /\ stream' = Append(stream, [type |-> state, code |-> 0])
          /\ Step(a, Goto(th[a], "setState"))
          /\ UNCHANGED <<config, autoRemove, reg, c, rm, mounts, proc, tracked, handling, fns>>
      BY <1>2, <2>2 DEF SetStateBegin
    <3> QED BY <3>1, StateIsSet
  <2> QED BY <2>1, <2>2
<1> QED BY <1>1, <1>2 DEF ContainerPause

LEMMA SignalKeeps ==
    ASSUME IInv, NEW a \in Actors, SendSignal(a)
    PROVE  IInv'
<1>0. PICK t : t = th[a]
  OBVIOUS
<1>1. PICK sig \in {"stop", "other"} :
        KillWithSignal(a, sig, Return(th[a], "ok"), Return(th[a], "err"))
  BY DEF SendSignal
<1>2. PICK v, w : v = Return(t, "ok") /\ w = Return(t, "err")
  OBVIOUS
<1>3. KillWithSignal(a, sig, v, w)
  BY <1>0, <1>1, <1>2
<1>4. Aside /\ (th' = [th EXCEPT ![a] = v] \/ th' = [th EXCEPT ![a] = w])
  BY <1>3, SignalAside
<1>5. t.pc = "signal" /\ t.stk = <<"idle">> /\ t.pc \notin RmBody /\ Role(a, t) \in {"pause", "unpause", "signal"}
  BY <1>0, Actor DEF SendSignal, At, ThreadOK, StackOK, RmBody
<1>6. /\ Local(a, t, v) /\ v.pc = "idle" /\ ~Confirmed(v) /\ a # Restarter
      /\ Local(a, t, w) /\ w.pc = "idle" /\ ~Confirmed(w)
  BY <1>0, <1>2, <1>5, RequestReturns
<1>7. t.pc \notin Locking /\ "idle" \notin Locking \cup {"select", "rmFiles"}
  BY <1>5 DEF Locking
<1>8. CASE th' = [th EXCEPT ![a] = v]
  BY <1>0, <1>4, <1>6, <1>7, <1>8, Move
<1>9. CASE th' = [th EXCEPT ![a] = w]
  BY <1>0, <1>4, <1>6, <1>7, <1>9, Move
<1> QED BY <1>4, <1>8, <1>9

\* The two goroutines that no request runs call nothing between their steps.
LEMMA Between ==
    ASSUME IInv, NEW a \in {Monitor, Restarter}, NEW t, t = th[a], t.pc \in Outermost
    PROVE  /\ t \in Goroutine /\ ThreadOK(a, t) /\ t.stk = <<>> /\ t.op = None
           /\ ~Removing(t) /\ ~Mounting(t)
           /\ Role(a, t) = IF a = Monitor THEN "monitor" ELSE "restarter"
<1>1. t \in Goroutine /\ ThreadOK(a, t)
  BY Actor DEF Actors
<1>2. t.stk = <<>> /\ t.op = None
  BY <1>1 DEF ThreadOK, StackOK
<1>3. ~Removing(t) /\ ~Mounting(t)
  BY <1>2, Bottom DEF Removing, Mounting, RmBody, Outermost, None
<1> QED BY <1>1, <1>2, <1>3 DEF Role

\* They go from one point outside any procedure to another.
LEMMA BetweenLocal ==
    ASSUME IInv, NEW a \in {Monitor, Restarter}, NEW t, t = th[a], t.pc \in Outermost,
           NEW u \in Goroutine, u.pc \in Outermost, u.stk = <<>>, u.op = t.op,
           u.target = t.target, u.calls = t.calls, u.saved = t.saved,
           u.pc \in {"restartWait", "restarted"} => a = Restarter
    PROVE  Local(a, t, u) /\ ~Confirmed(u) /\ ~Removing(u)
<1>1. /\ t \in Goroutine /\ ThreadOK(a, t) /\ t.stk = <<>> /\ t.op = None
      /\ ~Removing(t) /\ ~Mounting(t)
      /\ Role(a, t) = IF a = Monitor THEN "monitor" ELSE "restarter"
  BY Between
<1>2. StackOK(u.pc, u.stk, Role(a, t))
  BY <1>1, GoroutinesOK DEF StackOK, Outermost, WaitLabels, KillLabels, StopLabels, RmLabels, RmBody
<1>3. Role(a, u) = Role(a, t)
  BY Roles
<1>4. ThreadOK(a, u)
  BY <1>1, <1>2, <1>3 DEF ThreadOK, Untimed, Outermost, WaitLabels
<1>5. ~Removing(u) /\ ~Mounting(u) /\ ~Confirmed(u)
  BY <1>1, Bottom DEF Removing, Mounting, Confirmed, RmBody, Outermost, None, StopOps
<1> QED BY <1>1, <1>4, <1>5 DEF Local, Kept

LEMMA AutoRemoveKeeps ==
    ASSUME IInv, NEW a \in Actors, AutoRemove(a)
    PROVE  IInv'
<1>0. PICK t : t = th[a]
  OBVIOUS
<1>1. t \in Goroutine /\ ThreadOK(a, t) /\ t.pc = "autoRemove" /\ t.pc \in Outermost
  BY <1>0, Actor DEF AutoRemove, At, Outermost
<1>2. a \in {Monitor, Restarter}
  BY <1>1 DEF ThreadOK, StackOK, Role, Goroutine, AllOps, None
<1>3. /\ t.stk = <<>> /\ t.op = None /\ ~Removing(t) /\ ~Mounting(t)
      /\ Role(a, t) = IF a = Monitor THEN "monitor" ELSE "restarter"
  BY <1>0, <1>1, <1>2, Between
<1>4. a = Restarter => config.policy # "no"
  BY <1>0, <1>1 DEF IInv, ThreadsOK, At
<1>5. Aside
  BY AsideNothing DEF AutoRemove, JustStep, IInv
<1>6. CASE ~autoRemove
  <2>1. PICK u : u = Goto(t, "idle")
    OBVIOUS
  <2>2. "idle" \in Labels /\ "idle" \in Outermost
    BY DEF Labels, Outermost
  <2>3. /\ u \in Goroutine /\ u.pc = "idle" /\ u.stk = t.stk /\ u.op = t.op
        /\ u.target = t.target /\ u.calls = t.calls /\ u.saved = t.saved
    BY <1>1, <2>1, <2>2, GotoIs
  <2>4. Local(a, t, u) /\ ~Confirmed(u)
    BY <1>0, <1>1, <1>2, <1>3, <2>2, <2>3, BetweenLocal
  <2>5. th' = [th EXCEPT ![a] = u]
    BY <1>0, <1>6, <2>1 DEF AutoRemove, JustStep, Step
  <2>6. t.pc \notin Locking /\ u.pc \notin Locking \cup {"select", "rmFiles"}
    BY <1>1, <2>3 DEF Locking
  <2>7. a = Restarter => (RestartDue' <=> RestartDue)
    <3>1. th'[a] = u
      BY <2>5 DEF IInv, TypeOK
    <3> QED BY <1>0, <1>1, <2>3, <3>1 DEF RestartDue, At
  <2> QED BY <1>0, <1>4, <1>5, <2>4, <2>5, <2>6, <2>7, Plain
<1>7. CASE autoRemove
  <2>1. a # Restarter /\ a = Monitor
    BY <1>2, <1>4, <1>7 DEF IInv, ThreadsOK
  <2>2. PICK w : w = Call(t, "rmLookup", "idle")
    OBVIOUS
  <2>3. PICK u : u = [w EXCEPT !.force = TRUE]
    OBVIOUS
  <2>4. "rmLookup" \in Labels /\ "idle" \in Labels
    BY DEF Labels
  <2>5. /\ w \in Goroutine /\ w.pc = "rmLookup" /\ w.stk = OnTop("idle", t.stk) /\ w.op = t.op
        /\ w.target = t.target /\ w.calls = t.calls /\ w.saved = t.saved
    BY <1>1, <2>2, <2>4, CallIs
  <2>6. /\ u \in Goroutine /\ u.pc = "rmLookup" /\ u.stk = OnTop("idle", t.stk) /\ u.op = t.op
        /\ u.target = t.target /\ u.calls = t.calls /\ u.saved = t.saved
    BY <2>3, <2>5 DEF Goroutine
  <2>7. OnTop("idle", t.stk) = <<"idle">>
    BY <1>3 DEF OnTop
  <2>8. StackOK(u.pc, u.stk, Role(a, t))
    <3>1. u.stk \in RmStacks("monitor")
      BY <2>6, <2>7 DEF RmStacks, Entered
    <3> QED BY <1>3, <2>1, <2>6, <3>1 DEF StackOK, Outermost, WaitLabels, KillLabels, StopLabels, RmLabels, RmBody
  <2>9. /\ u.pc \notin {"idle", "restart"} \cup RmBody /\ t.pc \notin {"idle", "restart"}
        /\ t.pc \notin RmBody /\ "idle" \notin RmBody /\ Untimed(u)
    BY <1>1, <2>6 DEF RmBody, Untimed, WaitLabels
  <2>10. Local(a, t, u)
    <3>1. PICK l \in Labels : l = "idle"
      BY <2>4
    <3>2. u.stk = OnTop(l, t.stk) /\ l \notin RmBody
      BY <2>6, <2>9, <3>1
    <3> QED BY <1>1, <2>6, <2>8, <2>9, <3>2, CallLocal
  <2>11. ~Confirmed(u) /\ t.pc \notin Locking /\ u.pc \notin Locking \cup {"select", "rmFiles"}
    BY <1>1, <2>6 DEF Confirmed, Locking
  <2>12. th' = [th EXCEPT ![a] = u]
    BY <1>0, <1>7, <2>2, <2>3 DEF AutoRemove, JustStep, Step
  <2> QED BY <1>0, <1>5, <2>1, <2>10, <2>11, <2>12, Move
<1> QED BY <1>6, <1>7

LEMMA RestartWaitKeeps ==
    ASSUME IInv, RestartWait
    PROVE  IInv'
<1>0. PICK a \in Actors : a = Restarter
  BY DEF Actors
<1>1. PICK t : t = th[a]
  OBVIOUS
<1>2. t.pc = "restartWait" /\ t.pc \in Outermost /\ config.policy # "no"
  BY <1>0, <1>1 DEF RestartWait, At, Outermost, IInv, ThreadsOK
<1>3. /\ t \in Goroutine /\ ThreadOK(a, t) /\ t.stk = <<>> /\ t.op = None
      /\ ~Removing(t) /\ ~Mounting(t) /\ Role(a, t) = "restarter"
  BY <1>0, <1>1, <1>2, Between, GoroutinesOK
<1>4. t.pc \notin Locking /\ RestartDue
  BY <1>0, <1>1, <1>2 DEF Locking, RestartDue
<1>5. CASE JustStep(Restarter, [Goto(th[Restarter], "restarted") EXCEPT !.res = "err"])
  <2>1. PICK w : w = Goto(t, "restarted")
    OBVIOUS
  <2>2. PICK u : u = [w EXCEPT !.res = "err"]
    OBVIOUS
  <2>3. "restarted" \in Labels /\ "restarted" \in Outermost
    BY DEF Labels, Outermost
  <2>4. /\ w \in Goroutine /\ w.pc = "restarted" /\ w.stk = t.stk /\ w.op = t.op
        /\ w.target = t.target /\ w.calls = t.calls /\ w.saved = t.saved
    BY <1>3, <2>1, <2>3, GotoIs
  <2>5. /\ u \in Goroutine /\ u.pc = "restarted" /\ u.stk = t.stk /\ u.op = t.op /\ u.res = "err"
        /\ u.target = t.target /\ u.calls = t.calls /\ u.saved = t.saved
    BY <2>2, <2>4 DEF Goroutine
  <2>6. Local(a, t, u) /\ ~Confirmed(u)
    BY <1>0, <1>1, <1>2, <1>3, <2>3, <2>5, BetweenLocal
  <2>7. th' = [th EXCEPT ![a] = u] /\ Aside
    BY <1>0, <1>1, <1>5, <2>1, <2>2, AsideNothing DEF JustStep, Step, IInv
  <2>8. RestartDue'
    <3>1. th'[a] = u
      BY <2>7 DEF IInv, TypeOK
    <3> QED BY <1>0, <2>5, <3>1 DEF RestartDue, At
  <2>9. u.pc \notin Locking \cup {"select", "rmFiles"}
    BY <2>5 DEF Locking
  <2> QED BY <1>1, <1>2, <1>4, <2>6, <2>7, <2>8, <2>9, Plain
<1>6. CASE /\ rm' = [rm EXCEPT !.active = FALSE]
           /\ Step(Restarter, Call(th[Restarter], "containerStart", "restarted"))
           /\ UNCHANGED <<config, autoRemove, reg, c, mutex, mounts, hVars, eVars>>
  <2>1. PICK u : u = Call(t, "containerStart", "restarted")
    OBVIOUS
  <2>2. "containerStart" \in Labels /\ "restarted" \in Labels
    BY DEF Labels
  <2>3. /\ u \in Goroutine /\ u.pc = "containerStart" /\ u.stk = OnTop("restarted", t.stk)
        /\ u.op = t.op /\ u.target = t.target /\ u.calls = t.calls /\ u.saved = t.saved
    BY <1>3, <2>1, <2>2, CallIs
  <2>4. OnTop("restarted", t.stk) = <<"restarted">>
    BY <1>3 DEF OnTop
  <2>5. StackOK(u.pc, u.stk, Role(a, t))
    <3>1. u.stk \in StartStacks("restarter")
      BY <2>3, <2>4 DEF StartStacks
    <3> QED BY <1>3, <2>3, <3>1 DEF StackOK, Outermost, WaitLabels, KillLabels, StopLabels, RmLabels, RmBody
  <2>6. /\ u.pc \notin {"idle", "restart"} \cup RmBody /\ t.pc \notin {"idle", "restart"}
        /\ t.pc \notin RmBody /\ "restarted" \notin RmBody /\ Untimed(u)
    BY <1>2, <2>3 DEF RmBody, Untimed, WaitLabels
  <2>7. Local(a, t, u)
    <3>1. PICK l \in Labels : l = "restarted"
      BY <2>2
    <3>2. u.stk = OnTop(l, t.stk) /\ l \notin RmBody
      BY <2>3, <2>6, <3>1
    <3> QED BY <1>3, <2>3, <2>5, <2>6, <3>2, CallLocal
  <2>8. Head(u.stk) = "restarted"
    BY <2>3, <2>4, Bottom
  <2>9. ~Confirmed(u) /\ u.pc \notin Locking \cup {"select", "rmFiles"}
    BY <2>3, <2>8 DEF Confirmed, Locking
  <2>10. th' = [th EXCEPT ![a] = u]
    BY <1>0, <1>1, <1>6, <2>1 DEF Step
  <2>11. Aside
    <3>1. rm' \in [canceled : BOOLEAN, active : BOOLEAN, count : Nat]
      BY <1>6 DEF IInv, TypeOK
    <3> QED BY <1>6, <3>1 DEF Aside, IInv, TypeOK, ThreadsOK, hVars
  <2>12. RestartDue'
    <3>1. th'[a] = u
      BY <2>10 DEF IInv, TypeOK
    <3> QED BY <1>0, <2>3, <3>1 DEF RestartDue, At
  <2> QED BY <1>1, <1>2, <1>4, <2>7, <2>9, <2>10, <2>11, <2>12, Plain
<1> QED BY <1>5, <1>6 DEF RestartWait

----------------------------------------------------------------------------
(* Requests                                                                *)

\* Where each request begins.
LEMMA Entries ==
    ASSUME NEW op \in AllOps, Entry(op) # None
    PROVE  \/ op = "start" /\ Entry(op) = "containerStart"
           \/ op \in {"stop", "stopForever"} /\ Entry(op) = "containerStop"
           \/ op = "kill" /\ Entry(op) = "kill"
           \/ op = "signal" /\ Entry(op) = "signal"
           \/ op \in {"rm", "rmForce"} /\ Entry(op) = "rmMark"
           \/ op = "restart" /\ Entry(op) = "restart"
           \/ op = "pause" /\ Entry(op) = "pause"
           \/ op = "unpause" /\ Entry(op) = "resume"
           \/ op = "wait" /\ Entry(op) = "waitStop"
<1>1. CASE op = "start"
  BY <1>1 DEF Entry
<1>2. CASE op \in {"stop", "stopForever"}
  BY <1>2 DEF Entry
<1>3. CASE op = "kill"
  BY <1>3 DEF Entry
<1>4. CASE op = "signal"
  BY <1>4 DEF Entry
<1>5. CASE op \in {"rm", "rmForce"}
  BY <1>5 DEF Entry
<1>6. CASE op = "restart"
  BY <1>6 DEF Entry
<1>7. CASE op = "pause"
  BY <1>7 DEF Entry
<1>8. CASE op = "unpause"
  BY <1>8 DEF Entry
<1>9. CASE op = "wait"
  BY <1>9 DEF Entry
<1> QED BY <1>1, <1>2, <1>3, <1>4, <1>5, <1>6, <1>7, <1>8, <1>9 DEF AllOps

\* A request begins in a procedure that its kind of request may run.
LEMMA EntryStack ==
    ASSUME NEW op, NEW p,
           \/ op = "start" /\ p = "containerStart"
           \/ op \in {"stop", "stopForever"} /\ p = "containerStop"
           \/ op = "kill" /\ p = "kill"
           \/ op = "signal" /\ p = "signal"
           \/ op \in {"rm", "rmForce"} /\ p = "rmMark"
           \/ op = "restart" /\ p = "restart"
           \/ op = "pause" /\ p = "pause"
           \/ op = "unpause" /\ p = "resume"
           \/ op = "wait" /\ p = "waitStop"
    PROVE  /\ StackOK(p, <<"idle">>, op) /\ p \in Labels
           /\ p \notin RmBody \cup Locking \cup {"idle", "select", "rmFiles", "waitChan"}
           /\ op = "restart" => p = "restart"
<1>1. /\ p \in Labels
      /\ p \notin RmBody \cup Locking \cup {"idle", "select", "rmFiles", "waitChan"}
      /\ op = "restart" => p = "restart"
  BY DEF Labels, RmBody, Locking
<1>2. PICK s : s = <<"idle">>
  OBVIOUS
<1>3. \A ops : op \in ops => s \in Entered(op, ops)
  BY <1>2 DEF Entered
<1>4. /\ op = "start" => s \in StartStacks(op)
      /\ op \in {"stop", "stopForever"} => s \in StopStacks(op)
      /\ op = "kill" => s \in KillStacks(op)
      /\ op \in {"rm", "rmForce"} => s \in RmStacks(op)
      /\ op = "wait" => s \in WaitStacks(op)
  <2>1. op = "start" => s \in StartStacks(op)
    BY <1>3 DEF StartStacks, ClientStarts
  <2>2. op \in {"stop", "stopForever"} => s \in StopStacks(op)
    BY <1>3 DEF StopStacks
  <2>3. op = "kill" => s \in KillStacks(op)
    BY <1>3 DEF KillStacks
  <2>4. op \in {"rm", "rmForce"} => s \in RmStacks(op)
    BY <1>3 DEF RmStacks
  <2>5. op = "wait" => s \in WaitStacks(op)
    BY <1>3 DEF WaitStacks
  <2> QED BY <2>1, <2>2, <2>3, <2>4, <2>5
<1>5. StackOK(p, s, op)
  BY <1>2, <1>4 DEF StackOK, Outermost, WaitLabels, KillLabels, StopLabels, RmLabels, RmBody
<1> QED BY <1>1, <1>2, <1>5

LEMMA RequestKeeps ==
    ASSUME IInv, NEW a \in Clients, Request(a)
    PROVE  IInv'
<1> USE DEF IInv
<1>0. a \in Actors /\ a # Restarter /\ a # Monitor
  BY GoroutinesOK DEF Actors
<1>1. PICK t : t = th[a]
  OBVIOUS
<1>2. /\ t \in Goroutine /\ ThreadOK(a, t) /\ t.pc = "idle" /\ t.calls < MaxCalls
  BY <1>0, <1>1, Actor DEF Request, At
<1>3. PICK op \in config.ops :
        /\ Entry(op) # None
        /\ JustStep(a, [NewGoroutine EXCEPT
                          !.pc = Entry(op), !.stk = <<"idle">>, !.op = op,
                          !.force = (op = "rmForce"), !.forever = (op = "stopForever"),
                          !.target = proc, !.calls = th[a].calls + 1])
  BY DEF Request
<1>4. op \in AllOps
  BY BoundsOK DEF TypeOK, Setup
<1>5. PICK p : p = Entry(op)
  OBVIOUS
<1>6. /\ StackOK(p, <<"idle">>, op) /\ p \in Labels
      /\ p \notin RmBody \cup Locking \cup {"idle", "select", "rmFiles", "waitChan"}
      /\ op = "restart" => p = "restart"
  <2>1. \/ op = "start" /\ p = "containerStart"
        \/ op \in {"stop", "stopForever"} /\ p = "containerStop"
        \/ op = "kill" /\ p = "kill"
        \/ op = "signal" /\ p = "signal"
        \/ op \in {"rm", "rmForce"} /\ p = "rmMark"
        \/ op = "restart" /\ p = "restart"
        \/ op = "pause" /\ p = "pause"
        \/ op = "unpause" /\ p = "resume"
        \/ op = "wait" /\ p = "waitStop"
    BY <1>3, <1>4, <1>5, Entries
  <2> QED BY <2>1, EntryStack
<1>7. PICK u : u = [NewGoroutine EXCEPT
                      !.pc = p, !.stk = <<"idle">>, !.op = op,
                      !.force = (op = "rmForce"), !.forever = (op = "stopForever"),
                      !.target = proc, !.calls = t.calls + 1]
  OBVIOUS
<1>8. /\ u.pc = p /\ u.stk = <<"idle">> /\ u.op = op /\ u.target = proc
      /\ u.calls = t.calls + 1 /\ u.saved = FALSE
  BY <1>7 DEF NewGoroutine
<1>9. u \in Goroutine
  <2>1. t.calls + 1 \in 0 .. MaxCalls
    BY <1>2, BoundsOK DEF Goroutine
  <2>2. <<"idle">> \in Seq(Labels) /\ Asleep \in Codes \cup {Asleep} /\ 0 \in Codes /\ proc \in Pids
    BY Bottom DEF Codes, TypeOK
  <2>3. op \in AllOps \cup {None}
    BY <1>4
  <2> QED BY <1>6, <1>7, <2>1, <2>2, <2>3 DEF NewGoroutine, Goroutine
<1>10. /\ th' = [th EXCEPT ![a] = u] /\ UNCHANGED <<config, dVars, hVars, eVars>>
  BY <1>1, <1>3, <1>5, <1>7 DEF JustStep, Step
<1>11. UNCHANGED <<autoRemove, reg, c, mutex, rm, mounts, proc, host, tracked, stream, handling, fns>>
  BY <1>10 DEF dVars, hVars, eVars
<1>12. Head(u.stk) = "idle" /\ Rest(u.stk) = {"idle"}
  BY <1>8, Bottom
<1>13. ThreadOK(a, u)
  <2>1. Role(a, u) = op
    BY <1>0, <1>8 DEF Role
  <2>2. Untimed(u)
    BY <1>12 DEF Untimed
  <2> QED BY <1>0, <1>6, <1>8, <2>1, <2>2 DEF ThreadOK
<1>14. ~Removing(u) /\ ~Removing(t) /\ ~Mounting(u) /\ ~Mounting(t)
  <2>1. t.stk = <<>>
    BY <1>2 DEF ThreadOK, StackOK, Outermost
  <2>2. Rest(t.stk) = {}
    BY <2>1, Bottom
  <2> QED BY <1>2, <1>6, <1>8, <1>12, <2>2 DEF Removing, Mounting, RmBody
<1>15. ~Confirmed(u)
  <2>1. \/ op = "start" /\ p = "containerStart"
        \/ p \in {"containerStop", "kill", "signal", "rmMark", "restart", "pause", "resume", "waitStop"}
    BY <1>3, <1>4, <1>5, Entries
  <2> QED BY <1>8, <1>12, <2>1 DEF Confirmed
<1>16. TypeOK'
  <2>1. th' \in [Actors -> Goroutine]
    BY <1>9, <1>10 DEF TypeOK
  <2>2. config' = config
    BY <1>10
  <2> QED BY <1>11, <2>1, <2>2 DEF TypeOK
<1>17. ThreadsOK'
  <2>1. autoRemove' => config.policy = "no"
    BY <1>11 DEF ThreadsOK
  <2> QED BY <1>0, <1>10, <1>13, <2>1, ThreadsKept
<1>18. MutexOK'
  <2>1. mutex' = mutex /\ mutex # a /\ u.pc \notin Locking
    BY <1>0, <1>1, <1>2, <1>6, <1>8, <1>11 DEF MutexOK, Locking
  <2> QED BY <1>0, <1>10, <2>1, MutexKept
<1>19. CoreOK'
  <2>1. th[a].pc \notin {"stateStart", "setState"} /\ u.pc # "stateStart"
    BY <1>1, <1>2, <1>6, <1>8 DEF Locking
  <2>2. SameView
    BY <1>0, <1>10, <2>1, ViewKept
  <2> QED BY <1>10, <1>11, <2>2, CoreKept
<1>20. RemovalOK'
  BY <1>0, <1>1, <1>6, <1>8, <1>10, <1>11, <1>14, RemovalKept
<1>21. GoneOK'
  <2>1. u.target <= host.starts
    <3>1. proc = 0 \/ proc = host.starts
      BY DEF CoreOK, ProcessOK
    <3> QED BY <1>8, <3>1 DEF TypeOK, Pids
  <2> QED BY <1>0, <1>10, <1>11, <1>15, <2>1, GoneKept
<1>22. WaitersOK'
  BY <1>0, <1>6, <1>8, <1>10, <1>11, WaitersKept
<1>23. MountsOK'
  BY <1>0, <1>1, <1>10, <1>11, <1>14, MountsKept
<1> QED BY <1>16, <1>17, <1>18, <1>19, <1>20, <1>21, <1>22, <1>23

----------------------------------------------------------------------------
(* Events                                                                  *)

\* The parts of the invariant that events in transit do not touch.
LEMMA EventAside ==
    ASSUME IInv, UNCHANGED <<config, autoRemove, reg, c, mutex, th>>, host' = host,
           proc' \in {0, proc}
    PROVE  /\ ThreadsOK' /\ MutexOK' /\ RemovalOK' /\ GoneOK' /\ WaitersOK'
           /\ Mounters' = Mounters /\ Creating' = Creating /\ RestartDue' = RestartDue
           /\ At(Restarter, "stateStart")' = At(Restarter, "stateStart")
           /\ (\E b \in Actors : At(b, "setState"))' = (\E b \in Actors : At(b, "setState"))
<1> USE DEF IInv
<1>1. ThreadsOK'
  BY DEF ThreadsOK, ThreadOK, At
<1>2. MutexOK'
  BY DEF MutexOK
<1>3. RemovalOK'
  BY DEF RemovalOK, At
<1>4. GoneOK'
  BY DEF GoneOK, Gone
<1>5. WaitersOK'
  BY DEF WaitersOK, At
<1>6. Mounters' = Mounters
  BY DEF Mounters
<1>7. /\ Creating' = Creating /\ RestartDue' = RestartDue
      /\ At(Restarter, "stateStart")' = At(Restarter, "stateStart")
      /\ (\E b \in Actors : At(b, "setState"))' = (\E b \in Actors : At(b, "setState"))
  BY DEF Creating, RestartDue, At
<1> QED BY <1>1, <1>2, <1>3, <1>4, <1>5, <1>6, <1>7

LEMMA ProcessExitKeeps ==
    ASSUME IInv, ProcessExit
    PROVE  IInv'
<1> USE DEF IInv
<1>1. /\ proc # 0 /\ ~host.frozen /\ proc' = 0
      /\ UNCHANGED <<config, dVars, host, tracked, handling, fns, th>>
  BY DEF ProcessExit
<1>2. UNCHANGED <<autoRemove, reg, c, mutex, rm, mounts>>
  BY <1>1 DEF dVars
<1>3. PICK x \in Events : x.type = "exit" /\ stream' = Append(stream, x)
  <2>1. PICK code \in {0, 1} : stream' = Append(stream, [type |-> "exit", code |-> code])
    BY DEF ProcessExit
  <2>2. [type |-> "exit", code |-> code] \in Events
    BY DEF Events
  <2> QED BY <2>1, <2>2
<1>4. /\ ThreadsOK' /\ MutexOK' /\ RemovalOK' /\ GoneOK' /\ WaitersOK'
      /\ Mounters' = Mounters /\ Creating' = Creating /\ RestartDue' = RestartDue
      /\ At(Restarter, "stateStart")' = At(Restarter, "stateStart")
      /\ (\E b \in Actors : At(b, "setState"))' = (\E b \in Actors : At(b, "setState"))
  BY <1>1, <1>2, EventAside
<1>5. ~ExitPending
  BY <1>1 DEF CoreOK, ProcessOK
<1>6. ~HasExit(stream) /\ ~HasExit(handling) /\ ~HasExit(fns) /\ Form(stream)
  BY <1>5 DEF ExitPending, Unread, CoreOK, QueuesOK
<1>7. /\ Form(stream') /\ HasExit(stream') /\ (HasPause(stream') <=> HasPause(stream))
      /\ stream' \in Seq(Events) /\ (HasPause(stream) => stream'[1] = stream[1])
  <2>1. CASE stream = <<>>
    <3>1. stream' = <<x>> /\ ~HasPause(stream)
      BY <1>3, <2>1, NoEvent
    <3> QED BY <1>3, <3>1, OneEvent
  <2>2. CASE stream # <<>>
    <3>1. PICK p \in Events : stream = <<p>>
      <4>1. ASSUME NEW p \in Events, NEW y \in Events, p.type # "exit", y.type = "exit", stream = <<p, y>>
            PROVE  FALSE
        BY <1>6, <4>1, TwoEvents
      <4> QED BY <1>6, <2>2, <4>1 DEF Form
    <3>2. p.type # "exit" /\ HasPause(stream)
      BY <1>6, <3>1, OneEvent
    <3>3. stream' = <<p, x>>
      BY <1>3, <3>1, Appended
    <3>4. stream'[1] = stream[1]
      BY <3>1, <3>3
    <3> QED BY <1>3, <3>2, <3>3, <3>4, TwoEvents
  <2> QED BY <2>1, <2>2
<1>8. /\ HasExit(handling)' = HasExit(handling) /\ HasExit(fns)' = HasExit(fns)
      /\ HasPause(handling)' = HasPause(handling) /\ HasPause(fns)' = HasPause(fns)
      /\ Form(handling)' /\ Form(fns)' /\ Len(handling') < 2
  BY <1>1 DEF HasExit, HasPause, CoreOK, QueuesOK, Form
<1>9. /\ Unread' /\ ExitPending' /\ (PausePending' <=> PausePending)
  BY <1>7, <1>8 DEF Unread, ExitPending, PausePending
<1>10. TypeOK'
  <2>1. proc' \in Pids
    BY <1>1, BoundsOK DEF Pids
  <2> QED BY <1>1, <1>2, <1>7, <2>1 DEF TypeOK
<1>11. QueuesOK'
  <2>1. PauseFits(stream)' /\ PauseFits(handling)' /\ PauseFits(fns)'
    BY <1>1, <1>7, <1>8 DEF PauseFits, CoreOK, QueuesOK
  <2>2. HasPause(stream)' => ~HasExit(handling)' /\ ~HasExit(fns)' /\ tracked'
    BY <1>1, <1>7, <1>8 DEF CoreOK, QueuesOK
  <2>3. /\ (PausePending => ~c.Dead /\ \E a \in Actors : At(a, "setState"))'
        /\ (~PausePending => (c.Paused <=> host.frozen))'
        /\ (host.frozen => proc # 0)'
    BY <1>1, <1>2, <1>4, <1>9 DEF CoreOK, QueuesOK
  <2> QED BY <1>6, <1>7, <1>8, <2>1, <2>2, <2>3 DEF CoreOK, QueuesOK
<1>12. ProcessOK'
  BY <1>1, <1>2, <1>4, <1>9 DEF CoreOK, ProcessOK, Saved
<1>13. BeliefOK'
  BY <1>1, <1>2, <1>4, <1>9 DEF CoreOK, BeliefOK, Saved
<1>14. MountsOK'
  BY <1>1, <1>2, <1>4, <1>8 DEF MountsOK, Saved
<1> QED BY <1>4, <1>10, <1>11, <1>12, <1>13, <1>14 DEF CoreOK

LEMMA EventLookupKeeps ==
    ASSUME IInv, EventLookup
    PROVE  IInv'
<1> USE DEF IInv
<1>1. /\ handling = <<>> /\ stream # <<>> /\ stream' = Tail(stream)
      /\ handling' = IF tracked THEN <<Head(stream)>> ELSE <<>>
      /\ UNCHANGED <<config, dVars, hVars, tracked, fns, th>>
  BY DEF EventLookup
<1>2. UNCHANGED <<autoRemove, reg, c, mutex, rm, mounts, proc, host>>
  BY <1>1 DEF dVars, hVars
<1>3. /\ ThreadsOK' /\ MutexOK' /\ RemovalOK' /\ GoneOK' /\ WaitersOK'
      /\ Mounters' = Mounters /\ Creating' = Creating /\ RestartDue' = RestartDue
      /\ At(Restarter, "stateStart")' = At(Restarter, "stateStart")
      /\ (\E b \in Actors : At(b, "setState"))' = (\E b \in Actors : At(b, "setState"))
  BY <1>1, <1>2, EventAside
<1>4. ~HasExit(handling) /\ ~HasPause(handling)
  BY <1>1, NoEvent
<1>5. /\ HasExit(fns)' = HasExit(fns) /\ HasPause(fns)' = HasPause(fns) /\ Form(fns)'
  BY <1>1 DEF HasExit, HasPause, CoreOK, QueuesOK, Form
<1>6. MountsOK'
  BY <1>1, <1>2, <1>3, <1>5 DEF MountsOK, Saved
<1>7. CASE ~tracked
  <2>1. ~HasPause(stream) /\ (~Saved \/ ~HasExit(stream))
    BY <1>7 DEF CoreOK, QueuesOK, ProcessOK, Unread
  <2>2. PICK e \in Events : stream = <<e>>
    <3>1. ASSUME NEW p \in Events, NEW y \in Events, p.type # "exit", y.type = "exit", stream = <<p, y>>
          PROVE  FALSE
      BY <2>1, <3>1, TwoEvents
    <3> QED BY <1>1, <3>1 DEF CoreOK, QueuesOK, Form
  <2>3. HasExit(stream) /\ ~HasPause(stream) /\ ~Saved
    BY <2>1, <2>2, OneEvent
  <2>4. stream' = <<>> /\ handling' = <<>>
    BY <1>1, <1>7, <2>2
  <2>5. /\ Form(stream') /\ ~HasExit(stream') /\ ~HasPause(stream') /\ stream' \in Seq(Events)
        /\ Form(handling') /\ ~HasExit(handling') /\ ~HasPause(handling') /\ handling' \in Seq(Events)
        /\ Len(handling') < 2
    <3>1. <<>> \in Seq(Events) /\ Len(<<>>) < 2
      OBVIOUS
    <3> QED BY <2>4, <3>1, NoEvent
  <2>6. ~Unread' /\ (ExitPending' => ExitPending) /\ (PausePending' <=> PausePending)
    BY <1>4, <1>5, <2>3, <2>5 DEF Unread, ExitPending, PausePending
  <2>7. TypeOK'
    BY <1>1, <1>2, <2>5 DEF TypeOK
  <2>8. QueuesOK'
    <3>1. PauseFits(stream)' /\ PauseFits(handling)' /\ PauseFits(fns)'
      BY <1>1, <1>2, <1>5, <2>5 DEF PauseFits, CoreOK, QueuesOK
    <3>2. /\ (PausePending => ~c.Dead /\ \E a \in Actors : At(a, "setState"))'
          /\ (~PausePending => (c.Paused <=> host.frozen))'
          /\ (host.frozen => proc # 0)'
      BY <1>2, <1>3, <2>6 DEF CoreOK, QueuesOK
    <3> QED BY <1>5, <2>5, <3>1, <3>2 DEF QueuesOK
  <2>9. ~Saved'
    BY <1>1, <2>3 DEF Saved
  <2>10. ProcessOK'
    BY <1>1, <1>2, <1>3, <1>7, <2>6, <2>9 DEF CoreOK, ProcessOK
  <2>11. BeliefOK'
    BY <1>1, <1>2, <1>3, <2>6, <2>9 DEF CoreOK, BeliefOK
  <2> QED BY <1>3, <1>6, <2>7, <2>8, <2>10, <2>11 DEF CoreOK
<1>8. CASE tracked
  <2>1. /\ Form(stream') /\ stream' \in Seq(Events) /\ Form(handling') /\ handling' \in Seq(Events)
        /\ Len(handling') < 2 /\ ~HasPause(stream')
        /\ HasPause(handling') <=> HasPause(stream)
        /\ HasPause(stream) => handling'[1] = stream[1]
        /\ HasExit(stream) <=> HasExit(stream') \/ HasExit(handling')
        /\ ~(HasExit(stream') /\ HasExit(handling'))
    <3>0. <<>> \in Seq(Events)
      OBVIOUS
    <3>1. CASE \E e \in Events : stream = <<e>>
      <4>1. PICK e \in Events : stream = <<e>>
        BY <3>1
      <4>2. stream' = <<>> /\ handling' = <<e>> /\ handling'[1] = stream[1]
        BY <1>1, <1>8, <4>1
      <4>3. Len(handling') < 2
        BY <4>2
      <4> QED BY <3>0, <4>1, <4>2, <4>3, OneEvent, NoEvent
    <3>2. CASE \E p \in Events, y \in Events : p.type # "exit" /\ y.type = "exit" /\ stream = <<p, y>>
      <4>1. PICK p \in Events, y \in Events : p.type # "exit" /\ y.type = "exit" /\ stream = <<p, y>>
        BY <3>2
      <4>2. stream' = <<y>> /\ handling' = <<p>> /\ handling'[1] = stream[1]
        BY <1>1, <1>8, <4>1
      <4>3. Len(handling') < 2
        BY <4>2
      <4>4. HasExit(stream) /\ HasPause(stream)
        BY <4>1, TwoEvents
      <4> QED BY <4>1, <4>2, <4>3, <4>4, OneEvent
    <3> QED BY <1>1, <3>1, <3>2 DEF CoreOK, QueuesOK, Form
  <2>2. (Unread' <=> Unread) /\ (ExitPending' <=> ExitPending) /\ (PausePending' <=> PausePending)
    BY <1>4, <1>5, <2>1 DEF Unread, ExitPending, PausePending
  <2>3. TypeOK'
    BY <1>1, <1>2, <2>1 DEF TypeOK
  <2>4. QueuesOK'
    <3>1. PauseFits(stream)' /\ PauseFits(handling)' /\ PauseFits(fns)'
      BY <1>1, <1>2, <1>5, <2>1 DEF PauseFits, CoreOK, QueuesOK
    <3>2. /\ (PausePending => ~c.Dead /\ \E a \in Actors : At(a, "setState"))'
          /\ (~PausePending => (c.Paused <=> host.frozen))'
          /\ (host.frozen => proc # 0)'
      BY <1>2, <1>3, <2>2 DEF CoreOK, QueuesOK
    <3>3. /\ HasExit(stream)' => ~HasExit(handling)' /\ ~HasExit(fns)'
          /\ HasExit(handling)' => ~HasExit(fns)'
          /\ HasPause(handling)' => ~HasPause(fns)' /\ ~HasExit(fns)'
      BY <1>5, <2>1 DEF CoreOK, QueuesOK
    <3> QED BY <1>5, <2>1, <3>1, <3>2, <3>3 DEF QueuesOK
  <2>5. ProcessOK'
    BY <1>1, <1>2, <1>3, <2>2 DEF CoreOK, ProcessOK, Saved
  <2>6. BeliefOK'
    BY <1>1, <1>2, <1>3, <2>2 DEF CoreOK, BeliefOK, Saved
  <2> QED BY <1>3, <1>6, <2>3, <2>4, <2>5, <2>6 DEF CoreOK
<1> QED BY <1>7, <1>8

LEMMA HandleEventKeeps ==
    ASSUME IInv, HandleEvent
    PROVE  IInv'
<1> USE DEF IInv
<1>1. /\ handling # <<>> /\ ~Creating /\ fns' = fns \o handling /\ handling' = <<>>
      /\ tracked' = (tracked /\ handling[1].type # "exit")
      /\ UNCHANGED <<config, dVars, hVars, stream, th>>
  BY DEF HandleEvent
<1>2. UNCHANGED <<autoRemove, reg, c, mutex, rm, mounts, proc, host>>
  BY <1>1 DEF dVars, hVars
<1>3. /\ ThreadsOK' /\ MutexOK' /\ RemovalOK' /\ GoneOK' /\ WaitersOK'
      /\ Mounters' = Mounters /\ Creating' = Creating /\ RestartDue' = RestartDue
      /\ At(Restarter, "stateStart")' = At(Restarter, "stateStart")
      /\ (\E b \in Actors : At(b, "setState"))' = (\E b \in Actors : At(b, "setState"))
  BY <1>1, <1>2, EventAside
<1>4. PICK e \in Events : handling = <<e>>
  <2>1. Form(handling) /\ Len(handling) < 2
    BY DEF CoreOK, QueuesOK
  <2>2. ASSUME NEW p \in Events, NEW y \in Events, p.type # "exit", y.type = "exit", handling = <<p, y>>
        PROVE  FALSE
    BY <2>1, <2>2
  <2> QED BY <1>1, <2>1, <2>2 DEF Form
<1>5. handling[1] = e /\ (HasExit(handling) <=> e.type = "exit") /\ (HasPause(handling) <=> e.type # "exit")
  BY <1>4, OneEvent
<1>6. Form(handling') /\ ~HasExit(handling') /\ ~HasPause(handling') /\ handling' \in Seq(Events) /\ Len(handling') < 2
  <2>1. <<>> \in Seq(Events) /\ Len(<<>>) < 2
    OBVIOUS
  <2> QED BY <1>1, <2>1, NoEvent
<1>7. /\ HasExit(stream)' = HasExit(stream) /\ HasPause(stream)' = HasPause(stream) /\ Form(stream)'
  BY <1>1 DEF HasExit, HasPause, CoreOK, QueuesOK, Form
<1>8. ~HasExit(fns) /\ Form(fns)
  BY <1>5 DEF CoreOK, QueuesOK
<1>9. /\ Form(fns') /\ fns' \in Seq(Events)
      /\ HasExit(fns') <=> HasExit(handling)
      /\ HasPause(fns') <=> HasPause(fns) \/ HasPause(handling)
      /\ HasPause(fns') => fns'[1] = IF HasPause(fns) THEN fns[1] ELSE handling[1]
  <2>1. CASE fns = <<>>
    <3>1. fns' = <<e>> /\ ~HasPause(fns) /\ fns'[1] = e
      BY <1>1, <1>4, <2>1, NoEvent
    <3> QED BY <1>5, <3>1, OneEvent
  <2>2. CASE fns # <<>>
    <3>1. PICK p \in Events : fns = <<p>>
      <4>1. ASSUME NEW p \in Events, NEW y \in Events, p.type # "exit", y.type = "exit", fns = <<p, y>>
            PROVE  FALSE
        BY <1>8, <4>1, TwoEvents
      <4> QED BY <1>8, <2>2, <4>1 DEF Form
    <3>2. p.type # "exit" /\ HasPause(fns)
      BY <1>8, <3>1, OneEvent
    <3>3. e.type = "exit"
      BY <1>5, <3>2 DEF CoreOK, QueuesOK
    <3>4. fns' = <<p, e>>
      BY <1>1, <1>4, <3>1, Appended
    <3>5. fns'[1] = fns[1]
      BY <3>1, <3>4
    <3> QED BY <1>5, <3>2, <3>3, <3>4, <3>5, TwoEvents
  <2> QED BY <2>1, <2>2
<1>10. (ExitPending' <=> ExitPending) /\ (PausePending' <=> PausePending) /\ (Unread' => Unread)
  BY <1>6, <1>7, <1>8, <1>9 DEF ExitPending, PausePending, Unread
<1>11. TypeOK'
  BY <1>1, <1>2, <1>6, <1>9 DEF TypeOK
<1>12. tracked' => tracked /\ ~HasExit(handling)
  BY <1>1, <1>5
<1>13. HasExit(handling) => ~HasExit(stream) /\ ~HasPause(stream) /\ proc = 0
  BY <1>5 DEF CoreOK, QueuesOK, ProcessOK, ExitPending, Unread
<1>14. ~HasExit(handling) => tracked' = tracked
  BY <1>1, <1>5 DEF TypeOK
<1>15. QueuesOK'
  <2>1. PauseFits(stream)' /\ PauseFits(handling)' /\ PauseFits(fns)'
    BY <1>1, <1>2, <1>6, <1>7, <1>9 DEF PauseFits, CoreOK, QueuesOK
  <2>2. /\ (PausePending => ~c.Dead /\ \E a \in Actors : At(a, "setState"))'
        /\ (~PausePending => (c.Paused <=> host.frozen))'
        /\ (host.frozen => proc # 0)'
    BY <1>2, <1>3, <1>10 DEF CoreOK, QueuesOK
  <2>3. /\ HasExit(stream)' => ~HasExit(fns)'
        /\ HasPause(stream)' => ~HasExit(fns)' /\ ~HasPause(fns)' /\ tracked'
    BY <1>7, <1>9, <1>13, <1>14 DEF CoreOK, QueuesOK
  <2> QED BY <1>6, <1>7, <1>9, <2>1, <2>2, <2>3 DEF QueuesOK
<1>16. ProcessOK'
  <2>1. Saved /\ (proc' # 0 \/ Unread') => tracked'
    BY <1>2, <1>6, <1>7, <1>10, <1>13, <1>14 DEF CoreOK, ProcessOK, Unread
  <2>2. tracked' => proc' # 0 \/ Unread'
    BY <1>2, <1>6, <1>7, <1>12 DEF CoreOK, ProcessOK, Unread
  <2> QED BY <1>1, <1>2, <1>3, <1>10, <2>1, <2>2 DEF CoreOK, ProcessOK, Saved
<1>17. BeliefOK'
  BY <1>1, <1>2, <1>3, <1>10 DEF CoreOK, BeliefOK, Saved
<1>18. MountsOK'
  <2>1. Saved => ((tracked' \/ HasExit(fns')) <=> (tracked \/ HasExit(fns)))
    BY <1>8, <1>9, <1>13, <1>14, <1>12 DEF CoreOK, ProcessOK, Unread
  <2> QED BY <1>1, <1>2, <1>3, <2>1 DEF MountsOK, Saved
<1> QED BY <1>3, <1>11, <1>15, <1>16, <1>17, <1>18 DEF CoreOK

----------------------------------------------------------------------------
(* StateChanged                                                            *)

\* Closing the channel wakes the waiters and changes nothing else of a
\* goroutine.
LEMMA Fired ==
    ASSUME IInv, NEW code \in Codes, NEW f, f = FireWaiters(th, code)
    PROVE  /\ f \in [Actors -> Goroutine]
           /\ \A b \in Actors :
                /\ f[b].pc = th[b].pc /\ f[b].stk = th[b].stk /\ f[b].op = th[b].op
                /\ f[b].target = th[b].target /\ f[b].saved = th[b].saved /\ f[b].res = th[b].res
                /\ f[b].timed = th[b].timed /\ f[b].calls = th[b].calls
                /\ f[b].pc = "select" => f[b].woken # Asleep
                /\ f[b].pc # "select" => f[b] = th[b]
<1>1. th \in [Actors -> Goroutine]
  BY DEF IInv, TypeOK
<1>2. \A b \in Actors : f[b] = IF th[b].pc = "select" /\ th[b].woken = Asleep
                               THEN [th[b] EXCEPT !.woken = code] ELSE th[b]
  BY DEF FireWaiters
<1>3. ASSUME NEW b \in Actors
      PROVE  /\ f[b] \in Goroutine
             /\ f[b].pc = th[b].pc /\ f[b].stk = th[b].stk /\ f[b].op = th[b].op
             /\ f[b].target = th[b].target /\ f[b].saved = th[b].saved /\ f[b].res = th[b].res
             /\ f[b].timed = th[b].timed /\ f[b].calls = th[b].calls
             /\ f[b].pc = "select" => f[b].woken # Asleep
             /\ f[b].pc # "select" => f[b] = th[b]
  <2>1. PICK t \in Goroutine : t = th[b]
    BY <1>1
  <2>2. CASE t.pc = "select" /\ t.woken = Asleep
    <3>1. PICK u : u = [t EXCEPT !.woken = code]
      OBVIOUS
    <3>2. f[b] = u
      BY <1>2, <2>1, <2>2, <3>1
    <3>3. code \in Codes \cup {Asleep} /\ code # Asleep
      BY DEF Codes, Asleep
    <3>4. /\ u \in Goroutine /\ u.pc = t.pc /\ u.stk = t.stk /\ u.op = t.op /\ u.target = t.target
          /\ u.saved = t.saved /\ u.res = t.res /\ u.timed = t.timed /\ u.calls = t.calls
          /\ u.woken = code
      BY <3>1, <3>3 DEF Goroutine
    <3> QED BY <2>1, <2>2, <3>2, <3>3, <3>4
  <2>3. CASE ~(t.pc = "select" /\ t.woken = Asleep)
    <3>1. f[b] = t
      BY <1>2, <2>1, <2>3
    <3> QED BY <2>1, <2>3, <3>1
  <2> QED BY <2>2, <2>3
<1>4. f = [b \in Actors |-> f[b]]
  BY DEF FireWaiters
<1> QED BY <1>3, <1>4

\* The container stops, or is going to be restarted: the waiters are woken and
\* one of the two goroutines goes on.  There is no process.
LEMMA StopFires ==
    ASSUME IInv, NEW a \in {Monitor, Restarter}, NEW t, t = th[a], t.pc \in Outermost,
           NEW u \in Goroutine, u.pc \in {"autoRemove", "restartWait"}, u.stk = <<>>,
           u.op = t.op, u.target = t.target, u.calls = t.calls, u.saved = t.saved,
           u.pc = "restartWait" => a = Restarter, a = Restarter => config.policy # "no",
           NEW code \in Codes, th' = [FireWaiters(th, code) EXCEPT ![a] = u],
           proc = 0, UNCHANGED <<config, autoRemove, reg, mutex, proc, host>>,
           c'.RemovalInProgress = c.RemovalInProgress, c'.Dead = c.Dead
    PROVE  /\ th' \in [Actors -> Goroutine]
           /\ ThreadsOK' /\ MutexOK' /\ RemovalOK' /\ GoneOK' /\ Mounters' = Mounters
           /\ Creating' = Creating
           /\ (\E b \in Actors : At(b, "setState"))' = (\E b \in Actors : At(b, "setState"))
           /\ th'[a] = u /\ \A b \in Actors : b # a => th'[b].pc = th[b].pc /\ th'[b].res = th[b].res
           /\ \A b \in Actors : th'[b].pc = "select" => th'[b].woken # Asleep
<1> USE DEF IInv
<1>0. a \in Actors
  BY DEF Actors
<1>1. PICK f : f = FireWaiters(th, code)
  OBVIOUS
<1>2. /\ f \in [Actors -> Goroutine]
      /\ \A b \in Actors :
           /\ f[b].pc = th[b].pc /\ f[b].stk = th[b].stk /\ f[b].op = th[b].op
           /\ f[b].target = th[b].target /\ f[b].saved = th[b].saved /\ f[b].res = th[b].res
           /\ f[b].timed = th[b].timed /\ f[b].calls = th[b].calls
           /\ f[b].pc = "select" => f[b].woken # Asleep
           /\ f[b].pc # "select" => f[b] = th[b]
  BY <1>1, Fired
<1>3. th' = [f EXCEPT ![a] = u]
  BY <1>1
<1>4. th' \in [Actors -> Goroutine] /\ th'[a] = u /\ \A b \in Actors : b # a => th'[b] = f[b]
  BY <1>0, <1>2, <1>3
<1>5. Local(a, t, u) /\ ~Confirmed(u) /\ ~Removing(u)
  BY BetweenLocal DEF Outermost
<1>6. ~Removing(t) /\ ~Mounting(t)
  BY Between
<1>7. ASSUME NEW b \in Actors, b # a
      PROVE  /\ ThreadOK(b, th'[b]) /\ (Removing(th'[b]) <=> Removing(th[b]))
             /\ Mounting(th'[b]) <=> Mounting(th[b])
             /\ th'[b].pc = th[b].pc /\ th'[b].target = th[b].target /\ th'[b].res = th[b].res
  <2>1. PICK v, w : v = th[b] /\ w = th'[b]
    OBVIOUS
  <2>2. /\ w.pc = v.pc /\ w.stk = v.stk /\ w.op = v.op /\ w.target = v.target /\ w.saved = v.saved
        /\ w.timed = v.timed /\ w.res = v.res
    BY <1>2, <1>4, <1>7, <2>1
  <2>3. ThreadOK(b, v)
    BY <2>1 DEF ThreadsOK
  <2>4. ThreadOK(b, w)
    BY <2>2, <2>3 DEF ThreadOK, Role, Untimed
  <2>5. (Removing(w) <=> Removing(v)) /\ (Mounting(w) <=> Mounting(v))
    BY <2>2 DEF Removing, Mounting
  <2> QED BY <2>1, <2>2, <2>4, <2>5
<1>8. ThreadsOK'
  <2>1. \A b \in Actors : ThreadOK(b, th'[b])
    BY <1>0, <1>4, <1>5, <1>7 DEF Local
  <2>2. \A b \in Actors : ThreadOK(b, th[b])'
    BY <2>1 DEF ThreadOK
  <2>3. (config.policy = "no" => At(Restarter, "idle"))'
    BY <1>7 DEF ThreadsOK, At, Actors
  <2> QED BY <2>2, <2>3 DEF ThreadsOK
<1>9. MutexOK'
  <2>1. t.pc \notin Locking /\ u.pc \notin Locking
    BY DEF Locking, Outermost
  <2> QED BY <1>0, <1>4, <1>7, <2>1 DEF MutexOK
<1>10. \A b \in Actors : Removing(th'[b]) <=> Removing(th[b])
  BY <1>4, <1>5, <1>6, <1>7
<1>11. \A b \in Actors : At(b, "rmFiles")' => At(b, "rmFiles")
  BY <1>4, <1>7 DEF At
<1>12. RemovalOK'
  BY <1>10, <1>11 DEF RemovalOK
<1>13. GoneOK'
  <2>1. \A b \in Actors : th'[b].target <= host.starts
    BY <1>4, <1>7 DEF GoneOK
  <2> QED BY <2>1 DEF GoneOK, Gone
<1>14. Mounters' = Mounters
  BY <1>4, <1>5, <1>6, <1>7 DEF Mounters, Local
<1>15. /\ Creating' = Creating
       /\ (\E b \in Actors : At(b, "setState"))' = (\E b \in Actors : At(b, "setState"))
  <2>1. t.pc \notin {"stateStart", "setState"} /\ u.pc \notin {"stateStart", "setState"}
    BY DEF Outermost
  <2> QED BY <1>4, <1>7, <2>1 DEF Creating, At
<1>16. \A b \in Actors : th'[b].pc = "select" => th'[b].woken # Asleep
  BY <1>2, <1>4
<1> QED BY <1>4, <1>7, <1>8, <1>9, <1>12, <1>13, <1>14, <1>15, <1>16

\* A function that runs for an exit finds the container as the start of the
\* process has left it.
LEMMA ExitIsAlone ==
    ASSUME IInv, fns # <<>>, Head(fns).type = "exit"
    PROVE  /\ \E x \in Events : fns = <<x>> /\ x.type = "exit"
           /\ HasExit(fns) /\ ~Unread /\ ~PausePending /\ proc = 0 /\ ~tracked /\ ~Creating
           /\ c.Running /\ ~RestartDue /\ ~c.Restarting /\ ~c.Paused /\ ~host.frozen
           /\ ~At(Restarter, "stateStart")
<1> USE DEF IInv
<1>1. PICK x \in Events : fns = <<x>> /\ x.type = "exit"
  <2>1. ASSUME NEW p \in Events, NEW y \in Events, p.type # "exit", fns = <<p, y>>
        PROVE  FALSE
    BY <2>1
  <2>2. Form(fns)
    BY DEF CoreOK, QueuesOK
  <2>3. PICK e \in Events : fns = <<e>>
    BY <2>1, <2>2 DEF Form
  <2>4. Head(fns) = e
    BY <2>3
  <2> QED BY <2>3, <2>4
<1>2. HasExit(fns) /\ ~HasPause(fns)
  BY <1>1, OneEvent
<1>3. ~Unread /\ ~PausePending
  BY <1>2 DEF Unread, PausePending, CoreOK, QueuesOK
<1>4. proc = 0 /\ ~tracked
  BY <1>2, <1>3 DEF ExitPending, CoreOK, ProcessOK
<1>5. ~Creating /\ c.Running /\ ~RestartDue
  BY <1>2, <1>4 DEF ExitPending, CoreOK, ProcessOK
<1>6. ~At(Restarter, "stateStart")
  BY <1>5 DEF Creating, Actors
<1>7. ~c.Restarting
  BY <1>5, <1>6 DEF CoreOK, BeliefOK
<1>8. ~host.frozen /\ ~c.Paused
  BY <1>3, <1>4 DEF CoreOK, QueuesOK, TypeOK
<1> QED BY <1>1, <1>2, <1>3, <1>4, <1>5, <1>6, <1>7, <1>8

\* The exit has been handled.
LEMMA ExitHandled ==
    ASSUME IInv, fns # <<>>, Head(fns).type = "exit", fns' = Tail(fns),
           UNCHANGED <<config, proc, host, tracked, stream, handling>>
    PROVE  /\ fns' = <<>> /\ fns' \in Seq(Events) /\ ~HasExit(fns') /\ ~HasPause(fns') /\ Form(fns')
           /\ ~Unread' /\ ~ExitPending' /\ ~PausePending'
           /\ ~c'.Paused => QueuesOK'
<1> USE DEF IInv
<1>1. PICK x \in Events : fns = <<x>> /\ x.type = "exit"
  BY ExitIsAlone
<1>2. HasExit(fns) /\ ~Unread /\ ~PausePending /\ ~host.frozen
  BY ExitIsAlone
<1>3. fns' = <<>>
  BY <1>1
<1>4. fns' \in Seq(Events) /\ ~HasExit(fns') /\ ~HasPause(fns') /\ Form(fns')
  <2>1. <<>> \in Seq(Events)
    OBVIOUS
  <2> QED BY <1>3, <2>1, NoEvent
<1>5. /\ HasExit(stream)' = HasExit(stream) /\ HasExit(handling)' = HasExit(handling)
      /\ HasPause(stream)' = HasPause(stream) /\ HasPause(handling)' = HasPause(handling)
      /\ Form(stream)' /\ Form(handling)' /\ Len(handling') < 2
  BY DEF HasExit, HasPause, CoreOK, QueuesOK, Form
<1>6. ~Unread' /\ ~ExitPending' /\ ~PausePending'
  BY <1>2, <1>4, <1>5 DEF Unread, ExitPending, PausePending
<1>7. ASSUME ~c'.Paused PROVE QueuesOK'
  <2>1. PauseFits(stream)' /\ PauseFits(handling)' /\ PauseFits(fns)'
    BY <1>6 DEF PauseFits, PausePending
  <2> QED BY <1>2, <1>4, <1>5, <1>6, <1>7, <2>1 DEF QueuesOK, PausePending, Unread
<1> QED BY <1>3, <1>4, <1>6, <1>7

LEMMA StateExitKeeps ==
    ASSUME IInv, StateExit
    PROVE  IInv'
<1> USE DEF IInv
<1>0. /\ At(Monitor, "idle") /\ fns # <<>> /\ Head(fns).type = "exit" /\ fns' = Tail(fns)
      /\ UNCHANGED <<config, proc, host, tracked, stream, handling>>
  BY DEF StateExit, hVars
<1>1. /\ HasExit(fns) /\ ~Unread /\ ~PausePending /\ proc = 0 /\ ~tracked /\ ~Creating
      /\ c.Running /\ ~RestartDue /\ ~c.Restarting /\ ~c.Paused /\ ~host.frozen
      /\ ~At(Restarter, "stateStart")
  BY <1>0, ExitIsAlone
<1>2. /\ fns' \in Seq(Events) /\ ~HasExit(fns') /\ ~Unread' /\ ~ExitPending' /\ ~PausePending'
      /\ ~c'.Paused => QueuesOK'
  BY <1>0, ExitHandled
<1>3. CASE ~reg /\ UNCHANGED <<dVars, th>>
  <2>1. UNCHANGED <<autoRemove, reg, c, mutex, rm, mounts, th>>
    BY <1>3 DEF dVars
  <2>2. /\ ThreadsOK' /\ MutexOK' /\ RemovalOK' /\ GoneOK' /\ WaitersOK'
        /\ Creating' = Creating /\ RestartDue' = RestartDue
        /\ At(Restarter, "stateStart")' = At(Restarter, "stateStart")
    BY <1>0, <2>1, EventAside
  <2>3. TypeOK'
    BY <1>0, <1>2, <2>1 DEF TypeOK
  <2>4. QueuesOK'
    BY <1>1, <1>2, <2>1
  <2>5. ProcessOK'
    BY <1>0, <1>1, <1>2, <2>2 DEF ProcessOK
  <2>6. BeliefOK'
    BY <1>0, <1>1, <1>3, <2>1, <2>2 DEF CoreOK, BeliefOK
  <2>7. MountsOK'
    BY <1>3, <2>1 DEF MountsOK
  <2> QED BY <2>2, <2>3, <2>4, <2>5, <2>6, <2>7 DEF CoreOK
<1>4. CASE reg /\ Unlocked /\ mounts' = Cleanup(mounts) /\ UNCHANGED <<autoRemove, reg, mutex>>
  <2>1. PICK code \in Codes : code = Head(fns).code
    <3>1. PICK x \in Events : fns = <<x>>
      BY <1>0, ExitIsAlone
    <3>2. Head(fns) = x
      BY <3>1
    <3> QED BY <3>2 DEF Events, Codes
  <2>2. mounts' = mounts - 1 /\ mounts \in Int /\ mounts' \in Int
    BY <1>4 DEF Cleanup, TypeOK
  <2>3. ASSUME Mounters' = Mounters PROVE MountsOK'
    <3>1. Saved => mounts = Cardinality(Mounters) + 1
      BY <1>1, <1>4 DEF MountsOK
    <3>2. ~tracked' /\ Cardinality(Mounters) \in Nat
      BY <1>0, <1>1, MountersFinite
    <3>3. Saved => mounts' = Cardinality(Mounters') + 0
      BY <2>2, <2>3, <3>1, <3>2
    <3> QED BY <1>0, <1>2, <3>2, <3>3 DEF MountsOK, Saved
  <2>4. CASE /\ ShouldRestart(code)
             /\ rm' = [rm EXCEPT !.active = TRUE, !.count = @ + 1]
             /\ c' = SetRestarting(c, code)
             /\ th' = [FireWaiters(th, code) EXCEPT ![Restarter] =
                         [Goto(@, "restartWait") EXCEPT !.code = code]]
    <3>0. PICK t : t = th[Restarter]
      OBVIOUS
    <3>1. t.pc \in Outermost
      <4>1. ThreadOK(Restarter, t) /\ Role(Restarter, t) = "restarter" /\ t.pc \in Labels
        BY <3>0, GoroutinesOK DEF ThreadsOK, TypeOK, Goroutine, Actors, Role
      <4>2. t.pc \notin {"containerStart", "stateStart"}
        BY <1>1, <3>0 DEF RestartDue, At
      <4> QED BY <4>1, <4>2, RestarterStacks
              DEF ThreadOK, StackOK, Labels, Outermost, WaitLabels, KillLabels, StopLabels, RmLabels, RmBody
    <3>2. /\ t \in Goroutine /\ t.stk = <<>>
      BY <3>0, <3>1, Between
    <3>3. FireWaiters(th, code)[Restarter] = t
      <4>1. PICK f : f = FireWaiters(th, code)
        OBVIOUS
      <4>2. f[Restarter] = th[Restarter]
        BY <3>0, <3>1, <4>1, Fired DEF Outermost, Actors
      <4> QED BY <3>0, <4>1, <4>2
    <3>4. PICK w : w = Goto(t, "restartWait")
      OBVIOUS
    <3>5. PICK u : u = [w EXCEPT !.code = code]
      OBVIOUS
    <3>6. /\ w \in Goroutine /\ w.pc = "restartWait" /\ w.stk = t.stk /\ w.op = t.op
          /\ w.target = t.target /\ w.calls = t.calls /\ w.saved = t.saved
      BY <3>2, <3>4, GotoIs DEF Labels
    <3>7. /\ u \in Goroutine /\ u.pc = "restartWait" /\ u.stk = <<>> /\ u.op = t.op
          /\ u.target = t.target /\ u.calls = t.calls /\ u.saved = t.saved
      BY <3>2, <3>5, <3>6 DEF Goroutine
    <3>8. th' = [FireWaiters(th, code) EXCEPT ![Restarter] = u]
      BY <2>4, <3>3, <3>4, <3>5
    <3>9. config.policy # "no"
      BY <2>4 DEF ShouldRestart
    <3>10. /\ c' \in [Running : BOOLEAN, Paused : BOOLEAN, Restarting : BOOLEAN,
                      RemovalInProgress : BOOLEAN, Dead : BOOLEAN, Pid : Pids, ExitCode : Codes]
           /\ c'.Running /\ c'.Restarting /\ c'.Pid = 0 /\ c'.Paused = c.Paused
           /\ c'.RemovalInProgress = c.RemovalInProgress /\ c'.Dead = c.Dead
      <4>1. 0 \in Pids
        BY BoundsOK DEF Pids
      <4> QED BY <2>4, <4>1 DEF SetRestarting, TypeOK
    <3>11. PICK a \in {Monitor, Restarter} : a = Restarter
      OBVIOUS
    <3>12. /\ th' \in [Actors -> Goroutine]
           /\ ThreadsOK' /\ MutexOK' /\ RemovalOK' /\ GoneOK' /\ Mounters' = Mounters
           /\ Creating' = Creating /\ th'[a] = u
      <4>1. t = th[a] /\ th' = [FireWaiters(th, code) EXCEPT ![a] = u]
        BY <3>0, <3>8, <3>11
      <4>2. /\ u.pc \in {"autoRemove", "restartWait"} /\ (u.pc = "restartWait" => a = Restarter)
            /\ a = Restarter => config.policy # "no"
        BY <3>7, <3>9, <3>11
      <4>3. UNCHANGED <<config, autoRemove, reg, mutex, proc, host>>
        BY <1>0, <1>4
      <4>4. u \in Goroutine
        BY <3>7
      <4> QED BY <1>1, <2>1, <3>1, <3>7, <3>10, <4>1, <4>2, <4>3, <4>4, StopFires
    <3>13. rm' \in [canceled : BOOLEAN, active : BOOLEAN, count : Nat]
      <4>1. PICK m \in [canceled : BOOLEAN, active : BOOLEAN, count : Nat] : m = rm
        BY DEF TypeOK
      <4>2. m.count + 1 \in Nat
        OBVIOUS
      <4>3. rm' = [m EXCEPT !.active = TRUE, !.count = m.count + 1]
        BY <2>4, <4>1
      <4> QED BY <4>2, <4>3
    <3>14. TypeOK'
      BY <1>0, <1>2, <1>4, <2>2, <3>10, <3>12, <3>13 DEF TypeOK
    <3>15. QueuesOK'
      BY <1>1, <1>2, <3>10
    <3>16. RestartDue' /\ ~Creating'
      BY <1>1, <3>7, <3>11, <3>12 DEF RestartDue
    <3>17. ProcessOK'
      BY <1>0, <1>1, <1>2, <3>16 DEF ProcessOK
    <3>18. BeliefOK'
      BY <3>10, <3>16 DEF BeliefOK
    <3>19. WaitersOK'
      BY <1>0, <3>9 DEF WaitersOK
    <3> QED BY <2>3, <3>12, <3>14, <3>15, <3>17, <3>18, <3>19 DEF CoreOK
  <2>5. CASE /\ c' = SetStopped(c, code) /\ UNCHANGED rm
             /\ th' = [FireWaiters(th, code) EXCEPT ![Monitor] = Goto(@, "autoRemove")]
    <3>0. PICK t : t = th[Monitor]
      OBVIOUS
    <3>1. t.pc = "idle" /\ t.pc \in Outermost
      BY <1>0, <3>0 DEF At, Outermost
    <3>2. /\ t \in Goroutine /\ t.stk = <<>>
      BY <3>0, <3>1, Between
    <3>3. FireWaiters(th, code)[Monitor] = t
      <4>1. PICK f : f = FireWaiters(th, code)
        OBVIOUS
      <4>2. f[Monitor] = th[Monitor]
        BY <3>0, <3>1, <4>1, Fired DEF Outermost, Actors
      <4> QED BY <3>0, <4>1, <4>2
    <3>4. PICK u : u = Goto(t, "autoRemove")
      OBVIOUS
    <3>5. /\ u \in Goroutine /\ u.pc = "autoRemove" /\ u.stk = <<>> /\ u.op = t.op
          /\ u.target = t.target /\ u.calls = t.calls /\ u.saved = t.saved
      BY <3>2, <3>4, GotoIs DEF Labels
    <3>6. th' = [FireWaiters(th, code) EXCEPT ![Monitor] = u]
      BY <2>5, <3>3, <3>4
    <3>7. /\ c' \in [Running : BOOLEAN, Paused : BOOLEAN, Restarting : BOOLEAN,
                     RemovalInProgress : BOOLEAN, Dead : BOOLEAN, Pid : Pids, ExitCode : Codes]
          /\ ~c'.Running /\ ~c'.Restarting /\ c'.Pid = 0 /\ ~c'.Paused
          /\ c'.RemovalInProgress = c.RemovalInProgress /\ c'.Dead = c.Dead
      <4>1. 0 \in Pids
        BY BoundsOK DEF Pids
      <4> QED BY <2>5, <4>1 DEF SetStopped, TypeOK
    <3>8. PICK a \in {Monitor, Restarter} : a = Monitor
      OBVIOUS
    <3>9. /\ th' \in [Actors -> Goroutine]
          /\ ThreadsOK' /\ MutexOK' /\ RemovalOK' /\ GoneOK' /\ Mounters' = Mounters
          /\ Creating' = Creating /\ th'[a] = u
          /\ \A b \in Actors : b # a => th'[b].pc = th[b].pc /\ th'[b].res = th[b].res
          /\ \A b \in Actors : th'[b].pc = "select" => th'[b].woken # Asleep
      <4>1. t = th[a] /\ th' = [FireWaiters(th, code) EXCEPT ![a] = u] /\ a # Restarter
        BY <3>0, <3>6, <3>8, GoroutinesOK
      <4>2. /\ u.pc \in {"autoRemove", "restartWait"} /\ (u.pc = "restartWait" => a = Restarter)
            /\ a = Restarter => config.policy # "no"
        BY <3>5, <4>1
      <4>3. UNCHANGED <<config, autoRemove, reg, mutex, proc, host>>
        BY <1>0, <1>4
      <4>4. u \in Goroutine
        BY <3>5
      <4> QED BY <1>1, <2>1, <3>1, <3>5, <3>7, <4>1, <4>2, <4>3, <4>4, StopFires
    <3>10. TypeOK'
      BY <1>0, <1>2, <1>4, <2>2, <2>5, <3>7, <3>9 DEF TypeOK
    <3>11. QueuesOK'
      BY <1>2, <3>7
    <3>12. ~RestartDue' /\ ~Creating' /\ ~At(Restarter, "stateStart")'
      BY <1>1, <3>8, <3>9, GoroutinesOK DEF RestartDue, At, Actors
    <3>13. ProcessOK'
      BY <1>0, <1>1, <1>2, <3>12 DEF ProcessOK
    <3>14. BeliefOK'
      BY <3>7, <3>12 DEF BeliefOK
    <3>15. WaitersOK'
      <4>1. \A b \in Actors : th[b].pc # "waitChan"
        BY <1>4, GoroutinesOK DEF MutexOK, Unlocked, Locking, Actors
      <4>2. \A b \in Actors : th'[b].pc # "waitChan"
        BY <3>5, <3>9, <4>1
      <4> QED BY <3>9, <4>2 DEF WaitersOK, At
    <3> QED BY <2>3, <3>9, <3>10, <3>11, <3>13, <3>14, <3>15 DEF CoreOK
  <2> QED BY <1>0, <1>4, <2>1, <2>4, <2>5 DEF StateExit
<1> QED BY <1>3, <1>4 DEF StateExit

\* The restart goroutine ends: the container runs, or it is stopped after all.
LEMMA RestartResultKeeps ==
    ASSUME IInv, RestartResult
    PROVE  IInv'
<1> USE DEF IInv
<1>0. PICK a \in {Monitor, Restarter} : a = Restarter
  OBVIOUS
<1>1. PICK t : t = th[a]
  OBVIOUS
<1>2. t.pc = "restarted" /\ t.pc \in Outermost /\ config.policy # "no" /\ a \in Actors
  BY <1>0, <1>1 DEF RestartResult, At, Outermost, ThreadsOK, Actors
<1>3. t \in Goroutine /\ t.stk = <<>>
  BY <1>0, <1>1, <1>2, Between
<1>4. CASE t.res = "ok" /\ JustStep(Restarter, Goto(th[Restarter], "idle"))
  <2>1. PICK u : u = Goto(t, "idle")
    OBVIOUS
  <2>2. "idle" \in Labels /\ "idle" \in Outermost
    BY DEF Labels, Outermost
  <2>3. /\ u \in Goroutine /\ u.pc = "idle" /\ u.stk = <<>> /\ u.op = t.op
        /\ u.target = t.target /\ u.calls = t.calls /\ u.saved = t.saved
    BY <1>3, <2>1, <2>2, GotoIs
  <2>4. Local(a, t, u) /\ ~Confirmed(u)
    BY <1>0, <1>1, <1>2, <2>2, <2>3, BetweenLocal
  <2>5. th' = [th EXCEPT ![a] = u] /\ Aside
    BY <1>0, <1>1, <1>4, <2>1, AsideNothing DEF JustStep, Step
  <2>6. t.pc \notin Locking /\ u.pc \notin Locking \cup {"select", "rmFiles"}
    BY <1>2, <2>3 DEF Locking
  <2>7. RestartDue' <=> RestartDue
    <3>1. th'[a] = u
      BY <1>2, <2>5 DEF TypeOK
    <3> QED BY <1>0, <1>1, <1>2, <1>4, <2>3, <3>1 DEF RestartDue, At
  <2> QED BY <1>1, <1>2, <2>4, <2>5, <2>6, <2>7, Plain
<1>5. CASE /\ t.res # "ok"
           /\ c' = SetStopped(c, th[Restarter].code)
           /\ th' = [FireWaiters(th, th[Restarter].code) EXCEPT
                       ![Restarter] = Goto(@, "autoRemove")]
           /\ UNCHANGED <<config, autoRemove, reg, mutex, rm, mounts, hVars, eVars>>
  <2>1. PICK code \in Codes : code = t.code
    BY <1>3 DEF Goroutine
  <2>2. RestartDue /\ ~Creating /\ proc = 0 /\ ~ExitPending
    <3>1. RestartDue
      BY <1>0, <1>1, <1>2, <1>3, <1>5 DEF RestartDue, At, Goroutine
    <3> QED BY <3>1 DEF CoreOK, ProcessOK, BeliefOK
  <2>3. FireWaiters(th, code)[a] = t
    <3>1. PICK f : f = FireWaiters(th, code)
      OBVIOUS
    <3>2. f[a] = th[a]
      BY <1>1, <1>2, <3>1, Fired
    <3> QED BY <1>1, <3>1, <3>2
  <2>4. PICK u : u = Goto(t, "autoRemove")
    OBVIOUS
  <2>5. /\ u \in Goroutine /\ u.pc = "autoRemove" /\ u.stk = <<>> /\ u.op = t.op
        /\ u.target = t.target /\ u.calls = t.calls /\ u.saved = t.saved
    BY <1>3, <2>4, GotoIs DEF Labels
  <2>6. th' = [FireWaiters(th, code) EXCEPT ![a] = u]
    BY <1>0, <1>1, <1>5, <2>1, <2>3, <2>4
  <2>7. /\ c' \in [Running : BOOLEAN, Paused : BOOLEAN, Restarting : BOOLEAN,
                   RemovalInProgress : BOOLEAN, Dead : BOOLEAN, Pid : Pids, ExitCode : Codes]
        /\ ~c'.Running /\ ~c'.Restarting /\ c'.Pid = 0 /\ ~c'.Paused
        /\ c'.RemovalInProgress = c.RemovalInProgress /\ c'.Dead = c.Dead
    <3>1. 0 \in Pids
      BY BoundsOK DEF Pids
    <3>2. c' = SetStopped(c, code)
      BY <1>0, <1>1, <1>5, <2>1
    <3> QED BY <3>1, <3>2 DEF SetStopped, TypeOK
  <2>8. /\ th' \in [Actors -> Goroutine]
        /\ ThreadsOK' /\ MutexOK' /\ RemovalOK' /\ GoneOK' /\ Mounters' = Mounters
        /\ Creating' = Creating
        /\ (\E b \in Actors : At(b, "setState"))' = (\E b \in Actors : At(b, "setState"))
        /\ th'[a] = u
    <3>1. /\ u.pc \in {"autoRemove", "restartWait"} /\ (u.pc = "restartWait" => a = Restarter)
          /\ a = Restarter => config.policy # "no"
      BY <1>2, <2>5
    <3>2. UNCHANGED <<config, autoRemove, reg, mutex, proc, host>>
      BY <1>5 DEF hVars
    <3>3. u \in Goroutine
      BY <2>5
    <3> QED BY <1>1, <1>2, <2>1, <2>2, <2>5, <2>6, <2>7, <3>1, <3>2, <3>3, StopFires
  <2>9. UNCHANGED <<config, autoRemove, reg, mutex, rm, mounts, proc, host, tracked, stream, handling, fns>>
    BY <1>5 DEF hVars, eVars
  <2>10. TypeOK'
    BY <2>7, <2>8, <2>9 DEF TypeOK
  <2>11. /\ HasExit(stream)' = HasExit(stream) /\ HasExit(handling)' = HasExit(handling)
         /\ HasPause(stream)' = HasPause(stream) /\ HasPause(handling)' = HasPause(handling)
         /\ HasExit(fns)' = HasExit(fns) /\ HasPause(fns)' = HasPause(fns)
         /\ Form(stream)' = Form(stream) /\ Form(handling)' = Form(handling) /\ Form(fns)' = Form(fns)
         /\ PauseFits(stream)' = PauseFits(stream) /\ PauseFits(handling)' = PauseFits(handling)
         /\ PauseFits(fns)' = PauseFits(fns)
    BY <2>9 DEF HasExit, HasPause, Form, PauseFits
  <2>12. Unread' = Unread /\ ExitPending' = ExitPending /\ PausePending' = PausePending
    BY <2>11 DEF Unread, ExitPending, PausePending
  <2>13. QueuesOK'
    <3>1. ~host.frozen
      BY <2>2 DEF CoreOK, QueuesOK
    <3>2. (PausePending => ~c.Dead /\ \E b \in Actors : At(b, "setState"))'
      BY <2>7, <2>8, <2>12 DEF CoreOK, QueuesOK
    <3>3. ~host'.frozen /\ ~c'.Paused /\ tracked' = tracked /\ handling' = handling
      BY <2>7, <2>9, <3>1
    <3> QED BY <2>11, <3>2, <3>3 DEF CoreOK, QueuesOK
  <2>14. ~RestartDue' /\ ~Creating' /\ ~At(Restarter, "stateStart")'
    BY <1>0, <2>2, <2>5, <2>8 DEF RestartDue, At
  <2>15. ProcessOK'
    BY <2>2, <2>9, <2>12, <2>14 DEF CoreOK, ProcessOK, ExitPending
  <2>16. BeliefOK'
    BY <2>7, <2>14 DEF BeliefOK
  <2>17. WaitersOK'
    BY <1>2, <2>9 DEF WaitersOK
  <2>18. MountsOK'
    BY <2>8, <2>9, <2>11 DEF MountsOK, Saved
  <2> QED BY <2>8, <2>10, <2>13, <2>15, <2>16, <2>17, <2>18 DEF CoreOK
<1> QED BY <1>0, <1>1, <1>4, <1>5 DEF RestartResult

\* The goroutine that waits for a pause or resume goes on, with the mutex.
LEMMA Handled ==
    ASSUME IInv, NEW f, f = PauseMonitorHandle(th)
    PROVE  /\ f \in [Actors -> Goroutine]
           /\ \A b \in Actors :
                \/ f[b] = th[b]
                \/ /\ th[b].pc = "setState" /\ f[b].pc = "stateSet"
                   /\ f[b].stk = th[b].stk /\ f[b].op = th[b].op /\ f[b].target = th[b].target
                   /\ f[b].saved = th[b].saved
<1>1. th \in [Actors -> Goroutine] /\ "stateSet" \in Labels
  BY DEF IInv, TypeOK, Labels
<1>2. \A b \in Actors : f[b] = IF th[b].pc = "setState" THEN Goto(th[b], "stateSet") ELSE th[b]
  BY DEF PauseMonitorHandle
<1>3. ASSUME NEW b \in Actors
      PROVE  /\ f[b] \in Goroutine
             /\ \/ f[b] = th[b]
                \/ /\ th[b].pc = "setState" /\ f[b].pc = "stateSet"
                   /\ f[b].stk = th[b].stk /\ f[b].op = th[b].op /\ f[b].target = th[b].target
                   /\ f[b].saved = th[b].saved
  <2>1. PICK t \in Goroutine : t = th[b]
    BY <1>1
  <2>2. CASE t.pc = "setState"
    <3>1. PICK u : u = Goto(t, "stateSet")
      OBVIOUS
    <3>2. f[b] = u
      BY <1>2, <2>1, <2>2, <3>1
    <3>3. /\ u \in Goroutine /\ u.pc = "stateSet" /\ u.stk = t.stk /\ u.op = t.op
          /\ u.target = t.target /\ u.saved = t.saved
      BY <1>1, <3>1, GotoIs
    <3> QED BY <2>1, <2>2, <3>2, <3>3
  <2>3. CASE t.pc # "setState"
    BY <1>2, <2>1, <2>3
  <2> QED BY <2>2, <2>3
<1>4. f = [b \in Actors |-> f[b]]
  BY DEF PauseMonitorHandle
<1> QED BY <1>3, <1>4

\* A function that runs for a pause or resume: the queues before and after it.
LEMMA PauseFirst ==
    ASSUME IInv, fns # <<>>, Head(fns).type # "exit", fns' = Tail(fns)
    PROVE  /\ fns' \in Seq(Events) /\ Form(fns') /\ ~HasPause(fns') /\ (HasExit(fns') <=> HasExit(fns))
           /\ HasPause(fns) /\ fns[1] = Head(fns)
<1>0. Form(fns)
  BY DEF IInv, CoreOK, QueuesOK
<1>1. CASE \E e \in Events : fns = <<e>>
  <2>1. PICK e \in Events : fns = <<e>>
    BY <1>1
  <2>2. Head(fns) = e /\ fns[1] = e /\ fns' = <<>>
    BY <2>1
  <2>3. <<>> \in Seq(Events)
    OBVIOUS
  <2> QED BY <2>1, <2>2, <2>3, OneEvent, NoEvent
<1>2. CASE \E p \in Events, x \in Events : p.type # "exit" /\ x.type = "exit" /\ fns = <<p, x>>
  <2>1. PICK p \in Events, x \in Events : p.type # "exit" /\ x.type = "exit" /\ fns = <<p, x>>
    BY <1>2
  <2>2. Head(fns) = p /\ fns[1] = p /\ fns' = <<x>>
    BY <2>1
  <2>3. <<x>> \in Seq(Events)
    OBVIOUS
  <2>4. HasExit(fns) /\ HasPause(fns)
    BY <2>1, TwoEvents
  <2>5. Form(<<x>>) /\ ~HasPause(<<x>>) /\ HasExit(<<x>>)
    BY <2>1, OneEvent
  <2> QED BY <2>2, <2>3, <2>4, <2>5
<1> QED BY <1>0, <1>1, <1>2 DEF Form

LEMMA StatePauseResumeKeeps ==
    ASSUME IInv, StatePauseResume
    PROVE  IInv'
<1> USE DEF IInv
<1>0. /\ fns # <<>> /\ Head(fns).type # "exit" /\ fns' = Tail(fns)
      /\ c' = IF reg THEN [c EXCEPT !.Paused = PausedAfter(Head(fns).type)] ELSE c
      /\ th' = PauseMonitorHandle(th)
      /\ UNCHANGED <<config, autoRemove, reg, mutex, rm, mounts, proc, host, tracked, stream, handling>>
  BY DEF StatePauseResume, hVars
<1>1. /\ fns' \in Seq(Events) /\ Form(fns') /\ ~HasPause(fns') /\ (HasExit(fns') <=> HasExit(fns))
      /\ HasPause(fns) /\ fns[1] = Head(fns)
  BY <1>0, PauseFirst
<1>2. PausePending /\ ~HasPause(stream) /\ ~HasPause(handling)
  BY <1>1 DEF PausePending, CoreOK, QueuesOK
<1>3. reg /\ ~Creating
  <2>1. ~c.Dead /\ \E b \in Actors : At(b, "setState")
    BY <1>2 DEF CoreOK, QueuesOK
  <2>2. PICK b \in Actors : At(b, "setState")
    BY <2>1
  <2>3. mutex = b
    BY <2>2 DEF MutexOK, At, Locking
  <2>4. \A d \in Actors : d # b => th[d].pc \notin Locking
    BY <2>3 DEF MutexOK
  <2> QED BY <2>1, <2>2, <2>4 DEF RemovalOK, TypeOK, Creating, At, Locking
<1>4. /\ c' \in [Running : BOOLEAN, Paused : BOOLEAN, Restarting : BOOLEAN,
                 RemovalInProgress : BOOLEAN, Dead : BOOLEAN, Pid : Pids, ExitCode : Codes]
      /\ c'.Running = c.Running /\ c'.Restarting = c.Restarting /\ c'.Pid = c.Pid
      /\ c'.RemovalInProgress = c.RemovalInProgress /\ c'.Dead = c.Dead
      /\ c'.Paused <=> Head(fns).type = "pause"
  <2>1. PICK s : s = c
    OBVIOUS
  <2>2. c' = [s EXCEPT !.Paused = (Head(fns).type = "pause")]
    BY <1>0, <1>3, <2>1 DEF PausedAfter
  <2> QED BY <2>1, <2>2 DEF TypeOK
<1>5. c'.Paused <=> host.frozen
  BY <1>1, <1>4 DEF CoreOK, QueuesOK, PauseFits
<1>6. PICK f : f = PauseMonitorHandle(th)
  OBVIOUS
<1>7. /\ f \in [Actors -> Goroutine] /\ th' = f
      /\ \A b \in Actors :
           \/ f[b] = th[b]
           \/ /\ th[b].pc = "setState" /\ f[b].pc = "stateSet"
              /\ f[b].stk = th[b].stk /\ f[b].op = th[b].op /\ f[b].target = th[b].target
              /\ f[b].saved = th[b].saved
  BY <1>0, <1>6, Handled
<1>8. ASSUME NEW b \in Actors
      PROVE  /\ ThreadOK(b, th'[b]) /\ (Removing(th'[b]) <=> Removing(th[b]))
             /\ Mounting(th'[b]) <=> Mounting(th[b])
             /\ Confirmed(th'[b]) => Confirmed(th[b])
             /\ th'[b].target = th[b].target
             /\ th'[b].pc \in Locking <=> th[b].pc \in Locking
             /\ th'[b].pc \notin {"stateSet"} => th'[b] = th[b]
             /\ th[b].pc \notin {"setState"} => th'[b] = th[b]
  <2>1. PICK v, w : v = th[b] /\ w = th'[b]
    OBVIOUS
  <2>2. ThreadOK(b, v)
    BY <2>1 DEF ThreadsOK
  <2>3. CASE w = v
    BY <2>1, <2>2, <2>3
  <2>4. CASE /\ v.pc = "setState" /\ w.pc = "stateSet"
             /\ w.stk = v.stk /\ w.op = v.op /\ w.target = v.target /\ w.saved = v.saved
    <3>1. ThreadOK(b, w)
      <4>1. StackOK(w.pc, w.stk, Role(b, w))
        BY <2>2, <2>4 DEF ThreadOK, StackOK, Role, Outermost, WaitLabels, KillLabels, StopLabels, RmLabels, RmBody
      <4> QED BY <2>2, <2>4, <4>1 DEF ThreadOK, Untimed, WaitLabels
    <3>2. (Removing(w) <=> Removing(v)) /\ (Mounting(w) <=> Mounting(v)) /\ ~Confirmed(w)
      BY <2>4 DEF Removing, Mounting, Confirmed, RmBody
    <3> QED BY <2>1, <2>4, <3>1, <3>2 DEF Locking
  <2> QED BY <1>7, <2>1, <2>3, <2>4
<1>9. ThreadsOK'
  <2>1. \A b \in Actors : ThreadOK(b, th[b])'
    BY <1>0, <1>8 DEF ThreadOK
  <2>2. (config.policy = "no" => At(Restarter, "idle"))'
    BY <1>0, <1>8 DEF ThreadsOK, At, Actors
  <2> QED BY <1>0, <2>1, <2>2 DEF ThreadsOK
<1>10. MutexOK'
  BY <1>0, <1>8 DEF MutexOK
<1>11. RemovalOK'
  BY <1>0, <1>4, <1>8 DEF RemovalOK, At
<1>12. GoneOK'
  <2>1. ASSUME NEW b \in Actors
        PROVE  /\ th'[b].target <= host.starts
               /\ Confirmed(th'[b]) => (proc = 0 \/ proc # th'[b].target) /\ (Removing(th'[b]) => proc = 0)
    BY <1>8, <2>1 DEF GoneOK, Gone
  <2> QED BY <1>0, <2>1 DEF GoneOK, Gone
<1>13. WaitersOK'
  BY <1>0, <1>4, <1>8 DEF WaitersOK, At
<1>14. Mounters' = Mounters /\ MountsOK'
  <2>1. Mounters' = Mounters
    BY <1>8 DEF Mounters
  <2>2. HasExit(fns)' = HasExit(fns)
    BY <1>1 DEF HasExit
  <2> QED BY <1>0, <2>1, <2>2 DEF MountsOK, Saved
<1>15. TypeOK'
  BY <1>0, <1>1, <1>4, <1>7 DEF TypeOK
<1>16. ~Creating' /\ RestartDue' = RestartDue /\ At(Restarter, "stateStart")' = At(Restarter, "stateStart")
  <2>1. ~Creating'
    BY <1>3, <1>8 DEF Creating, At
  <2>2. CASE th[Restarter].pc = "setState"
    <3>1. th'[Restarter].pc \in {"setState", "stateSet"}
      BY <1>7, <2>2 DEF Actors
    <3> QED BY <2>1, <2>2, <3>1 DEF RestartDue, At
  <2>3. CASE th[Restarter].pc # "setState"
    <3>1. th'[Restarter] = th[Restarter]
      BY <1>8, <2>3 DEF Actors
    <3> QED BY <2>1, <3>1 DEF RestartDue, At
  <2> QED BY <2>2, <2>3
<1>17. /\ HasExit(stream)' = HasExit(stream) /\ HasExit(handling)' = HasExit(handling)
       /\ HasPause(stream)' = HasPause(stream) /\ HasPause(handling)' = HasPause(handling)
       /\ Form(stream)' /\ Form(handling)' /\ Len(handling') < 2
  BY <1>0 DEF HasExit, HasPause, Form, CoreOK, QueuesOK
<1>18. /\ ~PausePending' /\ Unread' = Unread /\ (ExitPending' <=> ExitPending)
  BY <1>1, <1>2, <1>17 DEF PausePending, Unread, ExitPending
<1>19. QueuesOK'
  <2>1. PauseFits(stream)' /\ PauseFits(handling)' /\ PauseFits(fns)'
    BY <1>18 DEF PauseFits, PausePending
  <2>2. /\ ~HasPause(stream)' /\ ~HasPause(handling)' /\ ~HasPause(fns)'
    BY <1>18 DEF PausePending
  <2>3. /\ ~(HasExit(stream) /\ (HasExit(handling) \/ HasExit(fns)))'
        /\ ~(HasExit(handling) /\ HasExit(fns))'
    BY <1>1, <1>17 DEF CoreOK, QueuesOK
  <2>4. (host.frozen => proc # 0)' /\ (c.Paused <=> host.frozen)'
    BY <1>0, <1>5 DEF CoreOK, QueuesOK
  <2> QED BY <1>1, <1>17, <1>18, <2>1, <2>2, <2>3, <2>4 DEF QueuesOK
<1>20. ProcessOK'
  BY <1>0, <1>3, <1>4, <1>16, <1>18 DEF CoreOK, ProcessOK, Saved
<1>21. BeliefOK'
  <2>1. c'.Paused => c.Running
    BY <1>3, <1>5 DEF CoreOK, QueuesOK, ProcessOK
  <2> QED BY <1>0, <1>3, <1>4, <1>16, <1>18, <2>1 DEF CoreOK, BeliefOK, Saved
<1> QED BY <1>9, <1>10, <1>11, <1>12, <1>13, <1>14, <1>15, <1>19, <1>20, <1>21 DEF CoreOK

----------------------------------------------------------------------------
(* The theorems                                                            *)

LEMMA InitHolds ==
    Init => IInv
<1> SUFFICES ASSUME Init PROVE IInv
  OBVIOUS
<1>1. /\ NewGoroutine \in Goroutine /\ NewGoroutine.pc = "idle" /\ NewGoroutine.stk = <<>>
      /\ NewGoroutine.op = None /\ NewGoroutine.saved = FALSE /\ NewGoroutine.target = 0
  <2>1. /\ "idle" \in Labels /\ <<>> \in Seq(Labels) /\ 0 \in Codes /\ 0 \in Pids
        /\ 0 \in 0 .. MaxCalls
    BY BoundsOK DEF Labels, Codes, Pids
  <2> QED BY <2>1 DEF NewGoroutine, Goroutine
<1>2. th \in [Actors -> Goroutine] /\ \A a \in Actors : th[a] = NewGoroutine
  BY <1>1 DEF Init
<1>3. TypeOK
  <2>1. 0 \in Pids /\ 0 \in Codes /\ <<>> \in Seq(Events) /\ config.autoRemove \in BOOLEAN
    BY BoundsOK DEF Init, Pids, Codes, Setup
  <2>2. c \in [Running : BOOLEAN, Paused : BOOLEAN, Restarting : BOOLEAN,
               RemovalInProgress : BOOLEAN, Dead : BOOLEAN, Pid : Pids, ExitCode : Codes]
    BY <2>1 DEF Init, NewState
  <2>3. /\ rm \in [canceled : BOOLEAN, active : BOOLEAN, count : Nat]
        /\ host \in [starts : Pids, frozen : BOOLEAN, killed : BOOLEAN]
    BY <2>1 DEF Init, NewRestartManager
  <2>4. config \in Setups /\ mutex \in Actors \cup {Nobody} /\ mounts \in Int /\ proc \in Pids
    BY <2>1 DEF Init
  <2>5. reg \in BOOLEAN /\ tracked \in BOOLEAN
    BY DEF Init
  <2>6. autoRemove \in BOOLEAN
    BY <2>1, Zenon DEF Init
  <2>7. stream \in Seq(Events) /\ handling \in Seq(Events) /\ fns \in Seq(Events)
    BY <2>1 DEF Init
  <2> QED BY <1>2, <2>2, <2>3, <2>4, <2>5, <2>6, <2>7 DEF TypeOK
<1>4. ThreadsOK
  <2>1. ASSUME NEW a \in Actors, NEW t, t = NewGoroutine PROVE ThreadOK(a, t)
    BY <1>1, <2>1 DEF ThreadOK, StackOK, Untimed, Outermost, WaitLabels, KillLabels, StopLabels, RmLabels, RmBody
  <2>2. autoRemove => config.policy = "no"
    BY BoundsOK DEF Init
  <2>3. At(Restarter, "idle")
    BY <1>1, <1>2 DEF At, Actors
  <2> QED BY <1>2, <2>1, <2>2, <2>3 DEF ThreadsOK
<1>5. MutexOK
  BY <1>1, <1>2, GoroutinesOK DEF Init, MutexOK, Locking, Actors
<1>6. /\ ~HasExit(stream) /\ ~HasExit(handling) /\ ~HasExit(fns)
      /\ ~HasPause(stream) /\ ~HasPause(handling) /\ ~HasPause(fns)
      /\ Form(stream) /\ Form(handling) /\ Form(fns) /\ Len(handling) < 2
  BY NoEvent DEF Init
<1>7. ~Unread /\ ~ExitPending /\ ~PausePending
  BY <1>6 DEF Unread, ExitPending, PausePending
<1>8. ~RestartDue /\ ~Creating /\ ~At(Restarter, "stateStart")
  BY <1>1, <1>2 DEF RestartDue, Creating, At, Actors
<1>9. CoreOK
  <2>1. /\ c.Running = FALSE /\ c.Paused = FALSE /\ c.Restarting = FALSE /\ c.Pid = 0
        /\ proc = 0 /\ host.frozen = FALSE /\ tracked = FALSE
    BY DEF Init, NewState
  <2>2. QueuesOK
    BY <1>6, <1>7, <2>1 DEF QueuesOK, PauseFits
  <2>3. ProcessOK
    BY <1>7, <1>8, <2>1 DEF ProcessOK
  <2>4. BeliefOK
    BY <1>8, <2>1 DEF BeliefOK
  <2> QED BY <2>2, <2>3, <2>4 DEF CoreOK
<1>10. \A a \in Actors : ~Removing(th[a]) /\ ~Confirmed(th[a]) /\ ~Mounting(th[a])
  BY <1>1, <1>2, Bottom DEF Removing, Confirmed, Mounting, RmBody, StopOps, None
<1>11. RemovalOK
  BY <1>1, <1>2, <1>10 DEF Init, RemovalOK, At, NewState
<1>12. GoneOK
  BY <1>1, <1>2, <1>10 DEF Init, GoneOK
<1>13. WaitersOK
  BY <1>1, <1>2 DEF WaitersOK, At
<1>14. MountsOK
  <2>1. Mounters = {}
    BY <1>10 DEF Mounters
  <2>2. Cardinality({}) = 0
    BY FS_EmptySet
  <2> QED BY <1>6, <2>1, <2>2 DEF Init, MountsOK
<1> QED BY <1>3, <1>4, <1>5, <1>9, <1>11, <1>12, <1>13, <1>14 DEF IInv

LEMMA StutterKeeps ==
    ASSUME IInv, UNCHANGED vars
    PROVE  IInv'
<1> USE DEF IInv
<1>1. UNCHANGED <<config, autoRemove, reg, c, mutex, rm, mounts, proc, host, tracked, stream,
                  handling, fns, th>>
  BY DEF vars, dVars, hVars, eVars
<1>2. /\ ThreadsOK' /\ MutexOK' /\ RemovalOK' /\ GoneOK' /\ WaitersOK'
      /\ Mounters' = Mounters /\ Creating' = Creating /\ RestartDue' = RestartDue
      /\ At(Restarter, "stateStart")' = At(Restarter, "stateStart")
      /\ (\E b \in Actors : At(b, "setState"))' = (\E b \in Actors : At(b, "setState"))
  <2>1. proc' \in {0, proc} /\ host' = host /\ UNCHANGED <<config, autoRemove, reg, c, mutex, th>>
    BY <1>1
  <2> QED BY <2>1, EventAside
<1>3. TypeOK'
  BY <1>1 DEF TypeOK
<1>4. /\ HasExit(stream)' = HasExit(stream) /\ HasExit(handling)' = HasExit(handling)
      /\ HasPause(stream)' = HasPause(stream) /\ HasPause(handling)' = HasPause(handling)
      /\ HasExit(fns)' = HasExit(fns) /\ HasPause(fns)' = HasPause(fns)
      /\ Form(stream)' = Form(stream) /\ Form(handling)' = Form(handling) /\ Form(fns)' = Form(fns)
      /\ PauseFits(stream)' = PauseFits(stream) /\ PauseFits(handling)' = PauseFits(handling)
      /\ PauseFits(fns)' = PauseFits(fns)
  BY <1>1 DEF HasExit, HasPause, Form, PauseFits
<1>5. Unread' = Unread /\ ExitPending' = ExitPending /\ PausePending' = PausePending
  BY <1>4 DEF Unread, ExitPending, PausePending
<1>6. QueuesOK'
  BY <1>1, <1>2, <1>4, <1>5 DEF CoreOK, QueuesOK
<1>7. ProcessOK' /\ BeliefOK'
  BY <1>1, <1>2, <1>5 DEF CoreOK, ProcessOK, BeliefOK, Saved
<1>8. MountsOK'
  BY <1>1, <1>2, <1>4 DEF MountsOK, Saved
<1> QED BY <1>2, <1>3, <1>6, <1>7, <1>8 DEF CoreOK

LEMMA NextKeeps ==
    IInv /\ [Next]_vars => IInv'
<1> SUFFICES ASSUME IInv, [Next]_vars PROVE IInv'
  OBVIOUS
<1>1. ASSUME NEW a \in Clients, Request(a) PROVE IInv'
  BY <1>1, RequestKeeps
<1>2. ASSUME NEW a \in Actors, Run(a) PROVE IInv'
  <2>1. CASE WaitStop(a)
    BY <2>1, WaitStopKeeps
  <2>2. CASE Kill(a)
    BY <2>2, KillKeeps
  <2>3. CASE ContainerStop(a)
    BY <2>3, StopKeeps
  <2>4. CASE ContainerStart(a)
    BY <2>4, StartKeeps
  <2>5. CASE ContainerRm(a)
    BY <2>5, RmKeeps
  <2>6. CASE ContainerRestart(a)
    BY <2>6, RestartKeeps
  <2>7. CASE ContainerPause(a)
    BY <2>7, PauseKeeps
  <2>8. CASE SendSignal(a)
    BY <2>8, SignalKeeps
  <2>9. CASE AutoRemove(a)
    BY <2>9, AutoRemoveKeeps
  <2> QED BY <1>2, <2>1, <2>2, <2>3, <2>4, <2>5, <2>6, <2>7, <2>8, <2>9 DEF Run
<1>3. CASE ProcessExit
  BY <1>3, ProcessExitKeeps
<1>4. CASE EventLookup
  BY <1>4, EventLookupKeeps
<1>5. CASE HandleEvent
  BY <1>5, HandleEventKeeps
<1>6. CASE StateExit
  BY <1>6, StateExitKeeps
<1>7. CASE StatePauseResume
  BY <1>7, StatePauseResumeKeeps
<1>8. CASE RestartWait
  BY <1>8, RestartWaitKeeps
<1>9. CASE RestartResult
  BY <1>9, RestartResultKeeps
<1>10. CASE UNCHANGED vars
  BY <1>10, StutterKeeps
<1> QED BY <1>1, <1>2, <1>3, <1>4, <1>5, <1>6, <1>7, <1>8, <1>9, <1>10 DEF Next

\* Every step of every goroutine, of containerd and of libcontainerd keeps the
\* inductive invariant: who may be where, with which stack and mutex, which
\* events are under way, and what the daemon believes while they are.
THEOREM LifecycleInvariant == Spec => []IInv
<1> QED BY InitHolds, NextKeeps, PTL DEF Spec

\* The goroutines, queues and state of the container keep their types: stacks
\* hold labels only, pids and counters stay in range.
THEOREM LifecycleTypeCorrect == Spec => []TypeOK
<1>1. IInv => TypeOK
  BY DEF IInv
<1> QED BY <1>1, LifecycleInvariant, PTL

\* Nothing is pending when everything has settled.
LEMMA Settled ==
    ASSUME IInv, Quiescent
    PROVE  /\ ~RestartDue /\ ~Creating /\ ~At(Restarter, "stateStart") /\ Mounters = {}
           /\ ~Unread /\ ~ExitPending /\ ~PausePending /\ ~HasExit(fns)
<1>1. \A a \in Actors : th[a].pc = "idle"
  BY DEF Quiescent, At
<1>2. ~RestartDue /\ ~Creating /\ ~At(Restarter, "stateStart")
  BY <1>1 DEF RestartDue, Creating, At, Actors
<1>3. Mounters = {}
  BY <1>1 DEF Mounters, Mounting
<1> QED BY <1>2, <1>3, NoEvent DEF Quiescent, Unread, ExitPending, PausePending

\* When all calls and events have ended, the state of a registered container
\* (Running, Pid, Paused, Restarting) and libcontainerd's map agree with the
\* host, however starts, stops, restarts, pauses and exits were interleaved.
THEOREM StateAgrees == Spec => []Agreement
<1>1. IInv => Agreement
  <2> SUFFICES ASSUME IInv, Saved, Quiescent, reg
               PROVE  /\ c.Running <=> proc # 0
                      /\ c.Pid = proc
                      /\ c.Paused <=> proc # 0 /\ host.frozen
                      /\ ~c.Restarting
                      /\ tracked <=> proc # 0
    BY DEF Agreement
  <2>1. /\ ~RestartDue /\ ~Creating /\ ~At(Restarter, "stateStart")
        /\ ~Unread /\ ~ExitPending /\ ~PausePending
    BY Settled
  <2>2. ~c.Restarting /\ (c.Running <=> proc # 0)
    BY <2>1 DEF IInv, CoreOK, ProcessOK, BeliefOK
  <2>3. c.Pid = proc
    BY <2>1, <2>2 DEF IInv, CoreOK, ProcessOK, BeliefOK
  <2>4. c.Paused <=> proc # 0 /\ host.frozen
    BY <2>1 DEF IInv, CoreOK, QueuesOK
  <2>5. tracked <=> proc # 0
    BY <2>1 DEF IInv, CoreOK, ProcessOK
  <2> QED BY <2>2, <2>3, <2>4, <2>5
<1> QED BY <1>1, LifecycleInvariant, PTL

\* containerStart mounts the RW layer, and Cleanup and the deferred Unmount of
\* containerRestart unmount it: no order of them takes it away from a running
\* process or leaves a mount behind.
THEOREM MountsAreBalanced == Spec => []MountsBalanced
<1>1. IInv => MountsBalanced
  <2>1. ASSUME IInv, Saved, proc # 0 PROVE mounts > 0
    <3>1. tracked /\ reg
      BY <2>1 DEF IInv, CoreOK, ProcessOK, RemovalOK, TypeOK
    <3>2. mounts = Cardinality(Mounters) + 1 /\ Cardinality(Mounters) \in Nat
      BY <2>1, <3>1, MountersFinite DEF IInv, MountsOK
    <3> QED BY <3>2
  <2>2. ASSUME IInv, Saved, Quiescent, reg PROVE mounts = (IF proc # 0 THEN 1 ELSE 0)
    <3>1. Mounters = {} /\ ~Unread /\ ~HasExit(fns)
      BY <2>2, Settled
    <3>2. Cardinality(Mounters) = 0
      BY <3>1, FS_EmptySet
    <3>3. tracked <=> proc # 0
      BY <2>2, <3>1 DEF IInv, CoreOK, ProcessOK
    <3>4. mounts = 0 + (IF tracked \/ HasExit(fns) THEN 1 ELSE 0)
      BY <2>2, <3>2 DEF IInv, MountsOK
    <3> QED BY <3>1, <3>3, <3>4
  <2> QED BY <2>1, <2>2 DEF MountsBalanced
<1> QED BY <1>1, LifecycleInvariant, PTL

\* ContainerRm leaves no process behind, and no start or restart brings one
\* back to a container that has left the daemon.
THEOREM RemovedContainersStayDown == Spec => []RemovedStaysDown
<1>1. IInv => RemovedStaysDown
  BY DEF IInv, RemovalOK, RemovedStaysDown
<1> QED BY <1>1, LifecycleInvariant, PTL

\* A stop, kill, restart or removal that reports success has ended the process
\* that ran when it was called, through whichever of the nested waits, signals
\* and timeouts it went.
THEOREM StopsStop == Spec => []StopStops
<1>1. IInv => StopStops
  <2>1. ASSUME IInv, NEW a \in Clients, At(a, "idle"), th[a].res = "ok", th[a].op \in StopOps
        PROVE  proc = 0 \/ proc # th[a].target
    <3>1. Confirmed(th[a]) /\ a \in Actors
      BY <2>1 DEF Confirmed, At, Actors
    <3> QED BY <2>1, <3>1 DEF IInv, GoneOK, Gone
  <2> QED BY <2>1 DEF StopStops, StopOps
<1> QED BY <1>1, LifecycleInvariant, PTL

\* WaitWithContext reads Running and the channel under one hold of the mutex,
\* so nobody sleeps on a channel that SetStopped has already replaced.
THEOREM NoWakeupIsLost == Spec => []NoLostWakeup
<1>1. IInv => NoLostWakeup
  BY DEF IInv, WaitersOK, NoLostWakeup, WaitersAreWoken
<1> QED BY <1>1, LifecycleInvariant, PTL
=============================================================================
