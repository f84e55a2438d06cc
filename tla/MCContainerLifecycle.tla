------------------------ MODULE MCContainerLifecycle ------------------------
(* Instances of ContainerLifecycle: clients are interchangeable.           *)
EXTENDS ContainerLifecycle, TLC

CONSTANTS c1, c2, c3

ClientSymmetry == Permutations(Clients)

Created(policy, ops, faults) ==
    [policy |-> policy, stopSignal |-> FALSE, autoRemove |-> FALSE,
     ops |-> ops, faults |-> faults]
AutoRemoved(setup) == [setup EXCEPT !.autoRemove = TRUE]
WithStopSignal(setup) == [setup EXCEPT !.stopSignal = TRUE]

\* Requests without a policy, failing steps of the host, pauses, restarts and
\* automatic removals, and restart policies.
SafetySetups ==
    {Created("no", {"start", "stop", "stopForever", "kill", "rmForce", "wait", "signal"}, {}),
     Created("no", {"start", "stop", "rmForce"}, {"setup", "create", "disk", "signal", "rmfs"}),
     Created("no", {"start", "stop", "pause", "unpause", "rm"}, {}),
     Created("no", {"start", "restart"}, {}),
     AutoRemoved(Created("no", {"start", "stop", "rmForce"}, {"create"})),
     WithStopSignal(Created("always", {"start", "stop"}, {})),
     Created("always", {"start", "rmForce"}, {}),
     Created("on-failure", {"start", "stop", "wait"}, {})}

\* A container that is restarted when it fails, one who stops it and one who waits.
WaitSetups == {Created("on-failure", {"start", "stop", "wait"}, {})}

\* A restart policy, or a pause, can keep a call waiting: neither is used here.
LivenessSetups ==
    {Created("no", {"start", "stop", "kill"}, {}),
     Created("no", {"start", "rmForce"}, {})}
=============================================================================
