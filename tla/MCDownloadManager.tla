------------------------- MODULE MCDownloadManager -------------------------
(* Instances of DownloadManager for TLC. *)
EXTENDS DownloadManager
CONSTANTS p1, p2, t1, t2

PullPositions == Pulls \X Positions

Both == [p \in Pulls |-> 2]
OneAndBoth == [p \in Pulls |-> IF p = p1 THEN 1 ELSE 2]

\* Fetches are retried; one stack has its data twice, and registration fails; one
\* pull wants less than the other, and DiffID() does not know the layers.
FaultSetups ==
    {[len |-> Both, repeated |-> {}, faults |-> {"retry"}, unknown |-> FALSE],
     [len |-> Both, repeated |-> {2}, faults |-> {"register"}, unknown |-> FALSE],
     [len |-> OneAndBoth, repeated |-> {}, faults |-> {"dnr"}, unknown |-> TRUE]}
=============================================================================
