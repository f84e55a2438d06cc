----------------------------- MODULE NamedMutex -----------------------------
(***************************************************************************)
(* What pkg/locker promises: one mutex per name, whatever objects the      *)
(* implementation creates and drops behind the names.                      *)
(***************************************************************************)
CONSTANTS Threads, Names, Nil

VARIABLES
    want,   \* the name each thread waits for, or Nil
    owner   \* the thread that holds each name, or Nil

Init == want = [t \in Threads |-> Nil] /\ owner = [n \in Names |-> Nil]

\* Lock is called
Request(t, n) ==
    /\ want[t] = Nil /\ \A x \in Names : owner[x] # t
    /\ want' = [want EXCEPT ![t] = n]
    /\ UNCHANGED owner

\* Lock goes on
Enter(t, n) ==
    /\ want[t] = n /\ owner[n] = Nil
    /\ want' = [want EXCEPT ![t] = Nil]
    /\ owner' = [owner EXCEPT ![n] = t]

\* Unlock
Leave(t, n) ==
    /\ owner[n] = t
    /\ owner' = [owner EXCEPT ![n] = Nil]
    /\ UNCHANGED want

Next == \E t \in Threads, n \in Names : Request(t, n) \/ Enter(t, n) \/ Leave(t, n)

Spec == Init /\ [][Next]_<<want, owner>>
=============================================================================
