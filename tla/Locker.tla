------------------------------- MODULE Locker -------------------------------
(***************************************************************************)
(* pkg/locker: a mutex per name.  The Locker's own mutex protects the map  *)
(* from names to lockCtr objects, so the part of Lock before it is given   *)
(* back, and the whole of Unlock, are one step each.  The mutex of the     *)
(* object is taken after that, and waiters goes down in yet another step.  *)
(*                                                                         *)
(* An object that neither the map nor a thread refers to is garbage and    *)
(* may stand for a new one.                                                *)
(***************************************************************************)
EXTENDS Integers, FiniteSets

CONSTANTS Threads, Names, Objects, Nil

ASSUME LockerAssumption ==
    /\ IsFiniteSet(Threads)
    /\ Nil \notin Threads \cup Names \cup Objects

VARIABLES
    locks,      \* locks: the object of each name, or Nil
    waiters,    \* waiters of each object
    held,       \* whether the mutex of each object is locked
    pc,         \* where each thread is in Lock
    arg,        \* the name each thread locks or holds
    ctr         \* nameLock: the object each thread locks or holds

vars == <<locks, waiters, held, pc, arg, ctr>>

TypeOK ==
    /\ locks \in [Names -> Objects \cup {Nil}]
    /\ waiters \in [Objects -> Nat]
    /\ held \in [Objects -> BOOLEAN]
    /\ pc \in [Threads -> {"idle", "waiting", "acquired", "holding"}]
    /\ arg \in [Threads -> Names \cup {Nil}]
    /\ ctr \in [Threads -> Objects \cup {Nil}]

Init ==
    /\ locks = [n \in Names |-> Nil]
    /\ waiters = [o \in Objects |-> 0] /\ held = [o \in Objects |-> FALSE]
    /\ pc = [t \in Threads |-> "idle"]
    /\ arg = [t \in Threads |-> Nil] /\ ctr = [t \in Threads |-> Nil]

Garbage(o) == (\A n \in Names : locks[n] # o) /\ (\A t \in Threads : ctr[t] # o)

\* inc
Counted(w) == w + 1

\* Lock, up to l.mu.Unlock()
LockLookup(t, n) ==
    /\ pc[t] = "idle"
    /\ pc' = [pc EXCEPT ![t] = "waiting"] /\ arg' = [arg EXCEPT ![t] = n]
    /\ \/ /\ locks[n] # Nil
          /\ ctr' = [ctr EXCEPT ![t] = locks[n]]
          /\ waiters' = [waiters EXCEPT ![locks[n]] = Counted(@)]
          /\ UNCHANGED <<locks, held>>
       \/ /\ locks[n] = Nil
          /\ \E o \in Objects :
                /\ Garbage(o)
                /\ locks' = [locks EXCEPT ![n] = o]
                /\ ctr' = [ctr EXCEPT ![t] = o]
                /\ waiters' = [waiters EXCEPT ![o] = Counted(0)]
                /\ held' = [held EXCEPT ![o] = FALSE]

\* Mutant of MutexFree: the mutex of the object does not exclude.
MutexFreeAlways(o) == TRUE

\* l.mu.Lock() goes on
MutexFree(o) == ~held[o]

\* nameLock.Lock()
LockAcquire(t) ==
    /\ pc[t] = "waiting" /\ MutexFree(ctr[t])
    /\ held' = [held EXCEPT ![ctr[t]] = TRUE]
    /\ pc' = [pc EXCEPT ![t] = "acquired"]
    /\ UNCHANGED <<locks, waiters, arg, ctr>>

\* nameLock.dec()
LockDec(t) ==
    /\ pc[t] = "acquired"
    /\ waiters' = [waiters EXCEPT ![ctr[t]] = @ - 1]
    /\ pc' = [pc EXCEPT ![t] = "holding"]
    /\ UNCHANGED <<locks, held, arg, ctr>>

\* nameLock.count() == 0
Deletable(o) == waiters[o] = 0

\* Mutant of MutexAfterUnlock: only the last holder unlocks the object.
MutexAfterDelete(o) == ~Deletable(o)

\* nameLock.Unlock()
MutexAfterUnlock(o) == FALSE

\* Unlock, called by the holder; ErrNoSuchLock if the name is not in the map.
Unlock(t) ==
    /\ pc[t] = "holding"
    /\ LET n == arg[t]
           o == locks[n]
       IN  IF o = Nil
           THEN UNCHANGED <<locks, held>>
           ELSE /\ locks' = [locks EXCEPT ![n] = IF Deletable(o) THEN Nil ELSE o]
                /\ held' = [held EXCEPT ![o] = MutexAfterUnlock(o)]
    /\ pc' = [pc EXCEPT ![t] = "idle"]
    /\ arg' = [arg EXCEPT ![t] = Nil] /\ ctr' = [ctr EXCEPT ![t] = Nil]
    /\ UNCHANGED waiters

Next == \E t \in Threads :
            \/ \E n \in Names : LockLookup(t, n)
            \/ LockAcquire(t) \/ LockDec(t) \/ Unlock(t)

Spec == Init /\ [][Next]_vars

\* A goroutine that can go on does; sync.Mutex wakes some waiter, not each one.
Fairness == \A t \in Threads : WF_vars(LockAcquire(t)) /\ WF_vars(LockDec(t))

FairSpec == Spec /\ Fairness

----------------------------------------------------------------------------
(* Correctness                                                             *)

Inside(t) == pc[t] \in {"acquired", "holding"}

want == [t \in Threads |-> IF pc[t] = "waiting" THEN arg[t] ELSE Nil]
owner == [n \in Names |->
            IF \E t \in Threads : Inside(t) /\ arg[t] = n
            THEN CHOOSE t \in Threads : Inside(t) /\ arg[t] = n
            ELSE Nil]

NM == INSTANCE NamedMutex WITH want <- want, owner <- owner

\* Locker implements one mutex per name: the objects are never mixed up.
IsNamedMutex == NM!Spec

\* Whoever waits for a name or holds it has the object that the map has for the
\* name: Unlock never answers ErrNoSuchLock to a holder and never unlocks the
\* object of somebody else.
UsersAgree == \A t \in Threads : pc[t] # "idle" => ctr[t] = locks[arg[t]]

\* "Lock references are automatically cleaned up": a name is in the map only
\* while somebody waits for it or holds it.
NoLeak == \A n \in Names : locks[n] # Nil => \E t \in Threads : pc[t] # "idle" /\ arg[t] = n

\* A name that is free and waited for is taken by some waiter.
Progress == \A n \in Names :
    (owner[n] = Nil /\ \E t \in Threads : want[t] = n) ~> owner[n] # Nil

----------------------------------------------------------------------------
(* The inductive invariant                                                 *)

Waiting(o) == {t \in Threads : pc[t] \in {"waiting", "acquired"} /\ ctr[t] = o}

ThreadOK(t) ==
    IF pc[t] = "idle"
    THEN arg[t] = Nil /\ ctr[t] = Nil
    ELSE arg[t] \in Names /\ ctr[t] \in Objects /\ locks[arg[t]] = ctr[t]

IInv ==
    /\ TypeOK
    /\ \A t \in Threads : ThreadOK(t)
    /\ \A m, n \in Names : locks[m] = locks[n] /\ locks[m] # Nil => m = n
    /\ \A t \in Threads : Inside(t) => held[ctr[t]]
    /\ \A t, u \in Threads : Inside(t) /\ Inside(u) /\ ctr[t] = ctr[u] => t = u
    /\ \A o \in Objects : waiters[o] = Cardinality(Waiting(o))
    /\ NoLeak
=============================================================================
