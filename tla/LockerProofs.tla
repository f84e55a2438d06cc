---------------------------- MODULE LockerProofs ----------------------------
(***************************************************************************)
(* Proofs about Locker, for any number of threads, names and objects: the  *)
(* inductive invariant, and that Locker implements NamedMutex.             *)
(*                                                                         *)
(* That two threads inside under the same name have the same object needs  *)
(* that a name is never taken out of the map while somebody waits for it,  *)
(* which needs that waiters counts the threads that wait.                  *)
(***************************************************************************)
EXTENDS Locker, FiniteSetTheorems, TLAPS

Unique == \A t, u \in Threads : Inside(t) /\ Inside(u) /\ ctr[t] = ctr[u] => t = u
DistinctObjects == \A m, n \in Names : locks[m] = locks[n] /\ locks[m] # Nil => m = n
InsideHeld == \A t \in Threads : Inside(t) => held[ctr[t]]
WaitersCounted == \A o \in Objects : waiters[o] = Cardinality(Waiting(o))

LEMMA WaitingFinite ==
    ASSUME NEW o \in Objects
    PROVE  IsFiniteSet(Waiting(o)) /\ Cardinality(Waiting(o)) \in Nat
<1>1. Waiting(o) \subseteq Threads BY DEF Waiting
<1> QED BY <1>1, LockerAssumption, FS_Subset, FS_CardinalityType

\* Lock, up to l.mu.Unlock(): the waiter is counted before another thread can
\* delete the name.
LEMMA LookupStep ==
    ASSUME IInv, NEW t \in Threads, NEW n \in Names, LockLookup(t, n)
    PROVE  IInv'
<1> USE LockerAssumption DEF IInv
<1>1. PICK o \in Objects :
        /\ \/ locks[n] = o /\ UNCHANGED <<locks, held>>
              /\ waiters' = [waiters EXCEPT ![o] = @ + 1]
           \/ /\ locks[n] = Nil /\ Garbage(o)
              /\ locks' = [locks EXCEPT ![n] = o]
              /\ waiters' = [waiters EXCEPT ![o] = 1]
              /\ held' = [held EXCEPT ![o] = FALSE]
        /\ ctr' = [ctr EXCEPT ![t] = o]
  <2>1. CASE locks[n] # Nil
    <3>1. locks[n] \in Objects BY <2>1 DEF TypeOK
    <3> QED BY <2>1, <3>1 DEF LockLookup, Counted
  <2>2. CASE locks[n] = Nil BY <2>2 DEF LockLookup, Counted
  <2> QED BY <2>1, <2>2
<1>2. /\ pc[t] = "idle" /\ pc' = [pc EXCEPT ![t] = "waiting"]
      /\ arg' = [arg EXCEPT ![t] = n] /\ ctr[t] = Nil
  BY DEF LockLookup, ThreadOK
<1>3. TypeOK'
  <2>1. waiters' \in [Objects -> Nat] BY <1>1 DEF TypeOK
  <2>2. locks' \in [Names -> Objects \cup {Nil}] BY <1>1 DEF TypeOK
  <2>3. ctr' \in [Threads -> Objects \cup {Nil}] BY <1>1 DEF TypeOK
  <2>4. held' \in [Objects -> BOOLEAN]
    <3>1. CASE UNCHANGED held BY <3>1 DEF TypeOK
    <3>2. CASE held' = [held EXCEPT ![o] = FALSE] BY <3>2 DEF TypeOK
    <3> QED BY <1>1, <3>1, <3>2
  <2> QED BY <1>2, <2>1, <2>2, <2>3, <2>4 DEF TypeOK
<1>4. /\ pc'[t] = "waiting" /\ arg'[t] = n /\ ctr'[t] = o /\ locks'[n] = o
      /\ \A u \in Threads \ {t} : pc'[u] = pc[u] /\ arg'[u] = arg[u] /\ ctr'[u] = ctr[u]
      /\ \A m \in Names \ {n} : locks'[m] = locks[m] /\ locks[m] # o
  <2>1. \A m \in Names \ {n} : locks[m] # o BY <1>1 DEF Garbage
  <2> QED BY <1>1, <1>2, <2>1 DEF TypeOK
<1>5. ASSUME NEW u \in Threads PROVE ThreadOK(u)'
  <2>1. CASE u = t BY <1>4, <2>1 DEF ThreadOK
  <2>2. CASE u # t
    <3>1. pc'[u] = pc[u] /\ arg'[u] = arg[u] /\ ctr'[u] = ctr[u] /\ ThreadOK(u)
      BY <1>4, <2>2
    <3>2. arg[u] \in Names => locks'[arg[u]] = locks[arg[u]] \/ locks[arg[u]] = Nil
      BY <1>1, <1>4
    <3> QED BY <3>1, <3>2 DEF ThreadOK
  <2> QED BY <2>1, <2>2
<1>6. DistinctObjects' BY <1>4 DEF DistinctObjects
<1>7. InsideHeld' /\ Unique'
  <2>1. \A u \in Threads : Inside(u)' => u # t /\ Inside(u) /\ ctr'[u] = ctr[u]
    BY <1>4 DEF Inside
  <2>2. ASSUME NEW u \in Threads, Inside(u) PROVE held'[ctr[u]]
    <3>1. held[ctr[u]] /\ ctr[u] \in Objects BY <2>2 DEF ThreadOK, Inside
    <3>2. CASE UNCHANGED held BY <3>1, <3>2
    <3>3. CASE Garbage(o) /\ held' = [held EXCEPT ![o] = FALSE]
      <4>1. ctr[u] # o BY <3>3 DEF Garbage
      <4> QED BY <3>1, <3>3, <4>1 DEF TypeOK
    <3> QED BY <1>1, <3>2, <3>3
  <2> QED BY <2>1, <2>2 DEF InsideHeld, Unique
<1>8. ASSUME NEW x \in Objects PROVE waiters'[x] = Cardinality(Waiting(x)')
  <2>1. CASE x = o
    <3>1. Waiting(x)' = Waiting(x) \cup {t} /\ t \notin Waiting(x)
      BY <1>2, <1>4, <2>1 DEF Waiting
    <3>2. Cardinality(Waiting(x)') = Cardinality(Waiting(x)) + 1
      <4>1. IsFiniteSet(Waiting(x)) BY WaitingFinite
      <4>2. Cardinality(Waiting(x) \cup {t}) = Cardinality(Waiting(x)) + 1
        BY <3>1, <4>1, FS_AddElement
      <4> QED BY <3>1, <4>2
    <3>3. CASE waiters' = [waiters EXCEPT ![o] = @ + 1]
      BY <2>1, <3>2, <3>3 DEF TypeOK
    <3>4. CASE Garbage(o) /\ waiters' = [waiters EXCEPT ![o] = 1]
      <4>1. Waiting(x) = {} BY <2>1, <3>4 DEF Garbage, Waiting
      <4>2. Cardinality(Waiting(x)) = 0 BY <4>1, FS_EmptySet
      <4>3. waiters'[x] = 1 BY <2>1, <3>4 DEF TypeOK
      <4> QED BY <3>2, <4>2, <4>3
    <3> QED BY <1>1, <3>3, <3>4
  <2>2. CASE x # o
    <3>1. Waiting(x)' = Waiting(x) BY <1>2, <1>4, <2>2 DEF Waiting
    <3> QED BY <1>1, <2>2, <3>1 DEF TypeOK
  <2> QED BY <2>1, <2>2
<1>9. NoLeak' BY <1>2, <1>4 DEF NoLeak
<1> QED BY <1>3, <1>5, <1>6, <1>7, <1>8, <1>9 DEF DistinctObjects, InsideHeld, Unique

\* nameLock.Lock(): whoever gets the mutex of the object is alone inside.
LEMMA AcquireStep ==
    ASSUME IInv, NEW t \in Threads, LockAcquire(t)
    PROVE  IInv'
<1> USE LockerAssumption DEF IInv
<1>0. /\ pc[t] = "waiting" /\ ~held[ctr[t]] /\ ctr[t] \in Objects
      /\ held' = [held EXCEPT ![ctr[t]] = TRUE] /\ pc' = [pc EXCEPT ![t] = "acquired"]
      /\ UNCHANGED <<locks, waiters, arg, ctr>>
  BY DEF LockAcquire, MutexFree, ThreadOK
<1>1. TypeOK' BY <1>0 DEF TypeOK
<1>2. pc'[t] = "acquired" /\ \A u \in Threads \ {t} : pc'[u] = pc[u] BY <1>0 DEF TypeOK
<1>3. \A u \in Threads : ThreadOK(u)' BY <1>0, <1>2 DEF ThreadOK
<1>4. \A u \in Threads : Inside(u) => ctr[u] # ctr[t] BY <1>0
<1>5. InsideHeld'
  <2>1. \A x \in Objects : held[x] => held'[x] BY <1>0 DEF TypeOK
  <2>2. held'[ctr[t]] BY <1>0 DEF TypeOK
  <2>3. ASSUME NEW u \in Threads, Inside(u)' PROVE held'[ctr[u]]
    <3>1. CASE u = t BY <2>2, <3>1
    <3>2. CASE u # t
      <4>1. Inside(u) BY <1>2, <2>3, <3>2 DEF Inside
      <4>2. held[ctr[u]] /\ ctr[u] \in Objects BY <4>1 DEF ThreadOK, Inside
      <4> QED BY <2>1, <4>2
    <3> QED BY <3>1, <3>2
  <2> QED BY <1>0, <2>3 DEF InsideHeld
<1>6. Unique' BY <1>0, <1>2, <1>4 DEF Unique, Inside
<1>7. \A x \in Objects : Waiting(x)' = Waiting(x) BY <1>0, <1>2 DEF Waiting
<1>8. WaitersCounted' BY <1>0, <1>7 DEF WaitersCounted
<1>9. NoLeak' /\ DistinctObjects' BY <1>0, <1>2 DEF NoLeak, DistinctObjects
<1> QED BY <1>1, <1>3, <1>5, <1>6, <1>8, <1>9
        DEF DistinctObjects, InsideHeld, Unique, WaitersCounted

\* nameLock.dec()
LEMMA DecStep ==
    ASSUME IInv, NEW t \in Threads, LockDec(t)
    PROVE  IInv'
<1> USE LockerAssumption DEF IInv
<1> DEFINE o == ctr[t]
<1>0. /\ pc[t] = "acquired" /\ o \in Objects
      /\ waiters' = [waiters EXCEPT ![o] = @ - 1] /\ pc' = [pc EXCEPT ![t] = "holding"]
      /\ UNCHANGED <<locks, held, arg, ctr>>
  BY DEF LockDec, ThreadOK
<1>2. pc'[t] = "holding" /\ \A u \in Threads \ {t} : pc'[u] = pc[u] BY <1>0 DEF TypeOK
<1>3. \A u \in Threads : Inside(u)' <=> Inside(u) BY <1>0, <1>2 DEF Inside
<1>4. ASSUME NEW x \in Objects PROVE waiters'[x] = Cardinality(Waiting(x)')
  <2>1. CASE x = o
    <3>1. Waiting(x)' = Waiting(x) \ {t} /\ t \in Waiting(x)
      BY <1>0, <1>2, <2>1 DEF Waiting
    <3>2. Cardinality(Waiting(x)') = Cardinality(Waiting(x)) - 1
      BY <3>1, WaitingFinite, FS_RemoveElement
    <3> QED BY <1>0, <2>1, <3>2 DEF TypeOK
  <2>2. CASE x # o
    <3>1. Waiting(x)' = Waiting(x) BY <1>0, <1>2, <2>2 DEF Waiting
    <3> QED BY <1>0, <2>2, <3>1 DEF TypeOK
  <2> QED BY <2>1, <2>2
<1>5. TypeOK'
  <2>1. \A x \in Objects : Waiting(x)' \subseteq Threads BY DEF Waiting
  <2>2. \A x \in Objects : Cardinality(Waiting(x)') \in Nat
    BY <2>1, FS_Subset, FS_CardinalityType
  <2>3. \A x \in Objects : waiters'[x] \in Nat BY <1>4, <2>2
  <2>4. waiters' \in [Objects -> Nat] BY <1>0, <2>3 DEF TypeOK
  <2> QED BY <1>0, <2>4 DEF TypeOK
<1>6. \A u \in Threads : ThreadOK(u)' BY <1>0, <1>2 DEF ThreadOK
<1>7. NoLeak' /\ DistinctObjects' BY <1>0, <1>2 DEF NoLeak, DistinctObjects
<1>8. InsideHeld' /\ Unique' BY <1>0, <1>3 DEF InsideHeld, Unique
<1> QED BY <1>4, <1>5, <1>6, <1>7, <1>8 DEF DistinctObjects, InsideHeld, Unique

\* Unlock: the name stays in the map while somebody waits.
LEMMA UnlockStep ==
    ASSUME IInv, NEW t \in Threads, Unlock(t)
    PROVE  IInv'
<1> USE LockerAssumption DEF IInv
<1> DEFINE n == arg[t]
           o == ctr[t]
<1>0. /\ pc[t] = "holding" /\ n \in Names /\ o \in Objects /\ locks[n] = o
  BY DEF Unlock, ThreadOK
<1>1. /\ locks' = [locks EXCEPT ![n] = IF Deletable(o) THEN Nil ELSE o]
      /\ held' = [held EXCEPT ![o] = FALSE]
      /\ pc' = [pc EXCEPT ![t] = "idle"] /\ arg' = [arg EXCEPT ![t] = Nil]
      /\ ctr' = [ctr EXCEPT ![t] = Nil] /\ UNCHANGED waiters
  BY <1>0 DEF Unlock, MutexAfterUnlock
<1>2. /\ pc'[t] = "idle" /\ arg'[t] = Nil /\ ctr'[t] = Nil
      /\ \A u \in Threads \ {t} : pc'[u] = pc[u] /\ arg'[u] = arg[u] /\ ctr'[u] = ctr[u]
      /\ \A m \in Names \ {n} : locks'[m] = locks[m] /\ locks[m] # o
      /\ locks'[n] \in {o, Nil}
  BY <1>0, <1>1 DEF TypeOK
<1>3. TypeOK' BY <1>0, <1>1 DEF TypeOK
<1>4. ASSUME NEW u \in Threads \ {t}, pc[u] # "idle", arg[u] = n
      PROVE  locks'[n] = o /\ pc[u] = "waiting" /\ ctr[u] = o
  <2>1. ctr[u] = o /\ ~Inside(u) BY <1>0, <1>4 DEF ThreadOK, Inside
  <2>2. pc[u] = "waiting" BY <1>4, <2>1 DEF Inside, TypeOK
  <2>3. u \in Waiting(o) BY <2>1, <2>2 DEF Waiting
  <2>4. waiters[o] # 0 BY <1>0, <2>3, WaitingFinite, FS_EmptySet
  <2>5. locks'[n] = o BY <1>0, <1>1, <2>4 DEF Deletable, TypeOK
  <2> QED BY <2>1, <2>2, <2>5
<1>5. ASSUME NEW u \in Threads PROVE ThreadOK(u)'
  <2>1. CASE u = t BY <1>2, <2>1 DEF ThreadOK
  <2>2. CASE u # t /\ arg[u] # n BY <1>0, <1>2, <2>2 DEF ThreadOK
  <2>3. CASE u # t /\ arg[u] = n BY <1>0, <1>2, <1>4, <2>3 DEF ThreadOK
  <2> QED BY <2>1, <2>2, <2>3
<1>6. DistinctObjects' BY <1>0, <1>2 DEF DistinctObjects
<1>7. InsideHeld' /\ Unique'
  <2>1. \A u \in Threads : Inside(u)' => u # t /\ Inside(u) /\ ctr'[u] = ctr[u]
    BY <1>2 DEF Inside
  <2>2. ASSUME NEW u \in Threads \ {t}, Inside(u) PROVE held'[ctr[u]]
    <3>1. held[ctr[u]] /\ ctr[u] \in Objects BY <2>2 DEF ThreadOK, Inside
    <3>2. ctr[u] # o BY <1>0, <2>2 DEF Inside
    <3> QED BY <1>1, <3>1, <3>2 DEF TypeOK
  <2> QED BY <2>1, <2>2 DEF InsideHeld, Unique
<1>8. \A x \in Objects : Waiting(x)' = Waiting(x) BY <1>0, <1>2 DEF Waiting
<1>9. WaitersCounted' BY <1>1, <1>8 DEF WaitersCounted
<1>10. NoLeak'
  <2> SUFFICES ASSUME NEW m \in Names, locks'[m] # Nil
               PROVE  \E u \in Threads : pc'[u] # "idle" /\ arg'[u] = m
    BY DEF NoLeak
  <2>1. CASE m = n
    <3>1. waiters[o] # 0 BY <1>0, <1>1, <2>1 DEF Deletable, TypeOK
    <3>2. Waiting(o) # {} BY <1>0, <3>1, FS_EmptySet
    <3>3. PICK u \in Threads : pc[u] \in {"waiting", "acquired"} /\ ctr[u] = o
      BY <3>2 DEF Waiting
    <3>4. arg[u] = n /\ u # t BY <1>0, <3>3 DEF ThreadOK
    <3> QED BY <1>2, <2>1, <3>3, <3>4
  <2>2. CASE m # n
    <3>1. PICK u \in Threads : pc[u] # "idle" /\ arg[u] = m BY <1>2, <2>2 DEF NoLeak
    <3> QED BY <1>2, <2>2, <3>1
  <2> QED BY <2>1, <2>2
<1> QED BY <1>3, <1>5, <1>6, <1>7, <1>9, <1>10
        DEF DistinctObjects, InsideHeld, Unique, WaitersCounted

LEMMA InitIInv == Init => IInv
<1> SUFFICES ASSUME Init PROVE IInv OBVIOUS
<1> USE LockerAssumption DEF Init
<1>1. TypeOK BY DEF TypeOK
<1>2. \A o \in Objects : Waiting(o) = {} BY DEF Waiting
<1>3. \A o \in Objects : waiters[o] = Cardinality(Waiting(o)) BY <1>2, FS_EmptySet
<1> QED BY <1>1, <1>3 DEF IInv, ThreadOK, Inside, NoLeak

LEMMA StutterIInv == IInv /\ UNCHANGED vars => IInv'
<1> SUFFICES ASSUME IInv, UNCHANGED vars PROVE IInv' OBVIOUS
<1> USE DEF vars, IInv
<1>1. TypeOK' BY DEF TypeOK
<1>2. \A o \in Objects : Waiting(o)' = Waiting(o) BY DEF Waiting
<1>3. WaitersCounted' BY <1>2 DEF WaitersCounted
<1>4. \A u \in Threads : (Inside(u)' <=> Inside(u)) /\ ThreadOK(u)' BY DEF Inside, ThreadOK
<1>5. InsideHeld' /\ Unique' BY <1>4 DEF InsideHeld, Unique
<1>6. DistinctObjects' /\ NoLeak' BY DEF DistinctObjects, NoLeak
<1> QED BY <1>1, <1>3, <1>4, <1>5, <1>6
        DEF DistinctObjects, InsideHeld, Unique, WaitersCounted

\* The invariant holds in every reachable state.
THEOREM LockerInvariant == Spec => []IInv
<1>1. Init => IInv BY InitIInv
<1>2. IInv /\ [Next]_vars => IInv'
  BY LookupStep, AcquireStep, DecStep, UnlockStep, StutterIInv DEF Next
<1> QED BY <1>1, <1>2, PTL DEF Spec

\* Every variable keeps its type; waiters never goes below zero, although dec
\* does not test it.
THEOREM LockerTypeCorrect == Spec => []TypeOK
<1>1. IInv => TypeOK BY DEF IInv
<1> QED BY <1>1, LockerInvariant, PTL

\* Whoever waits for a name or holds it uses the object the map has for it, so
\* Unlock finds the right lock.
THEOREM LockerUsersAgree == Spec => []UsersAgree
<1>1. IInv => UsersAgree BY DEF IInv, ThreadOK, UsersAgree
<1> QED BY <1>1, LockerInvariant, PTL

\* Names nobody uses are cleaned up.
THEOREM LockerNoLeak == Spec => []NoLeak
<1>1. IInv => NoLeak BY DEF IInv
<1> QED BY <1>1, LockerInvariant, PTL

----------------------------------------------------------------------------
(* Locker implements NamedMutex                                            *)

\* owner is the thread inside under each name, of which there is at most one.
OwnerInside ==
    \A n \in Names :
        /\ owner[n] \in Threads \cup {Nil}
        /\ \A t \in Threads : owner[n] = t <=> Inside(t) /\ arg[t] = n

LEMMA OwnerIs == IInv => OwnerInside
<1> SUFFICES ASSUME IInv, NEW n \in Names
             PROVE  /\ owner[n] \in Threads \cup {Nil}
                    /\ \A t \in Threads : owner[n] = t <=> Inside(t) /\ arg[t] = n
  BY DEF OwnerInside
<1> USE LockerAssumption
<1>1. ASSUME NEW t \in Threads, NEW u \in Threads, Inside(t), Inside(u),
             arg[t] = n, arg[u] = n
      PROVE  t = u
  BY <1>1 DEF IInv, ThreadOK, Inside
<1>2. CASE \E t \in Threads : Inside(t) /\ arg[t] = n
  <2>1. owner[n] = CHOOSE t \in Threads : Inside(t) /\ arg[t] = n BY <1>2 DEF owner
  <2>2. owner[n] \in Threads /\ Inside(owner[n]) /\ arg[owner[n]] = n BY <1>2, <2>1
  <2> QED BY <1>1, <2>2
<1>3. CASE ~\E t \in Threads : Inside(t) /\ arg[t] = n
  <2>1. owner[n] = Nil BY <1>3 DEF owner
  <2> QED BY <1>3, <2>1
<1> QED BY <1>2, <1>3

\* A step that changes neither who is inside nor under which name.
LEMMA OwnerUnchanged ==
    ASSUME OwnerInside, OwnerInside',
           \A t \in Threads : /\ Inside(t)' <=> Inside(t)
                              /\ Inside(t) => arg'[t] = arg[t]
    PROVE  owner' = owner
<1>1. ASSUME NEW n \in Names PROVE owner'[n] = owner[n]
  BY LockerAssumption DEF OwnerInside
<1>2. owner = [n \in Names |-> owner[n]] /\ owner' = [n \in Names |-> owner'[n]]
  BY DEF owner
<1> QED BY <1>1, <1>2

\* How owner and want change in a step that changes one thread.
LEMMA WantStep ==
    ASSUME NEW t \in Threads,
           \A u \in Threads \ {t} : pc'[u] = pc[u] /\ arg'[u] = arg[u]
    PROVE  want' = [want EXCEPT ![t] = IF pc'[t] = "waiting" THEN arg'[t] ELSE Nil]
BY DEF want

LEMMA OwnerStep ==
    ASSUME OwnerInside, OwnerInside', NEW t \in Threads, NEW n \in Names,
           \A u \in Threads \ {t} : pc'[u] = pc[u] /\ arg'[u] = arg[u],
           Inside(t) => arg[t] = n, Inside(t)' => arg'[t] = n,
           \A u \in Threads \ {t} : ~(Inside(u) /\ arg[u] = n)
    PROVE  owner' = [owner EXCEPT ![n] = IF Inside(t)' THEN t ELSE Nil]
<1> USE LockerAssumption
<1>0. \A u \in Threads \ {t} : Inside(u)' <=> Inside(u) BY DEF Inside
<1>1. owner'[n] = IF Inside(t)' THEN t ELSE Nil BY <1>0 DEF OwnerInside
<1>2. ASSUME NEW m \in Names \ {n} PROVE owner'[m] = owner[m]
  <2>1. \A u \in Threads : (Inside(u)' /\ arg'[u] = m) <=> (Inside(u) /\ arg[u] = m)
    BY <1>0
  <2> QED BY <2>1 DEF OwnerInside
<1>3. owner = [x \in Names |-> owner[x]] /\ owner' = [x \in Names |-> owner'[x]]
  BY DEF owner
<1> QED BY <1>1, <1>2, <1>3

\* Every step of Locker is a step of NamedMutex or changes nothing there.
LEMMA StepRefines ==
    ASSUME IInv, OwnerInside, OwnerInside', [Next]_vars
    PROVE  [NM!Next]_<<want, owner>>
<1> USE LockerAssumption
<1>1. ASSUME NEW t \in Threads, NEW n \in Names, LockLookup(t, n) PROVE NM!Request(t, n)
  <2>1. /\ pc[t] = "idle" /\ pc' = [pc EXCEPT ![t] = "waiting"]
        /\ arg' = [arg EXCEPT ![t] = n]
    BY <1>1 DEF LockLookup
  <2>2. /\ pc'[t] = "waiting" /\ arg'[t] = n
        /\ \A u \in Threads \ {t} : pc'[u] = pc[u] /\ arg'[u] = arg[u]
    BY <2>1 DEF IInv, TypeOK
  <2>3. \A u \in Threads : (Inside(u)' <=> Inside(u)) /\ (Inside(u) => arg'[u] = arg[u])
    BY <2>1, <2>2 DEF Inside
  <2>4. want[t] = Nil /\ want' = [want EXCEPT ![t] = n]
    BY <2>1, <2>2, WantStep DEF want
  <2>5. \A x \in Names : owner[x] # t BY <2>1 DEF OwnerInside, Inside
  <2> QED BY <2>3, <2>4, <2>5, OwnerUnchanged DEF NM!Request
<1>2. ASSUME NEW t \in Threads, LockAcquire(t) PROVE arg[t] \in Names /\ NM!Enter(t, arg[t])
  <2> DEFINE n == arg[t]
  <2>1. /\ pc[t] = "waiting" /\ ~held[ctr[t]] /\ pc' = [pc EXCEPT ![t] = "acquired"]
        /\ UNCHANGED arg
    BY <1>2 DEF LockAcquire, MutexFree
  <2>2. n \in Names /\ ctr[t] = locks[n] BY <2>1 DEF IInv, ThreadOK
  <2>3. pc'[t] = "acquired" /\ \A u \in Threads \ {t} : pc'[u] = pc[u] /\ arg'[u] = arg[u]
    BY <2>1 DEF IInv, TypeOK
  <2>4. \A u \in Threads : ~(Inside(u) /\ arg[u] = n)
    <3>1. \A u \in Threads : Inside(u) /\ arg[u] = n => ctr[u] = ctr[t]
      BY <2>2 DEF IInv, ThreadOK, Inside
    <3>2. \A u \in Threads : Inside(u) => held[ctr[u]] BY DEF IInv
    <3> QED BY <2>1, <3>1, <3>2
  <2>5. owner[n] = Nil BY <2>2, <2>4 DEF OwnerInside
  <2>6. want[t] = n /\ want' = [want EXCEPT ![t] = Nil]
    BY <2>1, <2>3, WantStep DEF want
  <2>7. ~Inside(t) /\ Inside(t)' BY <2>1, <2>3 DEF Inside
  <2>8. owner' = [owner EXCEPT ![n] = t]
    BY <2>1, <2>2, <2>3, <2>4, <2>7, OwnerStep
  <2> QED BY <2>2, <2>5, <2>6, <2>8 DEF NM!Enter
<1>3. ASSUME NEW t \in Threads, LockDec(t) PROVE UNCHANGED <<want, owner>>
  <2>1. pc[t] = "acquired" /\ pc' = [pc EXCEPT ![t] = "holding"] /\ UNCHANGED arg
    BY <1>3 DEF LockDec
  <2>2. pc'[t] = "holding" /\ \A u \in Threads \ {t} : pc'[u] = pc[u]
    BY <2>1 DEF IInv, TypeOK
  <2>3. \A u \in Threads : (Inside(u)' <=> Inside(u)) /\ (Inside(u) => arg'[u] = arg[u])
    BY <2>1, <2>2 DEF Inside
  <2>4. want' = want BY <2>1, <2>2 DEF want
  <2> QED BY <2>3, <2>4, OwnerUnchanged
<1>4. ASSUME NEW t \in Threads, Unlock(t) PROVE arg[t] \in Names /\ NM!Leave(t, arg[t])
  <2> DEFINE n == arg[t]
  <2>1. /\ pc[t] = "holding" /\ pc' = [pc EXCEPT ![t] = "idle"]
        /\ arg' = [arg EXCEPT ![t] = Nil]
    BY <1>4 DEF Unlock
  <2>2. n \in Names /\ Inside(t) BY <2>1 DEF IInv, ThreadOK, Inside
  <2>3. /\ pc'[t] = "idle" /\ \A u \in Threads \ {t} : pc'[u] = pc[u] /\ arg'[u] = arg[u]
    BY <2>1 DEF IInv, TypeOK
  <2>4. owner[n] = t BY <2>2 DEF OwnerInside
  <2>5. \A u \in Threads \ {t} : ~(Inside(u) /\ arg[u] = n) BY <2>2, <2>4 DEF OwnerInside
  <2>6. ~Inside(t)' BY <2>3 DEF Inside
  <2>7. owner' = [owner EXCEPT ![n] = Nil] BY <2>2, <2>3, <2>5, <2>6, OwnerStep
  <2>8. want' = want
    <3>1. want[t] = Nil /\ want = [u \in Threads |-> want[u]] BY <2>1 DEF want
    <3>2. want' = [want EXCEPT ![t] = Nil] BY <2>3, WantStep
    <3> QED BY <3>1, <3>2
  <2> QED BY <2>2, <2>4, <2>7, <2>8 DEF NM!Leave
<1>5. CASE UNCHANGED vars
  <2>1. want' = want BY <1>5 DEF vars, want
  <2>2. \A u \in Threads : (Inside(u)' <=> Inside(u)) /\ (Inside(u) => arg'[u] = arg[u])
    BY <1>5 DEF vars, Inside
  <2> QED BY <2>1, <2>2, OwnerUnchanged
<1> QED BY <1>1, <1>2, <1>3, <1>4, <1>5 DEF Next, NM!Next

\* Locker implements one mutex per name, for every number of threads, names and
\* objects.
THEOREM LockerIsNamedMutex == Spec => IsNamedMutex
<1>1. Init => NM!Init BY DEF Init, NM!Init, want, owner, Inside
<1>2. IInv /\ IInv' /\ [Next]_vars => [NM!Next]_<<want, owner>>
  <2>1. IInv => OwnerInside BY OwnerIs
  <2>2. IInv' => OwnerInside' BY OwnerIs, PTL
  <2> QED BY <2>1, <2>2, StepRefines
<1> QED BY <1>1, <1>2, LockerInvariant, PTL DEF Spec, IsNamedMutex, NM!Spec
=============================================================================
