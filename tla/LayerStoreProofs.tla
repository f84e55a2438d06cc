-------------------------- MODULE LayerStoreProofs --------------------------
(***************************************************************************)
(* Proofs about LayerStore, for any number of threads, layers, names and   *)
(* references, every set of failing operations and any number of crashes.  *)
(*                                                                         *)
(* RefCounts is not inductive on its own.  Whether a step adds exactly one *)
(* retainer depends on the locks and the control points (ThreadsOK), on    *)
(* the references being new (ReservedRefs), and, for a layer that is not   *)
(* in layerMap, on nothing retaining it (RetainedPresent); and a layer may *)
(* only go because RefCounts says that a count of zero means no retainer.  *)
(***************************************************************************)
EXTENDS LayerStore, FiniteSetTheorems, TLAPS

Bit(b) == IF b THEN 1 ELSE 0

----------------------------------------------------------------------------
(* Counting                                                                *)

\* Adding a new element to a finite set, or removing one it has, changes its
\* cardinality by one.
LEMMA CardAdd ==
    ASSUME NEW S, IsFiniteSet(S), NEW x, x \notin S
    PROVE  /\ IsFiniteSet(S \cup {x})
           /\ Cardinality(S \cup {x}) = Cardinality(S) + 1
BY FS_AddElement

LEMMA CardRemove ==
    ASSUME NEW S, IsFiniteSet(S), NEW x, x \in S
    PROVE  /\ IsFiniteSet(S \ {x})
           /\ Cardinality(S \ {x}) = Cardinality(S) - 1
BY FS_RemoveElement

\* A set that differs from a finite one in at most the element x.
LEMMA CardChange ==
    ASSUME NEW S, NEW T, NEW x, IsFiniteSet(S),
           \A y : y # x => (y \in S <=> y \in T)
    PROVE  /\ IsFiniteSet(T)
           /\ Cardinality(S) \in Nat /\ Cardinality(T) \in Nat
           /\ Cardinality(T) = Cardinality(S) - Bit(x \in S) + Bit(x \in T)
<1>0. Cardinality(S) \in Nat
  BY FS_CardinalityType
<1>1. CASE x \in S /\ x \in T
  <2>1. S = T BY <1>1
  <2> QED BY <1>0, <1>1, <2>1 DEF Bit
<1>2. CASE x \notin S /\ x \notin T
  <2>1. S = T BY <1>2
  <2> QED BY <1>0, <1>2, <2>1 DEF Bit
<1>3. CASE x \in S /\ x \notin T
  <2>1. T = S \ {x} BY <1>3
  <2>2. IsFiniteSet(T) /\ Cardinality(T) = Cardinality(S) - 1
    BY <1>3, <2>1, CardRemove
  <2>3. Cardinality(T) \in Nat BY <2>2, FS_CardinalityType
  <2> QED BY <1>0, <1>3, <2>2, <2>3 DEF Bit
<1>4. CASE x \notin S /\ x \in T
  <2>1. T = S \cup {x} BY <1>4
  <2>2. IsFiniteSet(T) /\ Cardinality(T) = Cardinality(S) + 1
    BY <1>4, <2>1, CardAdd
  <2> QED BY <1>0, <1>4, <2>2 DEF Bit
<1> QED BY <1>1, <1>2, <1>3, <1>4

\* Every set that RefCounts counts is finite.
LEMMA Finite ==
    ASSUME TypeOK, NEW c \in Chains
    PROVE  /\ IsFiniteSet(refs[c]) /\ IsFiniteSet(Children(c))
           /\ IsFiniteSet(MountsOn(c)) /\ IsFiniteSet(Holders(c))
           /\ Cardinality(refs[c]) \in Nat /\ Cardinality(Children(c)) \in Nat
           /\ Cardinality(MountsOn(c)) \in Nat /\ Cardinality(Holders(c)) \in Nat
<1>1. refs[c] \subseteq Refs /\ Children(c) \subseteq Chains
      /\ MountsOn(c) \subseteq Names /\ Holders(c) \subseteq Threads
  BY DEF TypeOK, Children, MountsOn, Holders
<1>2. IsFiniteSet(refs[c]) /\ IsFiniteSet(Children(c))
      /\ IsFiniteSet(MountsOn(c)) /\ IsFiniteSet(Holders(c))
  BY <1>1, FS_Subset, StoreAssumption
<1> QED BY <1>2, FS_CardinalityType

\* A count of zero means that nothing retains the layer; a layer that is held
\* has a positive count.
LEMMA ZeroIsFree ==
    ASSUME TypeOK, RefCounts, NEW c \in layers, count[c] = 0
    PROVE  refs[c] = {} /\ Children(c) = {} /\ MountsOn(c) = {} /\ Holders(c) = {}
<1>1. c \in Chains BY DEF TypeOK
<1>2. /\ Cardinality(refs[c]) = 0 /\ Cardinality(Children(c)) = 0
      /\ Cardinality(MountsOn(c)) = 0 /\ Cardinality(Holders(c)) = 0
  BY <1>1, Finite DEF RefCounts
<1> QED BY <1>1, <1>2, Finite, FS_EmptySet

LEMMA HeldIsPositive ==
    ASSUME TypeOK, RefCounts, NEW t \in Threads, NEW c \in layers, th[t].hold = c
    PROVE  /\ count[c] > 0
           /\ count[c] = 1 => refs[c] = {}
<1>1. c \in Chains BY DEF TypeOK
<1>2. t \in Holders(c) BY DEF Holders
<1>3. Cardinality(Holders(c)) # 0 BY <1>1, <1>2, Finite, FS_EmptySet
<1>4. count[c] = 1 => Cardinality(refs[c]) = 0 BY <1>1, <1>3, Finite DEF RefCounts
<1>5. count[c] > 0 BY <1>1, <1>3, Finite DEF RefCounts
<1> QED BY <1>1, <1>4, <1>5, Finite, FS_EmptySet

\* How the four sets change in a step that changes one thread, one layer, one
\* writable layer or the references of one layer.
LEMMA HoldersStep ==
    ASSUME TypeOK, NEW t \in Threads,
           \A u \in Threads \ {t} : th'[u].hold = th[u].hold
    PROVE  \A c \in Chains :
             Cardinality(Holders(c)') =
               Cardinality(Holders(c)) - Bit(th[t].hold = c) + Bit(th'[t].hold = c)
<1> TAKE c \in Chains
<1>1. \A y : y # t => (y \in Holders(c) <=> y \in Holders(c)') BY DEF Holders
<1>2. (t \in Holders(c) <=> th[t].hold = c) /\ (t \in Holders(c)' <=> th'[t].hold = c)
  BY DEF Holders
<1>3. Cardinality(Holders(c)') = Cardinality(Holders(c)) - Bit(t \in Holders(c))
                                   + Bit(t \in Holders(c)')
  BY <1>1, Finite, CardChange
<1> QED BY <1>2, <1>3 DEF Bit

LEMMA ChildrenStep ==
    ASSUME TypeOK, NEW d \in Chains,
           \A e \in Chains \ {d} : e \in layers' <=> e \in layers, layers' \subseteq Chains
    PROVE  \A c \in Chains :
             Cardinality(Children(c)') =
               Cardinality(Children(c)) - Bit(d \in layers /\ Parent[d] = c)
                 + Bit(d \in layers' /\ Parent[d] = c)
<1> TAKE c \in Chains
<1>1. \A y : y # d => (y \in Children(c) <=> y \in Children(c)')
  BY DEF Children, TypeOK
<1>2. /\ d \in Children(c) <=> d \in layers /\ Parent[d] = c
      /\ d \in Children(c)' <=> d \in layers' /\ Parent[d] = c
  BY DEF Children
<1>3. Cardinality(Children(c)') = Cardinality(Children(c)) - Bit(d \in Children(c))
                                    + Bit(d \in Children(c)')
  BY <1>1, Finite, CardChange
<1> QED BY <1>2, <1>3 DEF Bit

LEMMA MountsStep ==
    ASSUME TypeOK, NEW n \in Names, mounts' \subseteq Names,
           \A e \in Names \ {n} : /\ e \in mounts' <=> e \in mounts
                                  /\ mparent'[e] = mparent[e]
    PROVE  \A c \in Chains :
             Cardinality(MountsOn(c)') =
               Cardinality(MountsOn(c)) - Bit(n \in mounts /\ mparent[n] = c)
                 + Bit(n \in mounts' /\ mparent'[n] = c)
<1> TAKE c \in Chains
<1>1. \A y : y # n => (y \in MountsOn(c) <=> y \in MountsOn(c)')
  BY DEF MountsOn, TypeOK
<1>2. /\ n \in MountsOn(c) <=> n \in mounts /\ mparent[n] = c
      /\ n \in MountsOn(c)' <=> n \in mounts' /\ mparent'[n] = c
  BY DEF MountsOn
<1>3. Cardinality(MountsOn(c)') = Cardinality(MountsOn(c)) - Bit(n \in MountsOn(c))
                                    + Bit(n \in MountsOn(c)')
  BY <1>1, Finite, CardChange
<1> QED BY <1>2, <1>3 DEF Bit

\* The counts follow from the ones before as soon as the changes of the four
\* sets add up to the change of the count.
LEMMA QuietCounts ==
    ASSUME IInv, UNCHANGED <<layers, count, refs, mounts, mparent>>,
           \A u \in Threads : th'[u].hold = th[u].hold
    PROVE  RetainedPresent' /\ RefCounts'
<1>1. \A c \in Chains : /\ Children(c)' = Children(c) /\ MountsOn(c)' = MountsOn(c)
                        /\ Holders(c)' = Holders(c)
  BY DEF Children, MountsOn, Holders
<1>2. RetainedPresent' BY DEF IInv, RetainedPresent
<1>3. RefCounts' BY <1>1 DEF IInv, TypeOK, RefCounts
<1> QED BY <1>2, <1>3

----------------------------------------------------------------------------
(* The steps that retain and release nothing                               *)

\* A thread that gives back its locks keeps no layer.
LEMMA FinishThread ==
    ASSUME IInv, NEW t \in Threads, Finish(t), th[t].hold = Nil
    PROVE  /\ \A u \in Threads : th'[u].hold = th[u].hold
           /\ th'[t] = IdleThread
           /\ \A u \in Threads \ {t} : th'[u] = th[u]
BY DEF IInv, TypeOK, Finish, IdleThread

LEMMA QuietSteps ==
    ASSUME IInv, NEW t \in Threads,
           \/ UnwindLock(t) \/ DeleteData(t) \/ DeleteDataFails(t) \/ DeleteMetaFails(t)
           \/ RegisterCreate(t) \/ MountCreate(t) \/ SaveMountID(t)
           \/ RemoveMountData(t) \/ RemoveInitData(t) \/ ReleaseRWLayerFails(t)
           \/ RegisterCreateFails(t) \/ RegisterCommitFails(t) \/ CreateRWLayerFails(t)
           \/ \E m \in Names, r \in Refs : ReleaseRWLayer(t, m, r)
    PROVE  IInv'
<1> USE StoreAssumption DEF IInv, ThreadRec
<1>1. CASE UnwindLock(t)
  <2>1. \A u \in Threads : th'[u].hold = th[u].hold
    BY <1>1 DEF UnwindLock, Goto, TypeOK
  <2>2. TypeOK'
    <3>1. th' \in [Threads -> ThreadRec] BY <1>1 DEF UnwindLock, Goto, TypeOK, PCs, ThreadRec
    <3> QED BY <1>1, <3>1 DEF UnwindLock, TypeOK, diskVars
  <2>3. ThreadsOK'
    BY <1>1 DEF UnwindLock, Goto, At, TypeOK, ThreadsOK, ThreadOK, Releasing, Registering,
                Mounting, Unmounting
  <2>4. ReservedRefs'
    BY <1>1 DEF UnwindLock, Goto, At, TypeOK, ReservedRefs, Registering, Mounting
  <2> QED BY <1>1, <2>1, <2>2, <2>3, <2>4, QuietCounts DEF UnwindLock
<1>2. CASE DeleteData(t)
  <2>1. \A u \in Threads : th'[u].hold = th[u].hold
    BY <1>2 DEF DeleteData, Goto, TypeOK
  <2>2. TypeOK'
    <3>1. th' \in [Threads -> ThreadRec] BY <1>2 DEF DeleteData, Goto, TypeOK, PCs, ThreadRec
    <3> QED BY <1>2, <3>1 DEF DeleteData, TypeOK
  <2>3. ThreadsOK'
    BY <1>2 DEF DeleteData, Goto, At, TypeOK, ThreadsOK, ThreadOK, Releasing, Registering,
                Mounting, Unmounting
  <2>4. ReservedRefs'
    BY <1>2 DEF DeleteData, Goto, At, TypeOK, ReservedRefs, Registering, Mounting
  <2> QED BY <1>2, <2>1, <2>2, <2>3, <2>4, QuietCounts DEF DeleteData
<1>3. CASE DeleteDataFails(t) \/ DeleteMetaFails(t)
  <2>0. th[t].hold = Nil /\ Finish(t)
    BY <1>3 DEF DeleteDataFails, DeleteMetaFails, At, ThreadsOK, ThreadOK
  <2>1. \A u \in Threads : th'[u].hold = th[u].hold BY <2>0, FinishThread
  <2>2. TypeOK'
    BY <1>3 DEF DeleteDataFails, DeleteMetaFails, Finish, IdleThread, TypeOK, PCs, ThreadRec,
                LayerOrNil, diskVars
  <2>3. ThreadsOK'
    BY <1>3 DEF DeleteDataFails, DeleteMetaFails, Finish, IdleThread, At, TypeOK,
                ThreadsOK, ThreadOK, Releasing, Registering, Mounting, Unmounting
  <2>4. ReservedRefs'
    BY <1>3 DEF DeleteDataFails, DeleteMetaFails, Finish, IdleThread, At, TypeOK,
                ReservedRefs, Registering, Mounting
  <2> QED BY <1>3, <2>1, <2>2, <2>3, <2>4, QuietCounts DEF DeleteDataFails, DeleteMetaFails
<1>4. CASE \/ RegisterCreate(t) \/ MountCreate(t) \/ SaveMountID(t)
           \/ RemoveMountData(t) \/ RemoveInitData(t)
  <2> USE <1>4 DEF RegisterCreate, MountCreate, SaveMountID, RemoveMountData, RemoveInitData, Goto
  <2>1. \A u \in Threads : th'[u].hold = th[u].hold BY DEF TypeOK
  <2>2. TypeOK'
    <3>1. th' \in [Threads -> ThreadRec] BY DEF TypeOK, PCs, ThreadRec
    <3>2. /\ mdata' \in [Names -> LayerOrNil \cup {Absent}]
          /\ mmeta' \in [Names -> LayerOrNil \cup {Absent}]
      BY DEF TypeOK, ThreadRec, LayerOrNil, diskVars
    <3> QED BY <3>1, <3>2 DEF TypeOK, diskVars
  <2>3. ThreadsOK'
    BY DEF At, TypeOK, ThreadsOK, ThreadOK, Releasing, Registering, Mounting, Unmounting
  <2>4. ReservedRefs'
    BY DEF At, TypeOK, ReservedRefs, Registering, Mounting
  <2>5. UNCHANGED <<layers, count, refs, mounts, mparent>> OBVIOUS
  <2> QED BY <2>1, <2>2, <2>3, <2>4, <2>5, QuietCounts
<1>5. CASE ReleaseRWLayerFails(t)
  <2> USE <1>5 DEF ReleaseRWLayerFails
  <2>0. th[t].hold = Nil /\ Finish(t) BY DEF ThreadsOK, ThreadOK, Unmounting
  <2>1. \A u \in Threads : th'[u].hold = th[u].hold BY <2>0, FinishThread
  <2>2. TypeOK'
    <3>1. mrefs' \in [Names -> SUBSET Refs]
      <4>1. th[t].name \in Names /\ th[t].ref \in Refs BY DEF ThreadsOK, ThreadOK, Unmounting
      <4> QED BY <4>1 DEF TypeOK
    <3>2. /\ mdata' \in [Names -> LayerOrNil \cup {Absent}]
          /\ mmeta' \in [Names -> LayerOrNil \cup {Absent}]
      <4>1. th[t].name \in Names BY DEF ThreadsOK, ThreadOK, Unmounting
      <4> QED BY <4>1 DEF TypeOK, LayerOrNil
    <3>3. th' \in [Threads -> ThreadRec] /\ layerL' \in Threads \cup {Nil}
          /\ mountL' \in Threads \cup {Nil}
      BY DEF Finish, IdleThread, TypeOK, PCs, ThreadRec, LayerOrNil
    <3> QED BY <3>1, <3>2, <3>3 DEF TypeOK
  <2>3. ThreadsOK'
    BY DEF Finish, IdleThread, At, TypeOK, ThreadsOK, ThreadOK, Releasing, Registering, Mounting,
           Unmounting
  <2>4. ReservedRefs'
    BY DEF Finish, IdleThread, At, TypeOK, ReservedRefs, Registering, Mounting
  <2>5. UNCHANGED <<layers, count, refs, mounts, mparent>> OBVIOUS
  <2> QED BY <2>1, <2>2, <2>3, <2>4, <2>5, QuietCounts
<1>6. CASE RegisterCreateFails(t) \/ RegisterCommitFails(t) \/ CreateRWLayerFails(t)
  <2> USE <1>6 DEF RegisterCreateFails, RegisterCommitFails, CreateRWLayerFails
  <2>0. Unwind(t) /\ th[t].pc \in Registering \cup Mounting
        /\ UNCHANGED <<layers, count, refs, mounts, mparent, mrefs, diskVars, faults, crashes>>
    BY DEF At, Registering, Mounting
  <2> HIDE <1>6 DEF RegisterCreateFails, RegisterCommitFails, CreateRWLayerFails
  <2>1. CASE th[t].hold = Nil
    <3>0. Finish(t) BY <2>0, <2>1 DEF Unwind
    <3>1. \A u \in Threads : th'[u].hold = th[u].hold BY <3>0, <2>1, FinishThread
    <3>2. TypeOK'
      BY <2>0, <3>0 DEF Finish, IdleThread, TypeOK, PCs, ThreadRec, LayerOrNil, diskVars
    <3>3. ThreadsOK'
      BY <2>0, <3>0 DEF Finish, IdleThread, TypeOK, ThreadsOK, ThreadOK, Releasing, Registering,
                        Mounting, Unmounting
    <3>4. ReservedRefs'
      BY <2>0, <3>0 DEF Finish, IdleThread, TypeOK, ReservedRefs, Registering, Mounting
    <3> QED BY <2>0, <3>1, <3>2, <3>3, <3>4, QuietCounts DEF ThreadsOK
  <2>2. CASE th[t].hold # Nil
    <3>0. /\ th' = [th EXCEPT ![t].pc = "unwind", ![t].ref = Nil]
          /\ UNCHANGED <<layerL, mountL>>
      BY <2>0, <2>2 DEF Unwind
    <3>1. \A u \in Threads : th'[u].hold = th[u].hold BY <3>0 DEF TypeOK
    <3>2. TypeOK'
      <4>1. th[t] \in ThreadRec BY DEF TypeOK
      <4>2. [th[t] EXCEPT !.pc = "unwind", !.ref = Nil] \in ThreadRec
        BY <4>1 DEF ThreadRec, PCs
      <4>3. th' = [th EXCEPT ![t] = [th[t] EXCEPT !.pc = "unwind", !.ref = Nil]]
        BY <3>0 DEF TypeOK
      <4>4. th' \in [Threads -> ThreadRec] BY <4>2, <4>3 DEF TypeOK
      <4> QED BY <2>0, <3>0, <4>4 DEF TypeOK, diskVars
    <3>3. ASSUME NEW u \in Threads PROVE ThreadOK(u)'
      <4> USE DEF TypeOK, LayerOrNil, ThreadsOK, ThreadOK, Releasing, Registering, Mounting,
                  Unmounting
      <4>1. CASE u = t BY <2>0, <2>2, <3>0, <4>1
      <4>2. CASE u # t BY <2>0, <2>2, <3>0, <4>2
      <4> QED BY <4>1, <4>2
    <3>4. ReservedRefs'
      BY <2>0, <3>0 DEF TypeOK, ReservedRefs, Registering, Mounting
    <3> QED BY <2>0, <3>1, <3>2, <3>3, <3>4, QuietCounts DEF ThreadsOK
  <2> QED BY <2>1, <2>2
<1>7. CASE \E m \in Names, r \in Refs : ReleaseRWLayer(t, m, r)
  <2> PICK m \in Names, r \in Refs : ReleaseRWLayer(t, m, r) BY <1>7
  <2>0. /\ At(t, "idle") /\ mountL = Nil /\ m \in mounts
        /\ mrefs' = [mrefs EXCEPT ![m] = @ \ {r}]
        /\ UNCHANGED <<layers, count, refs, mounts, mparent, layerL, diskVars, faults, crashes>>
    BY DEF ReleaseRWLayer
  <2>1. CASE UNCHANGED <<mountL, th>>
    <3>1. TypeOK' BY <2>0, <2>1 DEF TypeOK, diskVars
    <3>2. ThreadsOK' BY <2>0, <2>1 DEF ThreadsOK, ThreadOK
    <3>3. ReservedRefs' BY <2>0, <2>1 DEF ReservedRefs
    <3> QED BY <2>0, <2>1, <3>1, <3>2, <3>3, QuietCounts
  <2>2. CASE /\ mountL' = t
             /\ th' = [th EXCEPT ![t].pc = "rmMount", ![t].name = m, ![t].ref = r]
    <3>1. \A u \in Threads : th'[u].hold = th[u].hold BY <2>2 DEF TypeOK
    <3>2. TypeOK'
      <4> DEFINE rec == [th[t] EXCEPT !.pc = "rmMount", !.name = m, !.ref = r]
      <4>1. th[t] \in ThreadRec BY DEF TypeOK
      <4>2. rec \in ThreadRec BY <4>1 DEF PCs
      <4>3. th' = [th EXCEPT ![t] = rec] BY <2>2 DEF TypeOK
      <4>4. th' \in [Threads -> ThreadRec] BY <4>2, <4>3 DEF TypeOK
      <4> QED BY <2>0, <2>2, <4>4 DEF TypeOK, diskVars
    <3>3. ASSUME NEW u \in Threads PROVE ThreadOK(u)'
      <4> USE DEF At, TypeOK, ThreadsOK, ThreadOK, Releasing, Registering, Mounting, Unmounting
      <4>1. CASE u = t BY <2>0, <2>2, <4>1
      <4>2. CASE u # t BY <2>0, <2>2, <4>2
      <4> QED BY <4>1, <4>2
    <3>4. ReservedRefs'
      BY <2>0, <2>2 DEF At, TypeOK, ReservedRefs, Registering, Mounting
    <3> QED BY <2>0, <3>1, <3>2, <3>3, <3>4, QuietCounts DEF ThreadsOK
  <2> QED BY <2>1, <2>2 DEF ReleaseRWLayer
<1> QED BY <1>1, <1>2, <1>3, <1>4, <1>5, <1>6, <1>7

----------------------------------------------------------------------------
(* The steps that retain or release a layer                                *)

\* A thread whose record is replaced; the others stay.
LEMMA Moved ==
    ASSUME TypeOK, NEW t \in Threads, NEW rec \in ThreadRec, th' = [th EXCEPT ![t] = rec]
    PROVE  /\ th' \in [Threads -> ThreadRec]
           /\ th'[t] = rec
           /\ \A u \in Threads \ {t} : th'[u] = th[u]
BY DEF TypeOK

LEMMA IdleTyped == IdleThread \in ThreadRec
BY DEF IdleThread, ThreadRec, PCs, LayerOrNil

\* releaseLayer: the count goes down by one and the thread holds nothing more.
LEMMA ReleaseLayerStep ==
    ASSUME IInv, NEW t \in Threads, ReleaseLayer(t)
    PROVE  IInv'
<1> DEFINE c == th[t].hold
           gone == [th[t] EXCEPT !.pc = "delete", !.chain = c, !.hold = Nil]
<1> USE StoreAssumption DEF IInv
<1>0. /\ c \in Chains /\ c \in layers /\ layerL = t /\ th[t].pc = "release"
      /\ th[t] \in ThreadRec
  BY DEF ReleaseLayer, At, TypeOK, ThreadsOK, ThreadOK, RetainedPresent, Releasing
<1>1. count[c] > 0 BY <1>0, HeldIsPositive
<1>2. /\ count' = [count EXCEPT ![c] = @ - 1]
      /\ UNCHANGED <<layers, refs, mounts, mparent, mrefs, diskVars, faults, crashes>>
  BY DEF ReleaseLayer
<1>3. /\ \/ /\ th' = [th EXCEPT ![t] = gone] /\ count[c] = 1
            /\ UNCHANGED <<layerL, mountL>>
         \/ Finish(t)
  BY DEF ReleaseLayer, IsLast, TypeOK
<1>4. gone \in ThreadRec BY <1>0 DEF ThreadRec, PCs, LayerOrNil
<1>5. /\ th' \in [Threads -> ThreadRec] /\ th'[t].hold = Nil
      /\ \A u \in Threads \ {t} : th'[u] = th[u]
      /\ th'[t].pc \in {"delete", "idle"}
  <2>1. CASE Finish(t)
    <3>1. th' = [th EXCEPT ![t] = IdleThread] BY <2>1 DEF Finish
    <3> QED BY <3>1, IdleTyped, Moved DEF IdleThread
  <2>2. CASE th' = [th EXCEPT ![t] = gone]
    <3>1. gone.hold = Nil /\ gone.pc = "delete" BY <1>0 DEF ThreadRec
    <3> QED BY <2>2, <3>1, <1>4, Moved
  <2> QED BY <1>3, <2>1, <2>2
<1>6. TypeOK'
  <2>1. count' \in [Chains -> Nat] BY <1>0, <1>1, <1>2 DEF TypeOK
  <2>2. layerL' \in Threads \cup {Nil} /\ mountL' \in Threads \cup {Nil}
    BY <1>3 DEF Finish, TypeOK
  <2> QED BY <1>2, <1>5, <2>1, <2>2 DEF TypeOK, diskVars
<1>7. ASSUME NEW u \in Threads PROVE ThreadOK(u)'
  <2> USE DEF ThreadsOK, ThreadOK, Releasing, Registering, Mounting, Unmounting
  <2>1. CASE u # t
    <3>1. ThreadOK(u) /\ th'[u] = th[u] BY <1>5, <2>1
    <3>2. layerL # u /\ layerL' # u /\ (mountL' = mountL \/ mountL = t)
      BY <1>0, <1>3, <2>1 DEF Finish
    <3> QED BY <1>0, <1>2, <2>1, <3>1, <3>2
  <2>2. CASE u = t /\ Finish(t)
    BY <1>0, <1>5, <2>2 DEF Finish, IdleThread, TypeOK
  <2>3. CASE u = t /\ ~Finish(t)
    <3>1. th' = [th EXCEPT ![t] = gone] /\ count[c] = 1 /\ UNCHANGED <<layerL, mountL>>
      BY <1>3, <2>3
    <3>2. th'[t] = gone BY <3>1, <1>4, Moved
    <3>3. th'[t].pc = "delete" /\ th'[t].chain = c /\ th'[t].hold = Nil
      BY <3>2, <1>0 DEF ThreadRec
    <3>4. count'[c] = 0 BY <1>0, <1>2, <3>1 DEF TypeOK
    <3> QED BY <1>0, <1>2, <2>3, <3>1, <3>3, <3>4
  <2> QED BY <2>1, <2>2, <2>3
<1>8. ReservedRefs'
  <2>1. th'[t].pc \notin Registering \cup Mounting
    BY <1>5 DEF Registering, Mounting
  <2> QED BY <1>2, <1>5, <2>1 DEF ReservedRefs
<1>9. RetainedPresent' BY <1>2, <1>5 DEF RetainedPresent
<1>10. RefCounts'
  <2> SUFFICES ASSUME NEW x \in layers
      PROVE count'[x] = Cardinality(refs[x]) + Cardinality(Children(x))
                          + Cardinality(MountsOn(x)) + Cardinality(Holders(x)')
    BY <1>2 DEF RefCounts, Children, MountsOn
  <2>0. x \in Chains BY DEF TypeOK
  <2>1. Cardinality(Holders(x)') =
          Cardinality(Holders(x)) - Bit(c = x) + Bit(Nil = x)
    BY <2>0, <1>5, HoldersStep
  <2>2. Bit(Nil = x) = 0 BY <2>0 DEF Bit
  <2>3. count'[x] = count[x] - Bit(c = x) BY <1>0, <1>2, <2>0 DEF TypeOK, Bit
  <2>4. Bit(c = x) \in Nat BY DEF Bit
  <2> QED BY <2>0, <2>1, <2>2, <2>3, <2>4, Finite DEF RefCounts
<1> QED BY <1>6, <1>7, <1>8, <1>9, <1>10 DEF ThreadsOK

\* A thread that finishes is idle and gives back the locks it holds.
LEMMA Finished ==
    ASSUME TypeOK, NEW t \in Threads, Finish(t)
    PROVE  /\ th' \in [Threads -> ThreadRec] /\ th'[t] = IdleThread
           /\ \A u \in Threads \ {t} : th'[u] = th[u]
           /\ layerL' \in Threads \cup {Nil} /\ mountL' \in Threads \cup {Nil}
           /\ layerL' # t /\ mountL' # t
           /\ \A u \in Threads \ {t} : /\ layerL' = u <=> layerL = u
                                       /\ mountL' = u <=> mountL = u
<1>1. th' = [th EXCEPT ![t] = IdleThread] BY DEF Finish
<1>2. /\ th' \in [Threads -> ThreadRec] /\ th'[t] = IdleThread
      /\ \A u \in Threads \ {t} : th'[u] = th[u]
  BY <1>1, IdleTyped, Moved
<1> QED BY <1>2, StoreAssumption DEF Finish, TypeOK

\* deleteLayer: a layer with a count of zero goes, and the thread takes over
\* the reference the layer had on its parent.
LEMMA DeleteMetaStep ==
    ASSUME IInv, NEW t \in Threads, DeleteMeta(t)
    PROVE  IInv'
<1> DEFINE c == th[t].chain
           next == [th[t] EXCEPT !.pc = "release", !.chain = Nil, !.hold = Parent[c]]
<1> USE StoreAssumption DEF IInv
<1>0. /\ c \in Chains /\ c \in layers /\ layerL = t /\ th[t].pc = "deleteMeta"
      /\ th[t] \in ThreadRec /\ th[t].hold = Nil /\ count[c] = 0
  BY DEF DeleteMeta, At, TypeOK, ThreadsOK, ThreadOK, Releasing
<1>1. refs[c] = {} /\ Children(c) = {} /\ MountsOn(c) = {} /\ Holders(c) = {}
  BY <1>0, ZeroIsFree
<1>2. /\ meta' = [meta EXCEPT ![c] = "none"] /\ layers' = layers \ {c}
      /\ UNCHANGED <<count, refs, mounts, mparent, mrefs, mmeta, data, mdata, faults, crashes>>
  BY DEF DeleteMeta
<1>5. /\ TypeOK' /\ ThreadsOK' /\ th'[t].hold = Parent[c] /\ th'[t].pc \in {"idle", "release"}
      /\ \A u \in Threads \ {t} : th'[u] = th[u]
  <2>3. CASE Parent[c] = Nil /\ Finish(t)
    <3> USE <2>3
    <3>1. /\ th' \in [Threads -> ThreadRec] /\ th'[t] = IdleThread
          /\ th'[t].hold = Parent[c] /\ th'[t].pc = "idle"
          /\ \A u \in Threads \ {t} : th'[u] = th[u]
      BY Finished DEF IdleThread
    <3>2. TypeOK' BY <1>0, <1>2, <3>1, Finished DEF TypeOK
    <3>3. ASSUME NEW u \in Threads PROVE ThreadOK(u)'
      <4> USE DEF ThreadsOK, ThreadOK, Releasing, Registering, Mounting, Unmounting
      <4>1. CASE u = t BY <4>1, <3>1, Finished DEF IdleThread
      <4>2. CASE u # t
        <5>1. ThreadOK(u) /\ th'[u] = th[u] /\ layerL # u BY <1>0, <3>1, <4>2
        <5>2. (layerL' = u <=> layerL = u) /\ (mountL' = u <=> mountL = u)
          BY <4>2, Finished
        <5> QED BY <1>2, <5>1, <5>2
      <4> QED BY <4>1, <4>2
    <3> QED BY <3>1, <3>2, <3>3 DEF ThreadsOK
  <2>4. CASE /\ Parent[c] # Nil /\ th' = [th EXCEPT ![t] = next]
             /\ UNCHANGED <<layerL, mountL>>
    <3> USE <2>4
    <3>0. next \in ThreadRec /\ next.pc = "release" /\ next.hold = Parent[c]
      BY <1>0 DEF ThreadRec, PCs, LayerOrNil
    <3>1. /\ th' \in [Threads -> ThreadRec]
          /\ th'[t].hold = Parent[c] /\ th'[t].pc = "release"
          /\ \A u \in Threads \ {t} : th'[u] = th[u]
      BY <3>0, Moved
    <3>2. TypeOK' BY <1>0, <1>2, <3>1 DEF TypeOK
    <3>3. ASSUME NEW u \in Threads PROVE ThreadOK(u)'
      <4> USE DEF ThreadsOK, ThreadOK, Releasing, Registering, Mounting, Unmounting
      <4>1. CASE u = t BY <4>1, <3>1, <1>0
      <4>2. CASE u # t
        <5>1. th'[u] = th[u] /\ UNCHANGED <<layerL, mountL>> BY <3>1, <4>2
        <5> HIDE <2>4
        <5>2. ThreadOK(u) /\ layerL # u BY <1>0, <4>2
        <5> QED BY <1>2, <5>1, <5>2
      <4> QED BY <4>1, <4>2
    <3> QED BY <3>1, <3>2, <3>3 DEF ThreadsOK
  <2>5. \/ Parent[c] = Nil /\ Finish(t)
        \/ /\ Parent[c] # Nil /\ th' = [th EXCEPT ![t] = next]
           /\ UNCHANGED <<layerL, mountL>>
    BY DEF DeleteMeta, TypeOK
  <2> QED BY <2>3, <2>4, <2>5
<1>6. ReservedRefs'
  <2>1. th'[t].pc \notin Registering \cup Mounting BY <1>5 DEF Registering, Mounting
  <2> QED BY <1>2, <1>5, <2>1 DEF ReservedRefs
<1>7. RetainedPresent'
  <2>1. \A x \in Chains : refs'[x] # {} => x \in layers'
    BY <1>1, <1>2 DEF RetainedPresent
  <2>2. \A d \in layers' : Parent[d] \in layers' \cup {Nil}
    BY <1>1, <1>2 DEF RetainedPresent, Children
  <2>3. \A m \in mounts' : mparent'[m] \in layers' \cup {Nil}
    BY <1>1, <1>2 DEF RetainedPresent, MountsOn
  <2>4. ASSUME NEW u \in Threads PROVE th'[u].hold \in layers' \cup {Nil}
    <3>1. CASE u = t BY <1>0, <1>2, <1>5, <3>1 DEF RetainedPresent
    <3>2. CASE u # t
      <4>1. th'[u] = th[u] /\ th[u].hold # c BY <1>1, <1>5, <3>2 DEF Holders
      <4> QED BY <1>2, <4>1 DEF RetainedPresent
    <3> QED BY <3>1, <3>2
  <2> QED BY <2>1, <2>2, <2>3, <2>4 DEF RetainedPresent
<1>8. RefCounts'
  <2> SUFFICES ASSUME NEW x \in layers'
      PROVE count[x] = Cardinality(refs[x]) + Cardinality(Children(x)')
                          + Cardinality(MountsOn(x)) + Cardinality(Holders(x)')
    BY <1>2 DEF RefCounts, MountsOn
  <2>0. x \in Chains /\ x \in layers BY <1>2 DEF TypeOK
  <2>1. Cardinality(Holders(x)') =
          Cardinality(Holders(x)) - Bit(Nil = x) + Bit(Parent[c] = x)
    BY <2>0, <1>0, <1>5, HoldersStep
  <2>2. Cardinality(Children(x)') =
          Cardinality(Children(x)) - Bit(c \in layers /\ Parent[c] = x)
            + Bit(c \in layers' /\ Parent[c] = x)
    <3>1. layers' \subseteq Chains /\ \A e \in Chains \ {c} : e \in layers' <=> e \in layers
      BY <1>2 DEF TypeOK
    <3> QED BY <1>0, <2>0, <3>1, ChildrenStep
  <2>3. Bit(Nil = x) = 0 /\ Bit(c \in layers' /\ Parent[c] = x) = 0
        /\ Bit(c \in layers /\ Parent[c] = x) = Bit(Parent[c] = x)
    BY <1>0, <1>2, <2>0 DEF Bit
  <2>4. Bit(Parent[c] = x) \in Nat BY DEF Bit
  <2> QED BY <2>0, <2>1, <2>2, <2>3, <2>4, Finite DEF RefCounts
<1> QED BY <1>5, <1>6, <1>7, <1>8

\* A step in which only references and what t holds come and go.
LEMMA CountsFollow ==
    ASSUME IInv, TypeOK', NEW t \in Threads, UNCHANGED <<layers, mounts, mparent>>,
           \A u \in Threads \ {t} : th'[u].hold = th[u].hold,
           \A x \in layers :
              count'[x] = count[x] - Bit(th[t].hold = x) + Bit(th'[t].hold = x)
                            - Cardinality(refs[x]) + Cardinality(refs'[x])
    PROVE  RefCounts'
<1> USE DEF IInv
<1> SUFFICES ASSUME NEW x \in layers
    PROVE count'[x] = Cardinality(refs'[x]) + Cardinality(Children(x))
                        + Cardinality(MountsOn(x)) + Cardinality(Holders(x)')
  BY DEF RefCounts, Children, MountsOn
<1>0. x \in Chains BY DEF TypeOK
<1>1. Cardinality(Holders(x)') =
        Cardinality(Holders(x)) - Bit(th[t].hold = x) + Bit(th'[t].hold = x)
  BY <1>0, HoldersStep
<1>2. Bit(th[t].hold = x) \in Nat /\ Bit(th'[t].hold = x) \in Nat BY DEF Bit
<1>3. Cardinality(refs'[x]) \in Nat
  <2>1. refs'[x] \subseteq Refs BY <1>0 DEF TypeOK
  <2> QED BY <2>1, StoreAssumption, FS_Subset, FS_CardinalityType
<1>4. count[x] = Cardinality(refs[x]) + Cardinality(Children(x))
                   + Cardinality(MountsOn(x)) + Cardinality(Holders(x))
  BY DEF RefCounts
<1>5. count'[x] = count[x] - Bit(th[t].hold = x) + Bit(th'[t].hold = x)
                    - Cardinality(refs[x]) + Cardinality(refs'[x])
  OBVIOUS
<1>6. /\ Cardinality(refs[x]) \in Nat /\ Cardinality(Children(x)) \in Nat
      /\ Cardinality(MountsOn(x)) \in Nat /\ Cardinality(Holders(x)) \in Nat
  BY <1>0, Finite
<1> QED BY <1>1, <1>2, <1>3, <1>4, <1>5, <1>6

\* Get: a new reference, counted once.
LEMMA GetStep ==
    ASSUME IInv, NEW c \in Chains, NEW r \in Refs, Get(c, r)
    PROVE  IInv'
<1> USE StoreAssumption DEF IInv
<1>0. /\ layerL = Nil /\ c \in layers /\ r \notin refs[c]
      /\ \A t \in Threads : r # th[t].ref
      /\ count' = [count EXCEPT ![c] = @ + 1]
      /\ refs' = [refs EXCEPT ![c] = @ \cup {r}]
      /\ UNCHANGED <<layers, mounts, mparent, mrefs, layerL, mountL, th, diskVars, faults, crashes>>
  BY DEF Get, FreshRef, Retain
<1>1. TypeOK' BY <1>0 DEF TypeOK, diskVars
<1>2. ThreadsOK' BY <1>0 DEF ThreadsOK, ThreadOK, Releasing
<1>3. ReservedRefs' BY <1>0 DEF ReservedRefs, TypeOK
<1>4. RetainedPresent' BY <1>0 DEF RetainedPresent, TypeOK
<1>5. RefCounts'
  <2>1. ASSUME NEW x \in layers
        PROVE count'[x] - Cardinality(refs'[x]) = count[x] - Cardinality(refs[x])
    <3>1. x \in Chains /\ Cardinality(refs[x]) \in Nat /\ IsFiniteSet(refs[x])
          /\ count[x] \in Nat
      BY Finite DEF TypeOK
    <3>2. CASE x = c
      <4>1. Cardinality(refs[c] \cup {r}) = Cardinality(refs[c]) + 1
        BY <1>0, <3>1, <3>2, CardAdd
      <4>2. refs'[x] = refs[c] \cup {r} /\ count'[x] = count[x] + 1
        BY <1>0, <3>2 DEF TypeOK
      <4> QED BY <3>1, <3>2, <4>1, <4>2
    <3>3. CASE x # c
      <4>1. refs'[x] = refs[x] /\ count'[x] = count[x] BY <1>0, <3>1, <3>3 DEF TypeOK
      <4> QED BY <4>1
    <3> QED BY <3>2, <3>3
  <2>2. \A x \in layers : Holders(x)' = Holders(x) /\ Children(x)' = Children(x)
                            /\ MountsOn(x)' = MountsOn(x)
    BY <1>0 DEF Holders, Children, MountsOn
  <2> SUFFICES ASSUME NEW x \in layers
      PROVE count'[x] = Cardinality(refs'[x]) + Cardinality(Children(x))
                          + Cardinality(MountsOn(x)) + Cardinality(Holders(x))
    BY <1>0, <2>2 DEF RefCounts
  <2>3. x \in Chains /\ count'[x] \in Nat /\ count[x] \in Nat BY <1>1 DEF TypeOK
  <2>4. Cardinality(refs'[x]) \in Nat
    <3>1. refs'[x] \subseteq Refs BY <1>1, <2>3 DEF TypeOK
    <3> QED BY <3>1, FS_Subset, FS_CardinalityType
  <2>5. count[x] = Cardinality(refs[x]) + Cardinality(Children(x))
                     + Cardinality(MountsOn(x)) + Cardinality(Holders(x))
    BY DEF RefCounts
  <2>6. /\ Cardinality(refs[x]) \in Nat /\ Cardinality(Children(x)) \in Nat
        /\ Cardinality(MountsOn(x)) \in Nat /\ Cardinality(Holders(x)) \in Nat
    BY <2>3, Finite
  <2>7. count'[x] - Cardinality(refs'[x]) = count[x] - Cardinality(refs[x]) BY <2>1
  <2> QED BY <2>3, <2>4, <2>5, <2>6, <2>7
<1> QED BY <1>1, <1>2, <1>3, <1>4, <1>5

\* Release: the reference becomes the thread's own, to be released.
LEMMA ReleaseStep ==
    ASSUME IInv, NEW t \in Threads, NEW c \in Chains, NEW r \in Refs, Release(t, c, r)
    PROVE  IInv'
<1> DEFINE rec == [th[t] EXCEPT !.pc = "release", !.hold = c]
<1> USE StoreAssumption DEF IInv
<1>0. /\ th[t].pc = "idle" /\ layerL = Nil /\ c \in layers /\ r \in refs[c]
      /\ refs' = [refs EXCEPT ![c] = @ \ {r}] /\ layerL' = t
      /\ UNCHANGED <<layers, count, mounts, mparent, mrefs, mountL, diskVars, faults, crashes>>
  BY DEF Release, At, HasReference
<1>a. th[t].hold = Nil /\ th[t] \in ThreadRec BY <1>0 DEF TypeOK, ThreadsOK, ThreadOK
<1>b. th' = [th EXCEPT ![t] = rec] BY DEF Release, TypeOK
<1>1. rec \in ThreadRec /\ rec.pc = "release" /\ rec.hold = c
  BY <1>a DEF ThreadRec, PCs, LayerOrNil
<1>2. /\ th' \in [Threads -> ThreadRec] /\ th'[t].pc = "release" /\ th'[t].hold = c
      /\ \A u \in Threads \ {t} : th'[u] = th[u]
  BY <1>1, <1>b, Moved
<1>3. TypeOK' BY <1>0, <1>2 DEF TypeOK, diskVars
<1>4. ASSUME NEW u \in Threads PROVE ThreadOK(u)'
  <2> USE DEF ThreadsOK, ThreadOK, Releasing, Registering, Mounting, Unmounting
  <2>1. CASE u = t BY <1>0, <1>2, <2>1
  <2>2. CASE u # t
    <3>1. ThreadOK(u) /\ th'[u] = th[u] BY <1>2, <2>2
    <3> QED BY <1>0, <2>2, <3>1
  <2> QED BY <2>1, <2>2
<1>5. ReservedRefs'
  <2>1. th'[t].pc \notin Registering \cup Mounting BY <1>2 DEF Registering, Mounting
  <2>2. \A x \in Chains : refs'[x] \subseteq refs[x] BY <1>0 DEF TypeOK
  <2> QED BY <1>2, <2>1, <2>2 DEF ReservedRefs
<1>6. RetainedPresent'
  <2>1. \A x \in Chains : refs'[x] \subseteq refs[x] BY <1>0 DEF TypeOK
  <2>2. \A u \in Threads : th'[u].hold \in layers \cup {Nil}
    BY <1>0, <1>2 DEF RetainedPresent
  <2> QED BY <1>0, <2>1, <2>2 DEF RetainedPresent
<1>7. ASSUME NEW x \in layers
      PROVE  count'[x] = count[x] - Bit(th[t].hold = x) + Bit(th'[t].hold = x)
                            - Cardinality(refs[x]) + Cardinality(refs'[x])
  <2>1. x \in Chains /\ Cardinality(refs[x]) \in Nat /\ IsFiniteSet(refs[x])
        /\ count[x] \in Nat /\ count'[x] = count[x]
    BY <1>0, Finite DEF TypeOK
  <2>2. Bit(th[t].hold = x) = 0 BY <1>a, <2>1 DEF Bit
  <2>3. CASE x = c
    <3>1. Cardinality(refs[x] \ {r}) = Cardinality(refs[x]) - 1
      BY <1>0, <2>1, <2>3, CardRemove
    <3>2. refs'[x] = refs[x] \ {r} /\ Bit(th'[t].hold = x) = 1
      BY <1>0, <1>2, <2>3 DEF TypeOK, Bit
    <3> QED BY <2>1, <2>2, <3>1, <3>2
  <2>4. CASE x # c
    <3>1. refs'[x] = refs[x] /\ Bit(th'[t].hold = x) = 0
      BY <1>0, <1>2, <2>1, <2>4 DEF TypeOK, Bit
    <3> QED BY <2>1, <2>2, <3>1
  <2> QED BY <2>3, <2>4
<1>8. RefCounts'
  <2>1. \A u \in Threads \ {t} : th'[u].hold = th[u].hold BY <1>2
  <2>2. UNCHANGED <<layers, mounts, mparent>> BY <1>0
  <2> HIDE StoreAssumption DEF IInv
  <2> QED BY <1>3, <1>7, <2>1, <2>2, CountsFollow
<1> QED BY <1>3, <1>4, <1>5, <1>6, <1>8 DEF ThreadsOK

\* An operation that starts by retaining the layer p, if any.
LEMMA RetainCounts ==
    ASSUME IInv, TypeOK', NEW t \in Threads, NEW p \in layers \cup {Nil},
           th[t].hold = Nil, th'[t].hold = p,
           \A u \in Threads \ {t} : th'[u].hold = th[u].hold,
           UNCHANGED <<layers, refs, mounts, mparent>>,
           IF p = Nil THEN UNCHANGED count ELSE Retain(p)
    PROVE  RetainedPresent' /\ RefCounts'
<1> USE StoreAssumption DEF IInv
<1>1. RetainedPresent' BY DEF RetainedPresent
<1>2. ASSUME NEW x \in layers
      PROVE  count'[x] = count[x] - Bit(th[t].hold = x) + Bit(th'[t].hold = x)
                            - Cardinality(refs[x]) + Cardinality(refs'[x])
  <2>1. x \in Chains /\ Cardinality(refs[x]) \in Nat /\ count[x] \in Nat /\ refs'[x] = refs[x]
    BY Finite DEF TypeOK
  <2>2. Bit(th[t].hold = x) = 0 BY <2>1 DEF Bit
  <2>3. count'[x] = count[x] + Bit(th'[t].hold = x)
    <3>1. CASE p = Nil BY <2>1, <3>1 DEF Bit
    <3>2. CASE p # Nil BY <2>1, <3>2 DEF Bit, Retain, TypeOK
    <3> QED BY <3>1, <3>2
  <2>4. Bit(th'[t].hold = x) \in Nat BY DEF Bit
  <2> QED BY <2>1, <2>2, <2>3, <2>4
<1>3. RefCounts' BY <1>2, CountsFollow
<1> QED BY <1>1, <1>3

LEMMA RegisterBeginStep ==
    ASSUME IInv, NEW t \in Threads, NEW c \in Chains, NEW r \in Refs, RegisterBegin(t, c, r)
    PROVE  IInv'
<1> DEFINE p == Parent[c]
           rec(l) == [th[t] EXCEPT !.pc = l, !.chain = c, !.hold = p, !.ref = r]
<1> USE StoreAssumption DEF IInv
<1>0. /\ th[t].pc = "idle" /\ FreshRef(r)
      /\ UNCHANGED <<layers, refs, mounts, mparent, mrefs, layerL, mountL, diskVars, faults, crashes>>
  BY DEF RegisterBegin, At
<1>1. p \in layers \cup {Nil} /\ IF p = Nil THEN UNCHANGED count ELSE Retain(p)
  BY DEF RegisterBegin, TypeOK
<1>2. th[t].hold = Nil /\ th[t] \in ThreadRec /\ th[t].pc \notin Releasing
      /\ p \in LayerOrNil
  BY <1>0 DEF TypeOK, ThreadsOK, ThreadOK, Releasing, LayerOrNil
<1>3. PICK l \in {"create", "unwind"} :
        th' = [th EXCEPT ![t] = rec(l)] /\ (l = "unwind" => p # Nil)
  <2>1. \E l \in {"create", "unwind"} :
          /\ th' = [th EXCEPT ![t].pc = l, ![t].chain = c, ![t].hold = p, ![t].ref = r]
          /\ l = "unwind" => p # Nil
    <3>0. Nil \notin layers BY DEF TypeOK
    <3>1. CASE p = Nil BY <3>0, <3>1 DEF RegisterBegin
    <3>2. CASE p # Nil /\ TooDeep(p) BY <3>2 DEF RegisterBegin
    <3>3. CASE p # Nil /\ ~TooDeep(p) BY <3>3 DEF RegisterBegin
    <3> QED BY <3>1, <3>2, <3>3
  <2>2. t \in DOMAIN th BY DEF TypeOK
  <2> HIDE StoreAssumption DEF IInv
  <2> QED BY <2>1, <2>2
<1>4. /\ rec(l) \in ThreadRec /\ rec(l).pc = l /\ rec(l).hold = p
      /\ rec(l).chain = c /\ rec(l).ref = r
  BY <1>2 DEF ThreadRec, PCs, LayerOrNil
<1>5. /\ th' \in [Threads -> ThreadRec] /\ th'[t].pc = l /\ th'[t].hold = p
      /\ th'[t].chain = c /\ th'[t].ref = r
      /\ \A u \in Threads \ {t} : th'[u] = th[u]
  BY <1>3, <1>4, Moved
<1> HIDE DEF rec
<1>6. TypeOK'
  <2>1. count' \in [Chains -> Nat] BY <1>1 DEF TypeOK, Retain
  <2> QED BY <1>0, <1>5, <2>1 DEF TypeOK, diskVars
<1>7. ASSUME NEW u \in Threads PROVE ThreadOK(u)'
  <2> USE DEF ThreadsOK, ThreadOK, Releasing, Registering, Mounting, Unmounting
  <2>1. CASE u = t
    <3>1. layerL # t BY <1>2
    <3>2. l = "unwind" => p \in Chains BY <1>2, <1>3 DEF LayerOrNil
    <3> QED BY <1>0, <1>3, <1>5, <2>1, <3>1, <3>2
  <2>2. CASE u # t
    <3>1. ThreadOK(u) /\ th'[u] = th[u] BY <1>5, <2>2
    <3>2. CASE p = Nil BY <1>0, <1>1, <3>1, <3>2
    <3>3. CASE p # Nil
      <4>1. layerL = Nil BY <3>3 DEF RegisterBegin
      <4>2. layerL # u BY <4>1
      <4> QED BY <1>0, <3>1, <4>2
    <3> QED BY <3>2, <3>3
  <2> QED BY <2>1, <2>2
<1>8. ReservedRefs'
  <2>1. /\ \A x \in Chains : r \notin refs'[x]
        /\ \A u \in Threads : th[u].ref # r
    BY <1>0 DEF FreshRef
  <2> QED BY <1>0, <1>5, <2>1 DEF ReservedRefs, Registering, Mounting
<1>9. RetainedPresent' /\ RefCounts' BY <1>0, <1>1, <1>2, <1>5, <1>6, RetainCounts
<1> QED BY <1>6, <1>7, <1>8, <1>9 DEF ThreadsOK

LEMMA CreateRWLayerStep ==
    ASSUME IInv, NEW t \in Threads, NEW m \in Names, NEW p \in LayerOrNil, NEW r \in Refs,
           CreateRWLayer(t, m, p, r)
    PROVE  IInv'
<1> DEFINE rec == [th[t] EXCEPT !.pc = "mount", !.name = m, !.hold = p, !.ref = r]
<1> USE StoreAssumption DEF IInv
<1>0. /\ th[t].pc = "idle" /\ FreshRef(r) /\ mountL = Nil /\ m \notin mounts /\ mountL' = t
      /\ UNCHANGED <<layers, refs, mounts, mparent, mrefs, layerL, diskVars, faults, crashes>>
  BY DEF CreateRWLayer, At
<1>1. p \in layers \cup {Nil} /\ IF p = Nil THEN UNCHANGED count ELSE Retain(p)
  BY DEF CreateRWLayer, TypeOK
<1>2. th[t].hold = Nil /\ th[t] \in ThreadRec /\ th[t].pc \notin Releasing
  BY <1>0 DEF TypeOK, ThreadsOK, ThreadOK, Releasing
<1>3. th' = [th EXCEPT ![t] = rec] BY DEF CreateRWLayer, TypeOK
<1>4. rec \in ThreadRec /\ rec.pc = "mount" /\ rec.hold = p /\ rec.name = m /\ rec.ref = r
  BY <1>2 DEF ThreadRec, PCs, LayerOrNil
<1>5. /\ th' \in [Threads -> ThreadRec] /\ th'[t].pc = "mount" /\ th'[t].hold = p
      /\ th'[t].name = m /\ th'[t].ref = r
      /\ \A u \in Threads \ {t} : th'[u] = th[u]
  BY <1>3, <1>4, Moved
<1> HIDE DEF rec
<1>6. TypeOK'
  <2>1. count' \in [Chains -> Nat] BY <1>1 DEF TypeOK, Retain
  <2> QED BY <1>0, <1>5, <2>1 DEF TypeOK, diskVars
<1>7. ASSUME NEW u \in Threads PROVE ThreadOK(u)'
  <2> USE DEF ThreadsOK, ThreadOK, Releasing, Registering, Mounting, Unmounting
  <2>1. CASE u = t
    <3>1. layerL # t BY <1>2
    <3> QED BY <1>0, <1>5, <2>1, <3>1
  <2>2. CASE u # t
    <3>1. ThreadOK(u) /\ th'[u] = th[u] /\ mountL # u BY <1>0, <1>5, <2>2
    <3>2. CASE p = Nil BY <1>0, <1>1, <3>1, <3>2
    <3>3. CASE p # Nil
      <4>1. layerL = Nil BY <3>3 DEF CreateRWLayer
      <4>2. layerL # u BY <4>1
      <4> QED BY <1>0, <3>1, <4>2
    <3> QED BY <3>2, <3>3
  <2> QED BY <2>1, <2>2
<1>8. ReservedRefs'
  <2>1. /\ \A x \in Chains : r \notin refs'[x]
        /\ \A u \in Threads : th[u].ref # r
    BY <1>0 DEF FreshRef
  <2> QED BY <1>0, <1>5, <2>1 DEF ReservedRefs, Registering, Mounting
<1>9. RetainedPresent' /\ RefCounts' BY <1>0, <1>1, <1>2, <1>5, <1>6, RetainCounts
<1> QED BY <1>6, <1>7, <1>8, <1>9 DEF ThreadsOK

\* What Unwind leaves of a thread that holds no lock: idle, or about to release
\* what it still holds.
LEMMA Unwound ==
    ASSUME IInv, NEW t \in Threads, Unwind(t), th[t].pc \in Registering
    PROVE  /\ th' \in [Threads -> ThreadRec]
           /\ th'[t].hold = th[t].hold
           /\ th'[t].pc \in {"idle", "unwind"}
           /\ th'[t].pc = "idle" <=> th[t].hold = Nil
           /\ \A u \in Threads \ {t} : th'[u] = th[u]
           /\ layerL' \in Threads \cup {Nil} /\ mountL' \in Threads \cup {Nil}
           /\ layerL' # t
           /\ \A u \in Threads \ {t} : /\ layerL' = u <=> layerL = u
                                       /\ mountL' = u <=> mountL = u
<1> DEFINE rec == [th[t] EXCEPT !.pc = "unwind", !.ref = Nil]
<1> USE StoreAssumption DEF IInv
<1>1. CASE th[t].hold = Nil
  <2>1. Finish(t) BY <1>1 DEF Unwind
  <2> QED BY <1>1, <2>1, Finished DEF IdleThread
<1>2. CASE th[t].hold # Nil
  <2>1. th' = [th EXCEPT ![t] = rec] /\ UNCHANGED <<layerL, mountL>>
    BY <1>2 DEF Unwind, TypeOK
  <2>2. th[t] \in ThreadRec BY DEF TypeOK
  <2>3. rec \in ThreadRec /\ rec.pc = "unwind" /\ rec.hold = th[t].hold
    BY <2>2 DEF ThreadRec, PCs
  <2>4. /\ th' \in [Threads -> ThreadRec] /\ th'[t].pc = "unwind" /\ th'[t].hold = th[t].hold
        /\ \A u \in Threads \ {t} : th'[u] = th[u]
    BY <2>1, <2>3, Moved
  <2>5. layerL # t BY DEF ThreadsOK, ThreadOK, Releasing, Registering
  <2>6. layerL \in Threads \cup {Nil} /\ mountL \in Threads \cup {Nil} BY DEF TypeOK
  <2> QED BY <1>2, <2>1, <2>4, <2>5, <2>6
<1> QED BY <1>1, <1>2

\* registerWithDescriptor when the layer is there already: a new reference to
\* it, and the parent is still to be released.
LEMMA RegisterExistsStep ==
    ASSUME IInv, NEW t \in Threads, RegisterExists(t)
    PROVE  IInv'
<1> DEFINE c == th[t].chain
           r == th[t].ref
<1> USE StoreAssumption DEF IInv
<1>0. /\ th[t].pc = "insert" /\ layerL = Nil /\ c \in layers /\ Unwind(t)
      /\ count' = [count EXCEPT ![c] = @ + 1]
      /\ refs' = [refs EXCEPT ![c] = @ \cup {r}]
      /\ UNCHANGED <<layers, mounts, mparent, mrefs, diskVars, faults, crashes>>
  BY DEF RegisterExists, At, Retain
<1>1. c \in Chains /\ r \in Refs /\ r \notin refs[c]
      /\ \A u \in Threads \ {t} : th[u].pc \in Registering \cup Mounting => th[u].ref # r
  BY <1>0 DEF TypeOK, ReservedRefs, Registering
<1>2. th[t].pc \in Registering BY <1>0 DEF Registering
<1>3. TypeOK'
  <2>1. count' \in [Chains -> Nat] /\ refs' \in [Chains -> SUBSET Refs]
    BY <1>0, <1>1 DEF TypeOK
  <2> QED BY <1>0, <1>2, <2>1, Unwound DEF TypeOK, diskVars
<1>4. ASSUME NEW u \in Threads PROVE ThreadOK(u)'
  <2> USE DEF ThreadsOK, ThreadOK, Releasing, Registering, Mounting, Unmounting
  <2>1. CASE u = t
    <3>1. th[t].hold \in LayerOrNil BY DEF TypeOK, ThreadRec
    <3>2. /\ th'[t].hold = th[t].hold /\ th'[t].pc \in {"idle", "unwind"} /\ layerL' # t
          /\ th'[t].pc = "idle" <=> th[t].hold = Nil
      BY <1>0, <1>2, Unwound
    <3> QED BY <2>1, <3>1, <3>2 DEF LayerOrNil
  <2>2. CASE u # t
    <3>1. /\ ThreadOK(u) /\ th'[u] = th[u] /\ layerL # u
          /\ (layerL' = u <=> layerL = u) /\ (mountL' = u <=> mountL = u)
      BY <1>0, <1>2, <2>2, Unwound
    <3> QED BY <1>0, <3>1
  <2> QED BY <2>1, <2>2
<1>5. ReservedRefs'
  <2>1. th'[t].pc \notin Registering \cup Mounting
    <3>1. th'[t].pc \in {"idle", "unwind"} BY <1>0, <1>2, Unwound
    <3> QED BY <3>1 DEF Registering, Mounting
  <2>2. \A u \in Threads \ {t} : th'[u] = th[u] BY <1>0, <1>2, Unwound
  <2>3. \A x \in Chains : refs'[x] \subseteq refs[x] \cup {r} BY <1>0 DEF TypeOK
  <2> QED BY <1>1, <2>1, <2>2, <2>3 DEF ReservedRefs
<1>6. \A u \in Threads : th'[u].hold = th[u].hold BY <1>0, <1>2, Unwound
<1>7. RetainedPresent' BY <1>0, <1>6 DEF RetainedPresent, TypeOK
<1>8. ASSUME NEW x \in layers
      PROVE  count'[x] = count[x] - Bit(th[t].hold = x) + Bit(th'[t].hold = x)
                            - Cardinality(refs[x]) + Cardinality(refs'[x])
  <2>1. x \in Chains /\ Cardinality(refs[x]) \in Nat /\ IsFiniteSet(refs[x])
        /\ count[x] \in Nat
    BY Finite DEF TypeOK
  <2>2. Bit(th[t].hold = x) = Bit(th'[t].hold = x) /\ Bit(th[t].hold = x) \in Nat
    BY <1>6 DEF Bit
  <2>3. CASE x = c
    <3>1. Cardinality(refs[x] \cup {r}) = Cardinality(refs[x]) + 1
      BY <1>1, <2>1, <2>3, CardAdd
    <3>2. refs'[x] = refs[x] \cup {r} /\ count'[x] = count[x] + 1
      BY <1>0, <2>1, <2>3 DEF TypeOK
    <3> QED BY <2>1, <2>2, <3>1, <3>2
  <2>4. CASE x # c
    <3>1. refs'[x] = refs[x] /\ count'[x] = count[x] BY <1>0, <2>1, <2>4 DEF TypeOK
    <3> QED BY <2>1, <2>2, <3>1
  <2> QED BY <2>3, <2>4
<1>9. RefCounts' BY <1>0, <1>3, <1>6, <1>8, CountsFollow
<1> QED BY <1>3, <1>4, <1>5, <1>7, <1>9 DEF ThreadsOK

\* registerWithDescriptor when the layer is new: nothing retained its ID, and
\* the thread's hold on the parent becomes the layer's.
LEMMA RegisterCommitStep ==
    ASSUME IInv, NEW t \in Threads, RegisterCommit(t)
    PROVE  IInv'
<1> DEFINE c == th[t].chain
           r == th[t].ref
<1> USE StoreAssumption DEF IInv
<1>0. /\ th[t].pc = "insert" /\ layerL = Nil /\ c \notin layers
      /\ meta' = [meta EXCEPT ![c] = "full"] /\ data' = data \cup {c}
      /\ layers' = layers \cup {c} /\ count' = [count EXCEPT ![c] = 1]
      /\ refs' = [refs EXCEPT ![c] = {r}]
      /\ th' = [th EXCEPT ![t] = IdleThread]
      /\ UNCHANGED <<mounts, mparent, mrefs, layerL, mountL, mmeta, mdata, faults, crashes>>
  BY DEF RegisterCommit, At
<1>1. /\ c \in Chains /\ r \in Refs /\ th[t].hold = Parent[c]
      /\ \A u \in Threads \ {t} : th[u].pc \in Registering \cup Mounting => th[u].ref # r
  BY <1>0 DEF TypeOK, ThreadsOK, ThreadOK, ReservedRefs, Registering
<1>2. refs[c] = {} /\ Children(c) = {} /\ MountsOn(c) = {} /\ Holders(c) = {}
  BY <1>0, <1>1 DEF RetainedPresent, Children, MountsOn, Holders
<1>3. /\ th' \in [Threads -> ThreadRec] /\ th'[t].pc = "idle" /\ th'[t].hold = Nil
      /\ \A u \in Threads \ {t} : th'[u] = th[u]
  BY <1>0, IdleTyped, Moved DEF IdleThread
<1>4. TypeOK'
  <2>1. /\ layers' \subseteq Chains /\ data' \subseteq Chains
        /\ count' \in [Chains -> Nat] /\ refs' \in [Chains -> SUBSET Refs]
        /\ meta' \in [Chains -> {"none", "full", "partial"}]
    BY <1>0, <1>1 DEF TypeOK
  <2> QED BY <1>0, <1>3, <2>1 DEF TypeOK
<1>5. ASSUME NEW u \in Threads PROVE ThreadOK(u)'
  <2> USE DEF ThreadsOK, ThreadOK, Releasing, Registering, Mounting, Unmounting
  <2>1. CASE u = t BY <1>0, <1>3, <2>1
  <2>2. CASE u # t
    <3>1. ThreadOK(u) /\ th'[u] = th[u] /\ layerL # u BY <1>0, <1>3, <2>2
    <3> QED BY <1>0, <3>1
  <2> QED BY <2>1, <2>2
<1>6. ReservedRefs'
  <2>1. th'[t].pc \notin Registering \cup Mounting BY <1>3 DEF Registering, Mounting
  <2>2. \A x \in Chains : refs'[x] \subseteq refs[x] \cup {r} BY <1>0 DEF TypeOK
  <2> QED BY <1>1, <1>3, <2>1, <2>2 DEF ReservedRefs
<1>7. RetainedPresent'
  <2>1. \A x \in Chains : refs'[x] # {} => x \in layers'
    BY <1>0 DEF RetainedPresent, TypeOK
  <2>2. \A d \in layers' : Parent[d] \in layers' \cup {Nil}
    BY <1>0, <1>1 DEF RetainedPresent
  <2>3. \A m \in mounts' : mparent'[m] \in layers' \cup {Nil}
    BY <1>0 DEF RetainedPresent
  <2>4. \A u \in Threads : th'[u].hold \in layers' \cup {Nil}
    BY <1>0, <1>3 DEF RetainedPresent
  <2> QED BY <2>1, <2>2, <2>3, <2>4 DEF RetainedPresent
<1>8. RefCounts'
  <2> SUFFICES ASSUME NEW x \in layers'
      PROVE count'[x] = Cardinality(refs'[x]) + Cardinality(Children(x)')
                          + Cardinality(MountsOn(x)) + Cardinality(Holders(x)')
    BY <1>0 DEF RefCounts, MountsOn
  <2>0. x \in Chains BY <1>4 DEF TypeOK
  <2>1. Cardinality(Holders(x)') =
          Cardinality(Holders(x)) - Bit(Parent[c] = x) + Bit(Nil = x)
    BY <2>0, <1>1, <1>3, HoldersStep
  <2>2. Cardinality(Children(x)') =
          Cardinality(Children(x)) - Bit(c \in layers /\ Parent[c] = x)
            + Bit(c \in layers' /\ Parent[c] = x)
    <3>1. layers' \subseteq Chains /\ \A e \in Chains \ {c} : e \in layers' <=> e \in layers
      BY <1>0, <1>4 DEF TypeOK
    <3> QED BY <1>1, <2>0, <3>1, ChildrenStep
  <2>3. Bit(Nil = x) = 0 /\ Bit(c \in layers /\ Parent[c] = x) = 0
        /\ Bit(c \in layers' /\ Parent[c] = x) = Bit(Parent[c] = x)
    BY <1>0, <1>1, <2>0 DEF Bit
  <2>4. Bit(Parent[c] = x) \in Nat BY DEF Bit
  <2>5. CASE x = c
    <3>1. Bit(Parent[c] = x) = 0 BY <1>1, <2>5 DEF Bit
    <3>2. Cardinality(Children(x)) = 0 /\ Cardinality(MountsOn(x)) = 0
          /\ Cardinality(Holders(x)) = 0
      BY <1>2, <2>5, FS_EmptySet
    <3>3. refs'[x] = {r} /\ count'[x] = 1 BY <1>0, <1>1, <2>5 DEF TypeOK
    <3>4. Cardinality(refs'[x]) = 1 BY <3>3, FS_Singleton
    <3> QED BY <2>1, <2>2, <2>3, <3>1, <3>2, <3>3, <3>4
  <2>6. CASE x # c
    <3>1. x \in layers /\ refs'[x] = refs[x] /\ count'[x] = count[x]
      BY <1>0, <2>0, <2>6 DEF TypeOK
    <3> QED BY <2>0, <2>1, <2>2, <2>3, <2>4, <3>1, Finite DEF RefCounts
  <2> QED BY <2>5, <2>6
<1> QED BY <1>4, <1>5, <1>6, <1>7, <1>8 DEF ThreadsOK

\* CreateRWLayer succeeds: the thread's hold becomes the writable layer's.
LEMMA SaveMountParentStep ==
    ASSUME IInv, NEW t \in Threads, SaveMountParent(t)
    PROVE  IInv'
<1> DEFINE m == th[t].name
           p == th[t].hold
<1> USE StoreAssumption DEF IInv
<1>0. /\ th[t].pc = "saveParent" /\ Finish(t)
      /\ mmeta' = [mmeta EXCEPT ![m] = p] /\ mounts' = mounts \cup {m}
      /\ mparent' = [mparent EXCEPT ![m] = p] /\ mrefs' = [mrefs EXCEPT ![m] = {th[t].ref}]
      /\ UNCHANGED <<layers, count, refs, meta, data, mdata, faults, crashes>>
  BY DEF SaveMountParent, At
<1>1. m \in Names /\ m \notin mounts /\ mountL = t /\ th[t].ref \in Refs
      /\ p \in LayerOrNil /\ p \in layers \cup {Nil}
  BY <1>0 DEF TypeOK, ThreadRec, ThreadsOK, ThreadOK, ReservedRefs, RetainedPresent, Mounting
<1>2. /\ th' \in [Threads -> ThreadRec] /\ th'[t].pc = "idle" /\ th'[t].hold = Nil
      /\ \A u \in Threads \ {t} : th'[u] = th[u]
      /\ layerL' # t /\ mountL' # t
      /\ \A u \in Threads \ {t} : (layerL' = u <=> layerL = u) /\ (mountL' = u <=> mountL = u)
  BY <1>0, Finished DEF IdleThread
<1>3. TypeOK'
  <2>1. /\ mounts' \subseteq Names /\ mparent' \in [Names -> LayerOrNil]
        /\ mrefs' \in [Names -> SUBSET Refs] /\ mmeta' \in [Names -> LayerOrNil \cup {Absent}]
    BY <1>0, <1>1 DEF TypeOK
  <2> QED BY <1>0, <1>2, <2>1, Finished DEF TypeOK
<1>4. ASSUME NEW u \in Threads PROVE ThreadOK(u)'
  <2> USE DEF ThreadsOK, ThreadOK, Releasing, Registering, Mounting, Unmounting
  <2>1. CASE u = t BY <1>2, <2>1
  <2>2. CASE u # t
    <3>1. /\ ThreadOK(u) /\ th'[u] = th[u] /\ mountL # u
          /\ (layerL' = u <=> layerL = u) /\ (mountL' = u <=> mountL = u)
      BY <1>1, <1>2, <2>2
    <3> QED BY <1>0, <3>1
  <2> QED BY <2>1, <2>2
<1>5. ReservedRefs'
  <2>1. th'[t].pc \notin Registering \cup Mounting BY <1>2 DEF Registering, Mounting
  <2> QED BY <1>0, <1>2, <2>1 DEF ReservedRefs
<1>6. RetainedPresent'
  <2>1. \A n \in mounts' : mparent'[n] \in layers' \cup {Nil}
    BY <1>0, <1>1 DEF RetainedPresent, TypeOK
  <2>2. \A u \in Threads : th'[u].hold \in layers' \cup {Nil}
    BY <1>0, <1>2 DEF RetainedPresent
  <2> QED BY <1>0, <2>1, <2>2 DEF RetainedPresent
<1>7. RefCounts'
  <2> SUFFICES ASSUME NEW x \in layers
      PROVE count[x] = Cardinality(refs[x]) + Cardinality(Children(x))
                          + Cardinality(MountsOn(x)') + Cardinality(Holders(x)')
    BY <1>0 DEF RefCounts, Children
  <2>0. x \in Chains BY DEF TypeOK
  <2>1. Cardinality(Holders(x)') = Cardinality(Holders(x)) - Bit(p = x) + Bit(Nil = x)
    BY <2>0, <1>2, HoldersStep
  <2>2. Cardinality(MountsOn(x)') =
          Cardinality(MountsOn(x)) - Bit(m \in mounts /\ mparent[m] = x)
            + Bit(m \in mounts' /\ mparent'[m] = x)
    <3>1. mounts' \subseteq Names
          /\ \A e \in Names \ {m} : /\ e \in mounts' <=> e \in mounts
                                    /\ mparent'[e] = mparent[e]
      BY <1>0, <1>1 DEF TypeOK
    <3> QED BY <1>1, <2>0, <3>1, MountsStep
  <2>3. Bit(Nil = x) = 0 /\ Bit(m \in mounts /\ mparent[m] = x) = 0
        /\ Bit(m \in mounts' /\ mparent'[m] = x) = Bit(p = x)
    BY <1>0, <1>1, <2>0 DEF Bit, TypeOK
  <2>4. Bit(p = x) \in Nat BY DEF Bit
  <2> QED BY <2>0, <2>1, <2>2, <2>3, <2>4, Finite DEF RefCounts
<1> QED BY <1>3, <1>4, <1>5, <1>6, <1>7 DEF ThreadsOK

\* ReleaseRWLayer succeeds: the writable layer's hold becomes the thread's.
LEMMA RemoveMountMetaStep ==
    ASSUME IInv, NEW t \in Threads, RemoveMountMeta(t)
    PROVE  IInv'
<1> DEFINE m == th[t].name
           p == mparent[m]
           rec == [th[t] EXCEPT !.pc = "unwind", !.hold = p, !.ref = Nil]
<1> USE StoreAssumption DEF IInv
<1>0. /\ th[t].pc = "rmMountMeta"
      /\ mmeta' = [mmeta EXCEPT ![m] = Absent] /\ mounts' = mounts \ {m}
      /\ UNCHANGED <<layers, count, refs, mparent, mrefs, meta, data, mdata, faults, crashes>>
  BY DEF RemoveMountMeta, At
<1>1. m \in Names /\ m \in mounts /\ mountL = t /\ th[t].hold = Nil /\ th[t] \in ThreadRec
      /\ p \in LayerOrNil /\ p \in layers \cup {Nil} /\ layerL # t
  BY <1>0 DEF TypeOK, ThreadsOK, ThreadOK, RetainedPresent, Unmounting, Releasing
<1>2. /\ th' \in [Threads -> ThreadRec] /\ th'[t].hold = p
      /\ th'[t].pc = IF p = Nil THEN "idle" ELSE "unwind"
      /\ \A u \in Threads \ {t} : th'[u] = th[u]
      /\ layerL' \in Threads \cup {Nil} /\ mountL' \in Threads \cup {Nil}
      /\ layerL' # t
      /\ \A u \in Threads \ {t} : (layerL' = u <=> layerL = u) /\ (mountL' = u <=> mountL = u)
  <2>1. CASE p = Nil
    <3>1. Finish(t) BY <2>1 DEF RemoveMountMeta
    <3> QED BY <2>1, <3>1, Finished DEF IdleThread
  <2>2. CASE p # Nil
    <3>1. th' = [th EXCEPT ![t] = rec] /\ UNCHANGED <<layerL, mountL>>
      BY <2>2 DEF RemoveMountMeta, TypeOK
    <3>2. rec \in ThreadRec /\ rec.pc = "unwind" /\ rec.hold = p
      BY <1>1 DEF ThreadRec, PCs, LayerOrNil
    <3>3. /\ th' \in [Threads -> ThreadRec] /\ th'[t].hold = p /\ th'[t].pc = "unwind"
          /\ \A u \in Threads \ {t} : th'[u] = th[u]
      BY <3>1, <3>2, Moved
    <3>4. layerL \in Threads \cup {Nil} /\ mountL \in Threads \cup {Nil} BY DEF TypeOK
    <3> QED BY <1>1, <2>2, <3>1, <3>3, <3>4
  <2> QED BY <2>1, <2>2
<1>3. TypeOK'
  <2>1. mounts' \subseteq Names /\ mmeta' \in [Names -> LayerOrNil \cup {Absent}]
    BY <1>0, <1>1 DEF TypeOK
  <2> QED BY <1>0, <1>2, <2>1 DEF TypeOK
<1>4. ASSUME NEW u \in Threads PROVE ThreadOK(u)'
  <2> USE DEF ThreadsOK, ThreadOK, Releasing, Registering, Mounting, Unmounting
  <2>1. CASE u = t BY <1>1, <1>2, <2>1 DEF LayerOrNil
  <2>2. CASE u # t
    <3>1. /\ ThreadOK(u) /\ th'[u] = th[u] /\ mountL # u
          /\ (layerL' = u <=> layerL = u) /\ (mountL' = u <=> mountL = u)
      BY <1>1, <1>2, <2>2
    <3> QED BY <1>0, <3>1
  <2> QED BY <2>1, <2>2
<1>5. ReservedRefs'
  <2>1. th'[t].pc \notin Registering \cup Mounting BY <1>2 DEF Registering, Mounting
  <2> QED BY <1>0, <1>2, <2>1 DEF ReservedRefs
<1>6. RetainedPresent'
  <2>1. \A u \in Threads : th'[u].hold \in layers' \cup {Nil}
    BY <1>0, <1>1, <1>2 DEF RetainedPresent
  <2> QED BY <1>0, <2>1 DEF RetainedPresent
<1>7. RefCounts'
  <2> SUFFICES ASSUME NEW x \in layers
      PROVE count[x] = Cardinality(refs[x]) + Cardinality(Children(x))
                          + Cardinality(MountsOn(x)') + Cardinality(Holders(x)')
    BY <1>0 DEF RefCounts, Children
  <2>0. x \in Chains BY DEF TypeOK
  <2>1. Cardinality(Holders(x)') = Cardinality(Holders(x)) - Bit(Nil = x) + Bit(p = x)
    BY <2>0, <1>1, <1>2, HoldersStep
  <2>2. Cardinality(MountsOn(x)') =
          Cardinality(MountsOn(x)) - Bit(m \in mounts /\ mparent[m] = x)
            + Bit(m \in mounts' /\ mparent'[m] = x)
    <3>1. mounts' \subseteq Names
          /\ \A e \in Names \ {m} : /\ e \in mounts' <=> e \in mounts
                                    /\ mparent'[e] = mparent[e]
      BY <1>0, <1>1 DEF TypeOK
    <3> QED BY <1>1, <2>0, <3>1, MountsStep
  <2>3. Bit(Nil = x) = 0 /\ Bit(m \in mounts' /\ mparent'[m] = x) = 0
        /\ Bit(m \in mounts /\ mparent[m] = x) = Bit(p = x)
    BY <1>0, <1>1, <2>0 DEF Bit, TypeOK
  <2>4. Bit(p = x) \in Nat BY DEF Bit
  <2> QED BY <2>0, <2>1, <2>2, <2>3, <2>4, Finite DEF RefCounts
<1> QED BY <1>3, <1>4, <1>5, <1>6, <1>7 DEF ThreadsOK

LEMMA GetRWLayerStep ==
    ASSUME IInv, NEW m \in Names, NEW r \in Refs, GetRWLayer(m, r)
    PROVE  IInv'
<1> USE DEF IInv
<1>0. /\ mrefs' = [mrefs EXCEPT ![m] = @ \cup {r}]
      /\ UNCHANGED <<layers, count, refs, mounts, mparent, layerL, mountL, th, diskVars,
                     faults, crashes>>
  BY DEF GetRWLayer
<1>1. TypeOK' BY <1>0 DEF TypeOK, diskVars
<1>2. ThreadsOK' BY <1>0 DEF ThreadsOK, ThreadOK
<1>3. ReservedRefs' BY <1>0 DEF ReservedRefs
<1> QED BY <1>0, <1>1, <1>2, <1>3, QuietCounts

\* NewStoreFromGraphDriver: what is loaded is closed under Parent, and every
\* count is computed from what was loaded.
LEMMA RestartStep ==
    ASSUME IInv, Restart
    PROVE  IInv'
<1> USE StoreAssumption DEF IInv
<1>0. /\ "crash" \in faults /\ crashes < MaxCrashes /\ crashes' = crashes + 1
      /\ layers' = LoadedLayers /\ mounts' = LoadedMounts
      /\ count' = [c \in Chains |-> IF c \in LoadedLayers THEN LoadedCount(c) ELSE 0]
      /\ refs' = [c \in Chains |-> {}] /\ mrefs' = [m \in Names |-> {}]
      /\ mparent' = [m \in Names |-> IF m \in LoadedMounts THEN mmeta[m] ELSE Nil]
      /\ layerL' = Nil /\ mountL' = Nil /\ th' = [t \in Threads |-> IdleThread]
      /\ UNCHANGED <<meta, mmeta, data, mdata, faults>>
  BY DEF Restart, diskVars
<1>1. LoadedLayers \subseteq Chains /\ LoadedMounts \subseteq Names
  BY DEF LoadedLayers, Loadable, LoadedMounts
<1>2. \A d \in LoadedLayers : Parent[d] \in LoadedLayers \cup {Nil}
  BY DEF LoadedLayers, Loadable
<1>3. \A m \in LoadedMounts : mmeta[m] \in LoadedLayers \cup {Nil}
  BY DEF LoadedMounts
<1>4. ASSUME NEW c \in Chains PROVE LoadedCount(c) \in Nat
  <2>1. {d \in LoadedLayers : Parent[d] = c} \subseteq Chains
        /\ {m \in LoadedMounts : mmeta[m] = c} \subseteq Names
    BY <1>1
  <2>2. /\ Cardinality({d \in LoadedLayers : Parent[d] = c}) \in Nat
        /\ Cardinality({m \in LoadedMounts : mmeta[m] = c}) \in Nat
    BY <2>1, FS_Subset, FS_CardinalityType
  <2> QED BY <2>2 DEF LoadedCount
<1>5. TypeOK'
  <2>1. count' \in [Chains -> Nat] BY <1>0, <1>4
  <2>2. th' \in [Threads -> ThreadRec] BY <1>0, IdleTyped
  <2>3. mparent' \in [Names -> LayerOrNil] BY <1>0, <1>1, <1>3 DEF LayerOrNil
  <2>4. crashes' \in 0..MaxCrashes BY <1>0 DEF TypeOK
  <2> QED BY <1>0, <1>1, <2>1, <2>2, <2>3, <2>4 DEF TypeOK
<1>6. \A t \in Threads : th'[t].pc = "idle" /\ th'[t].hold = Nil
  BY <1>0 DEF IdleThread
<1>7. ThreadsOK'
  BY <1>0, <1>6 DEF ThreadsOK, ThreadOK, Releasing, Registering, Mounting, Unmounting
<1>8. ReservedRefs' BY <1>6 DEF ReservedRefs, Registering, Mounting
<1>9. RetainedPresent'
  BY <1>0, <1>1, <1>2, <1>3, <1>6 DEF RetainedPresent
<1>10. RefCounts'
  <2> SUFFICES ASSUME NEW x \in LoadedLayers
      PROVE count'[x] = Cardinality(refs'[x]) + Cardinality(Children(x)')
                          + Cardinality(MountsOn(x)') + Cardinality(Holders(x)')
    BY <1>0 DEF RefCounts
  <2>0. x \in Chains BY <1>1
  <2>1. refs'[x] = {} /\ Holders(x)' = {} BY <1>0, <1>6, <2>0 DEF Holders
  <2>2. Children(x)' = {d \in LoadedLayers : Parent[d] = x} BY <1>0 DEF Children
  <2>3. MountsOn(x)' = {m \in LoadedMounts : mmeta[m] = x}
    BY <1>0, <1>1 DEF MountsOn
  <2>4. count'[x] = Cardinality(Children(x)') + Cardinality(MountsOn(x)')
    BY <1>0, <2>0, <2>2, <2>3 DEF LoadedCount
  <2>5. Cardinality(refs'[x]) = 0 /\ Cardinality(Holders(x)') = 0
    BY <2>1, FS_EmptySet
  <2>6. Cardinality(Children(x)') \in Nat /\ Cardinality(MountsOn(x)') \in Nat
    <3>1. Children(x)' \subseteq Chains /\ MountsOn(x)' \subseteq Names
      BY <1>1, <2>2, <2>3
    <3> QED BY <3>1, FS_Subset, FS_CardinalityType
  <2> QED BY <2>4, <2>5, <2>6
<1> QED BY <1>5, <1>7, <1>8, <1>9, <1>10

LEMMA InitIInv == Init => IInv
<1> SUFFICES ASSUME Init PROVE IInv OBVIOUS
<1> USE StoreAssumption DEF Init
<1>1. TypeOK BY IdleTyped DEF TypeOK, LayerOrNil
<1>2. \A t \in Threads : th[t].pc = "idle" /\ th[t].hold = Nil BY DEF IdleThread
<1>3. ThreadsOK
  BY <1>2 DEF ThreadsOK, ThreadOK, Releasing, Registering, Mounting, Unmounting
<1>4. ReservedRefs BY <1>2 DEF ReservedRefs, Registering, Mounting
<1>5. RetainedPresent BY <1>2 DEF RetainedPresent
<1>6. RefCounts BY DEF RefCounts
<1> QED BY <1>1, <1>3, <1>4, <1>5, <1>6 DEF IInv

----------------------------------------------------------------------------
(* The theorems                                                            *)

\* Every step of every operation, and a crash, preserve the invariant.
LEMMA NextIInv == IInv /\ [Next]_vars => IInv'
<1> SUFFICES ASSUME IInv, [Next]_vars PROVE IInv' OBVIOUS
<1>1. ASSUME NEW t \in Threads, Step(t) PROVE IInv'
  BY <1>1, QuietSteps, ReleaseLayerStep, DeleteMetaStep, ReleaseStep, RegisterBeginStep,
     CreateRWLayerStep, RegisterExistsStep, RegisterCommitStep, SaveMountParentStep,
     RemoveMountMetaStep
  DEF Step
<1>2. CASE UNCHANGED vars
  <2> USE <1>2 DEF vars, memVars, diskVars
  <2>1. TypeOK' BY DEF IInv, TypeOK
  <2>2. ThreadsOK' BY DEF IInv, ThreadsOK, ThreadOK
  <2>3. ReservedRefs' BY DEF IInv, ReservedRefs
  <2> QED BY <2>1, <2>2, <2>3, QuietCounts DEF IInv
<1> QED BY <1>1, <1>2, GetStep, GetRWLayerStep, RestartStep DEF Next

\* The reference counts, and what they protect, are right in every reachable
\* state, whatever is registered, mounted and released concurrently, whatever
\* fails, and after any number of crashes.
THEOREM StoreInvariant == Spec => []IInv
<1>1. Init => IInv BY InitIInv
<1>2. IInv /\ [Next]_vars => IInv' BY NextIInv
<1> QED BY <1>1, <1>2, PTL DEF Spec

\* Every variable of the layer store keeps its type.
THEOREM StoreTypeCorrect == Spec => []TypeOK
<1>1. IInv => TypeOK BY DEF IInv
<1> QED BY <1>1, StoreInvariant, PTL

\* referenceCount is the number of references, layers, writable layers and
\* operations that retain the layer.
THEOREM CountsAreExact == Spec => []RefCounts
<1>1. IInv => RefCounts BY DEF IInv
<1> QED BY <1>1, StoreInvariant, PTL

\* releaseLayer never takes a layer away while anything retains it.
THEOREM RetainedLayersStay == Spec => []RetainedPresent
<1>1. IInv => RetainedPresent BY DEF IInv
<1> QED BY <1>1, StoreInvariant, PTL

\* The panics of releaseLayer and deleteLayer are unreachable.
THEOREM PanicsUnreachable == Spec => []NoPanic
<1>1. IInv => NoPanic
  <2> SUFFICES ASSUME IInv, NEW t \in Threads, At(t, "release")
      PROVE  /\ count[th[t].hold] > 0
             /\ count[th[t].hold] = 1 => refs[th[t].hold] = {}
    BY DEF NoPanic
  <2>1. th[t].hold \in layers
    BY StoreAssumption DEF IInv, At, ThreadsOK, ThreadOK, RetainedPresent
  <2> QED BY <2>1, HeldIsPositive DEF IInv
<1> QED BY <1>1, StoreInvariant, PTL

----------------------------------------------------------------------------
(* What a crash would leave                                                *)

\* The metadata is never behind the content: a layer gets it with its content and
\* loses it after its content, and so does a writable layer.  This holds whatever
\* failed or crashed before.
Backed ==
    /\ \A c \in data : meta[c] = "full"
    /\ \A m \in mounts : mdata[m] # Absent => mmeta[m] = mparent[m]
    /\ \A t \in Threads : th[t].pc = "deleteMeta" => th[t].chain \notin data
    /\ \A t \in Threads : th[t].pc \in {"saveId", "saveParent"} => mdata[th[t].name] = th[t].hold
    /\ \A t \in Threads : th[t].pc \in {"rmInit", "rmMountMeta"} => mdata[th[t].name] = Absent
    /\ \A t \in Threads : th[t].pc \in Unmounting => mrefs[th[t].name] = {}

\* Without a crash nobody forgets on which layer a writable layer was created.
Remembered ==
    "crash" \notin faults => \A m \in mounts : mdata[m] # Absent => mparent[m] = mdata[m]

\* The content is never behind layerMap and mounts, if removals are orderly: only a
\* removal that is under way is without it.
Lasting ==
    Orderly =>
      /\ \A c \in layers :
            c \in data \/ \E t \in Threads : th[t].pc = "deleteMeta" /\ th[t].chain = c
      /\ \A m \in mounts :
            \/ mdata[m] # Absent
            \/ \E t \in Threads : th[t].pc \in {"rmInit", "rmMountMeta"} /\ th[t].name = m

DurableInv == IInv /\ Backed /\ Remembered /\ Lasting

\* A thread moves, not into or out of a step that has changed the disk or the
\* driver; of what lasts only content may go, and none if removals are orderly.
LEMMA DurableFrame ==
    ASSUME Backed, Remembered, Lasting, NEW t \in Threads, \A u \in Threads \ {t} : th'[u] = th[u],
           UNCHANGED <<layers, mounts, mparent, mrefs, meta, mmeta, mdata, faults>>,
           data' \subseteq data, Orderly => data' = data,
           th[t].pc \notin {"deleteMeta", "rmInit", "rmMountMeta"},
           th'[t].pc \notin {"deleteMeta", "saveId", "saveParent"} \cup Unmounting
    PROVE  Backed' /\ Remembered' /\ Lasting'
<1>1. Backed'
  <2>1. \A u \in Threads : th'[u].pc \in {"deleteMeta", "saveId", "saveParent"} \cup Unmounting
                              => th'[u] = th[u]
    OBVIOUS
  <2> QED BY <2>1 DEF Backed, Unmounting
<1>2. Remembered' BY DEF Remembered
<1>3. Lasting'
  <2>1. \A c : (\E u \in Threads : th[u].pc = "deleteMeta" /\ th[u].chain = c) =>
               \E u \in Threads : th'[u].pc = "deleteMeta" /\ th'[u].chain = c
    OBVIOUS
  <2>2. \A m : (\E u \in Threads : th[u].pc \in {"rmInit", "rmMountMeta"} /\ th[u].name = m) =>
               \E u \in Threads : th'[u].pc \in {"rmInit", "rmMountMeta"} /\ th'[u].name = m
    OBVIOUS
  <2> QED BY <2>1, <2>2 DEF Lasting, Orderly
<1> QED BY <1>1, <1>2, <1>3

LEMMA DurableQuiet ==
    ASSUME IInv, Backed, Remembered, Lasting, NEW t \in Threads,
           \/ UnwindLock(t) \/ ReleaseLayer(t) \/ DeleteDataFails(t) \/ RegisterCreate(t)
           \/ RegisterCreateFails(t) \/ RegisterExists(t) \/ RegisterCommitFails(t)
           \/ CreateRWLayerFails(t)
           \/ \E c \in Chains, r \in Refs : RegisterBegin(t, c, r) \/ Release(t, c, r)
           \/ \E m \in Names, p \in LayerOrNil, r \in Refs : CreateRWLayer(t, m, p, r)
    PROVE  Backed' /\ Remembered' /\ Lasting'
<1> USE DEF diskVars, Unmounting
<1>0. TypeOK /\ th \in [Threads -> ThreadRec] BY DEF IInv, TypeOK
<1>1. ASSUME Finish(t)
      PROVE  (\A u \in Threads \ {t} : th'[u] = th[u]) /\ th'[t].pc = "idle"
  BY <1>0, <1>1 DEF Finish, IdleThread
<1>2. ASSUME Unwind(t)
      PROVE  (\A u \in Threads \ {t} : th'[u] = th[u]) /\ th'[t].pc \in {"idle", "unwind"}
  BY <1>0, <1>1, <1>2 DEF Unwind, ThreadRec
<1>3. CASE UnwindLock(t) \/ RegisterCreate(t)
  BY <1>0, <1>3, DurableFrame DEF UnwindLock, RegisterCreate, Goto, At, ThreadRec
<1>4. CASE ReleaseLayer(t)
  <2>1. /\ \A u \in Threads \ {t} : th'[u] = th[u]
        /\ th'[t].pc \in {"idle", "delete"}
    BY <1>0, <1>1, <1>4 DEF ReleaseLayer, ThreadRec
  <2> QED BY <1>4, <2>1, DurableFrame DEF ReleaseLayer, At
<1>5. CASE DeleteDataFails(t)
  <2>1. ~Orderly /\ data' \subseteq data BY <1>5 DEF DeleteDataFails, Orderly
  <2> QED BY <1>1, <1>5, <2>1, DurableFrame DEF DeleteDataFails, At
<1>6. CASE RegisterCreateFails(t) \/ RegisterCommitFails(t)
  BY <1>2, <1>6, DurableFrame DEF RegisterCreateFails, RegisterCommitFails, At
<1>7. CASE RegisterExists(t)
  BY <1>2, <1>7, DurableFrame DEF RegisterExists, At
<1>8. CASE CreateRWLayerFails(t)
  BY <1>2, <1>8, DurableFrame DEF CreateRWLayerFails
<1>9. ASSUME NEW c \in Chains, NEW r \in Refs, RegisterBegin(t, c, r)
      PROVE  Backed' /\ Remembered' /\ Lasting'
  <2>1. /\ \A u \in Threads \ {t} : th'[u] = th[u]
        /\ th'[t].pc \in {"create", "unwind"}
    <3>1. PICK l \in {"create", "unwind"} :
            th' = [th EXCEPT ![t].pc = l, ![t].chain = c, ![t].hold = Parent[c], ![t].ref = r]
      BY <1>9 DEF RegisterBegin
    <3>2. th' = [th EXCEPT ![t] = [th[t] EXCEPT !.pc = l, !.chain = c, !.hold = Parent[c], !.ref = r]]
      BY <1>0, <3>1
    <3>3. [th[t] EXCEPT !.pc = l, !.chain = c, !.hold = Parent[c], !.ref = r].pc = l
      BY <1>0 DEF ThreadRec
    <3> QED BY <1>0, <3>2, <3>3
  <2> QED BY <1>9, <2>1, DurableFrame DEF RegisterBegin, At
<1>10. ASSUME NEW c \in Chains, NEW r \in Refs, Release(t, c, r)
       PROVE  Backed' /\ Remembered' /\ Lasting'
  <2>1. (\A u \in Threads \ {t} : th'[u] = th[u]) /\ th'[t].pc = "release"
    BY <1>0, <1>10 DEF Release, ThreadRec
  <2> QED BY <1>10, <2>1, DurableFrame DEF Release, At
<1>11. ASSUME NEW m \in Names, NEW p \in LayerOrNil, NEW r \in Refs, CreateRWLayer(t, m, p, r)
       PROVE  Backed' /\ Remembered' /\ Lasting'
  <2>1. (\A u \in Threads \ {t} : th'[u] = th[u]) /\ th'[t].pc = "mount"
    <3>1. th' = [th EXCEPT ![t].pc = "mount", ![t].name = m, ![t].hold = p, ![t].ref = r]
      BY <1>11 DEF CreateRWLayer
    <3>2. th' = [th EXCEPT ![t] = [th[t] EXCEPT !.pc = "mount", !.name = m, !.hold = p, !.ref = r]]
      BY <1>0, <3>1
    <3>3. [th[t] EXCEPT !.pc = "mount", !.name = m, !.hold = p, !.ref = r].pc = "mount"
      BY <1>0 DEF ThreadRec
    <3> QED BY <1>0, <3>2, <3>3
  <2> QED BY <1>11, <2>1, DurableFrame DEF CreateRWLayer, At
<1> QED BY <1>3, <1>4, <1>5, <1>6, <1>7, <1>8, <1>9, <1>10, <1>11

\* The steps of releaseLayer that take content or metadata away, and tx.Commit: one
\* thread at a time is between the two, and tx.Commit is not under way then.
LEMMA DurableLayers ==
    ASSUME IInv, Backed, Remembered, Lasting, NEW t \in Threads,
           DeleteData(t) \/ DeleteMeta(t) \/ DeleteMetaFails(t) \/ RegisterCommit(t)
    PROVE  Backed' /\ Remembered' /\ Lasting'
<1> DEFINE c == th[t].chain
<1>0. TypeOK /\ th[t] \in ThreadRec BY DEF IInv, TypeOK
<1>1. UNCHANGED <<mounts, mparent, mrefs, mmeta, mdata, faults>>
  BY DEF DeleteData, DeleteMeta, DeleteMetaFails, RegisterCommit
<1>2. Remembered' BY <1>1 DEF Remembered
<1>3. \A u \in Threads \ {t} : th'[u] = th[u]
  BY <1>0 DEF DeleteData, DeleteMeta, DeleteMetaFails, RegisterCommit, Goto, Finish, TypeOK
<1>4. \A u \in Threads \ {t} : th[u].pc # "deleteMeta"
  <2>1. CASE th[t].pc \in Releasing BY <2>1 DEF IInv, ThreadsOK, ThreadOK, Releasing
  <2>2. CASE layerL = Nil BY <2>2, StoreAssumption DEF IInv, ThreadsOK, ThreadOK, Releasing
  <2> QED
    BY <2>1, <2>2 DEF DeleteData, DeleteMeta, DeleteMetaFails, RegisterCommit, At, Releasing
<1>5. th[t].pc \notin {"rmInit", "rmMountMeta"}
  BY DEF DeleteData, DeleteMeta, DeleteMetaFails, RegisterCommit, At
<1>6. Orderly' => \A m \in mounts' :
         \/ mdata'[m] # Absent
         \/ \E u \in Threads : th'[u].pc \in {"rmInit", "rmMountMeta"} /\ th'[u].name = m
  BY <1>1, <1>3, <1>5 DEF Lasting, Orderly
<1>7. c \in Chains
  BY <1>0 DEF IInv, ThreadsOK, ThreadOK, Registering, TypeOK, DeleteData, DeleteMeta,
              DeleteMetaFails, RegisterCommit, At
<1>8. /\ \A m \in mounts' : mdata'[m] # Absent => mmeta'[m] = mparent'[m]
      /\ \A u \in Threads \ {t} :
           /\ th'[u].pc \in {"saveId", "saveParent"} => mdata'[th'[u].name] = th'[u].hold
           /\ th'[u].pc \in {"rmInit", "rmMountMeta"} => mdata'[th'[u].name] = Absent
           /\ th'[u].pc \in Unmounting => mrefs'[th'[u].name] = {}
  BY <1>1, <1>3 DEF Backed
<1> HIDE DEF c
<1>9. CASE DeleteData(t)
  <2>1. /\ th'[t].pc = "deleteMeta" /\ th'[t].chain = c
        /\ data' = data \ {c} /\ UNCHANGED <<layers, meta>>
    BY <1>0, <1>9 DEF DeleteData, Goto, TypeOK, ThreadRec, c
  <2>2. Backed' BY <1>3, <1>4, <1>8, <2>1 DEF Backed, Unmounting
  <2>3. ASSUME Orderly, NEW d \in layers
        PROVE  d \in data' \/ \E u \in Threads : th'[u].pc = "deleteMeta" /\ th'[u].chain = d
    <3>1. th[t].pc = "delete" BY <1>9 DEF DeleteData, At
    <3>2. d \in data BY <1>4, <2>3, <3>1 DEF Lasting
    <3> QED BY <2>1, <3>2
  <2>4. Lasting' BY <1>1, <1>6, <2>1, <2>3 DEF Lasting, Orderly
  <2> QED BY <1>2, <2>2, <2>4
<1>10. CASE DeleteMeta(t)
  <2>1. /\ th[t].pc = "deleteMeta" /\ layers' = layers \ {c}
        /\ meta' = [meta EXCEPT ![c] = "none"] /\ data' = data
    BY <1>10 DEF DeleteMeta, At, c
  <2>2. th'[t].pc \in {"idle", "release"}
    BY <1>0, <1>10 DEF DeleteMeta, Finish, IdleThread, TypeOK, ThreadRec
  <2>3. c \notin data BY <2>1 DEF Backed, c
  <2>4. \A d \in data : meta'[d] = "full" BY <1>0, <2>1, <2>3 DEF Backed, TypeOK
  <2>5. Backed' BY <1>3, <1>4, <1>8, <2>1, <2>2, <2>4 DEF Backed, Unmounting
  <2>6. Lasting' BY <1>1, <1>3, <1>4, <1>6, <2>1, <2>2 DEF Lasting, Orderly, c
  <2> QED BY <1>2, <2>5, <2>6
<1>11. CASE DeleteMetaFails(t)
  <2>1. th[t].pc = "deleteMeta" /\ data' = data /\ "rmMeta" \in faults
        /\ \E left : meta' = [meta EXCEPT ![c] = left]
    BY <1>11 DEF DeleteMetaFails, At, c
  <2>2. th'[t].pc = "idle"
    BY <1>0, <1>11 DEF DeleteMetaFails, Finish, IdleThread, TypeOK
  <2>3. c \notin data BY <2>1 DEF Backed, c
  <2>4. \A d \in data : meta'[d] = "full" BY <1>0, <2>1, <2>3 DEF Backed, TypeOK
  <2>5. Backed' BY <1>3, <1>4, <1>8, <2>1, <2>2, <2>4 DEF Backed, Unmounting
  <2>6. Lasting' BY <1>1, <2>1 DEF Lasting, Orderly
  <2> QED BY <1>2, <2>5, <2>6
<1>12. CASE RegisterCommit(t)
  <2>1. /\ layers' = layers \cup {c} /\ th[t].pc = "insert"
        /\ meta' = [meta EXCEPT ![c] = "full"] /\ data' = data \cup {c}
    BY <1>12 DEF RegisterCommit, At, c
  <2>2. th'[t].pc = "idle" BY <1>0, <1>12 DEF RegisterCommit, IdleThread, TypeOK
  <2>3. \A d \in data' : meta'[d] = "full" BY <1>0, <1>7, <2>1 DEF Backed, TypeOK
  <2>4. Backed' BY <1>3, <1>4, <1>8, <2>2, <2>3 DEF Backed, Unmounting
  <2>5. Lasting' BY <1>1, <1>3, <1>4, <1>6, <2>1, <2>2 DEF Lasting, Orderly
  <2> QED BY <1>2, <2>4, <2>5
<1> QED BY <1>9, <1>10, <1>11, <1>12

\* CreateRWLayer: the driver's layer, then the metadata, then the entry in mounts
LEMMA DurableMounts ==
    ASSUME IInv, Backed, Remembered, Lasting, NEW t \in Threads,
           MountCreate(t) \/ SaveMountID(t) \/ SaveMountParent(t)
    PROVE  Backed' /\ Remembered' /\ Lasting'
<1> DEFINE m == th[t].name
<1>0. TypeOK /\ th[t] \in ThreadRec BY DEF IInv, TypeOK
<1>1. th[t].pc \in Mounting BY DEF MountCreate, SaveMountID, SaveMountParent, At, Mounting
<1>2. m \in Names /\ m \notin mounts /\ mountL = t
  BY <1>1 DEF IInv, ThreadsOK, ThreadOK
<1>3. \A u \in Threads \ {t} : th[u].pc \notin Mounting \cup Unmounting
  BY <1>2 DEF IInv, ThreadsOK, ThreadOK
<1>4. \A u \in Threads \ {t} : th'[u] = th[u]
  BY <1>0 DEF MountCreate, SaveMountID, SaveMountParent, Goto, Finish, TypeOK
<1>5. UNCHANGED <<layers, meta, data, faults>>
  BY DEF MountCreate, SaveMountID, SaveMountParent
<1>6. th[t].pc # "deleteMeta" BY <1>1 DEF Mounting
<1>7. /\ \A d \in data' : meta'[d] = "full"
      /\ \A u \in Threads \ {t} : th'[u].pc = "deleteMeta" => th'[u].chain \notin data'
      /\ Orderly' => \A d \in layers' :
            d \in data' \/ \E u \in Threads : th'[u].pc = "deleteMeta" /\ th'[u].chain = d
  BY <1>4, <1>5, <1>6 DEF Backed, Lasting, Orderly
<1>8. /\ \A x \in mounts : x # m /\ (mdata[x] # Absent => mmeta[x] = mparent[x])
      /\ "crash" \notin faults => \A x \in mounts : mdata[x] # Absent => mparent[x] = mdata[x]
      /\ Orderly => \A x \in mounts : mdata[x] # Absent
  BY <1>1, <1>2, <1>3 DEF Backed, Remembered, Lasting, Mounting, Unmounting
<1>9. th[t].hold # Absent BY <1>0, StoreAssumption DEF ThreadRec, LayerOrNil
<1> HIDE DEF m
<1>10. CASE MountCreate(t)
  <2>1. /\ mdata' = [mdata EXCEPT ![m] = th[t].hold] /\ th'[t].pc = "saveId"
        /\ th'[t].name = m /\ th'[t].hold = th[t].hold
        /\ UNCHANGED <<mounts, mparent, mrefs, mmeta>>
    BY <1>0, <1>10 DEF MountCreate, Goto, TypeOK, ThreadRec, m
  <2>2. \A x \in mounts : mdata'[x] = mdata[x] BY <1>0, <1>8, <2>1 DEF TypeOK
  <2>3. mdata'[m] = th[t].hold BY <1>0, <1>2, <2>1 DEF TypeOK
  <2>4. Backed' BY <1>3, <1>4, <1>7, <1>8, <2>1, <2>2, <2>3 DEF Backed, Mounting, Unmounting
  <2>5. Remembered' /\ Lasting' BY <1>5, <1>7, <1>8, <2>1, <2>2 DEF Remembered, Lasting, Orderly
  <2> QED BY <2>4, <2>5
<1>11. CASE SaveMountID(t)
  <2>1. /\ mmeta' = [mmeta EXCEPT ![m] = Nil] /\ th'[t].pc = "saveParent" /\ th[t].pc = "saveId"
        /\ th'[t].name = m /\ th'[t].hold = th[t].hold
        /\ UNCHANGED <<mounts, mparent, mrefs, mdata>>
    BY <1>0, <1>11 DEF SaveMountID, Goto, At, TypeOK, ThreadRec, m
  <2>2. \A x \in mounts : mmeta'[x] = mmeta[x] BY <1>0, <1>8, <2>1 DEF TypeOK
  <2>3. mdata[m] = th[t].hold BY <2>1 DEF Backed, m
  <2>4. Backed' BY <1>3, <1>4, <1>7, <1>8, <2>1, <2>2, <2>3 DEF Backed, Mounting, Unmounting
  <2>5. Remembered' /\ Lasting' BY <1>5, <1>7, <1>8, <2>1 DEF Remembered, Lasting, Orderly
  <2> QED BY <2>4, <2>5
<1>12. CASE SaveMountParent(t)
  <2>1. /\ mmeta' = [mmeta EXCEPT ![m] = th[t].hold] /\ mounts' = mounts \cup {m}
        /\ mparent' = [mparent EXCEPT ![m] = th[t].hold] /\ th[t].pc = "saveParent"
        /\ UNCHANGED mdata
    BY <1>12 DEF SaveMountParent, At, m
  <2>2. th'[t].pc = "idle" BY <1>0, <1>12 DEF SaveMountParent, Finish, IdleThread, TypeOK
  <2>3. mdata[m] = th[t].hold BY <2>1 DEF Backed, m
  <2>4. /\ mmeta'[m] = th[t].hold /\ mparent'[m] = th[t].hold
        /\ \A x \in mounts : mmeta'[x] = mmeta[x] /\ mparent'[x] = mparent[x]
    BY <1>0, <1>2, <1>8, <2>1 DEF TypeOK
  <2>5. Backed' BY <1>3, <1>4, <1>7, <1>8, <2>1, <2>2, <2>4 DEF Backed, Mounting, Unmounting
  <2>6. Remembered' BY <1>5, <1>8, <2>1, <2>3, <2>4 DEF Remembered
  <2>7. Lasting' BY <1>5, <1>7, <1>8, <1>9, <2>1, <2>3 DEF Lasting, Orderly
  <2> QED BY <2>5, <2>6, <2>7
<1> QED BY <1>10, <1>11, <1>12

\* ReleaseRWLayer takes the last reference before anything is removed.
LEMMA DurableReleaseRW ==
    ASSUME IInv, Backed, Remembered, Lasting, NEW t \in Threads, NEW m \in Names, NEW r \in Refs,
           ReleaseRWLayer(t, m, r)
    PROVE  Backed' /\ Remembered' /\ Lasting'
<1>0. TypeOK /\ th[t] \in ThreadRec BY DEF IInv, TypeOK
<1>1. /\ th[t].pc = "idle" /\ mountL = Nil /\ m \in mounts
      /\ mrefs' = [mrefs EXCEPT ![m] = @ \ {r}]
      /\ UNCHANGED <<layers, mounts, mparent, meta, mmeta, data, mdata, faults>>
  BY DEF ReleaseRWLayer, At, diskVars
<1>2. \A u \in Threads : th[u].pc \notin Mounting \cup Unmounting
  BY <1>1, StoreAssumption DEF IInv, ThreadsOK, ThreadOK
<1>3. Remembered' BY <1>1 DEF Remembered
<1>4. CASE UNCHANGED th
  BY <1>1, <1>2, <1>3, <1>4 DEF Backed, Lasting, Orderly, Mounting
<1>5. CASE IsLastRW(m, r) /\ th' = [th EXCEPT ![t].pc = "rmMount", ![t].name = m, ![t].ref = r]
  <2>1. /\ \A u \in Threads \ {t} : th'[u] = th[u]
        /\ th'[t].pc = "rmMount" /\ th'[t].name = m
    <3>1. th' = [th EXCEPT ![t] = [th[t] EXCEPT !.pc = "rmMount", !.name = m, !.ref = r]]
      BY <1>0, <1>5 DEF TypeOK
    <3>2. /\ [th[t] EXCEPT !.pc = "rmMount", !.name = m, !.ref = r].pc = "rmMount"
          /\ [th[t] EXCEPT !.pc = "rmMount", !.name = m, !.ref = r].name = m
      BY <1>0 DEF ThreadRec
    <3> QED BY <1>0, <3>1, <3>2 DEF TypeOK
  <2>2. mrefs'[m] = {} BY <1>0, <1>1, <1>5 DEF IsLastRW, TypeOK
  <2>3. Backed' BY <1>1, <1>2, <2>1, <2>2 DEF Backed, Mounting, Unmounting
  <2>4. Lasting' BY <1>1, <1>2, <2>1 DEF Lasting, Orderly, Unmounting
  <2> QED BY <1>3, <2>3, <2>4
<1> QED BY <1>4, <1>5 DEF ReleaseRWLayer

\* The removals of ReleaseRWLayer, and a failing one of them: what a retaken
\* reference refers to may be without its content, but never without its metadata
\* alone.
LEMMA DurableUnmount ==
    ASSUME IInv, Backed, Remembered, Lasting, NEW t \in Threads,
           RemoveMountData(t) \/ RemoveInitData(t) \/ ReleaseRWLayerFails(t) \/ RemoveMountMeta(t)
    PROVE  Backed' /\ Remembered' /\ Lasting'
<1> DEFINE m == th[t].name
<1>0. TypeOK /\ th[t] \in ThreadRec BY DEF IInv, TypeOK
<1>1. th[t].pc \in Unmounting
  BY DEF RemoveMountData, RemoveInitData, ReleaseRWLayerFails, RemoveMountMeta, At, Unmounting
<1>2. m \in Names /\ m \in mounts /\ mountL = t /\ mrefs[m] = {}
  BY <1>1 DEF IInv, ThreadsOK, ThreadOK, Backed
<1>3. \A u \in Threads \ {t} : th[u].pc \notin Mounting \cup Unmounting
  BY <1>2 DEF IInv, ThreadsOK, ThreadOK
<1>4. \A u \in Threads \ {t} : th'[u] = th[u]
  BY <1>0 DEF RemoveMountData, RemoveInitData, ReleaseRWLayerFails, RemoveMountMeta, Goto, Finish,
              TypeOK
<1>5. UNCHANGED <<layers, meta, data, mparent, faults>>
  BY DEF RemoveMountData, RemoveInitData, ReleaseRWLayerFails, RemoveMountMeta, diskVars
<1>6. th[t].pc # "deleteMeta" BY <1>1 DEF Unmounting
<1>7. /\ \A d \in data' : meta'[d] = "full"
      /\ \A u \in Threads \ {t} : th'[u].pc = "deleteMeta" => th'[u].chain \notin data'
      /\ Orderly' => \A d \in layers' :
            d \in data' \/ \E u \in Threads : th'[u].pc = "deleteMeta" /\ th'[u].chain = d
  BY <1>4, <1>5, <1>6 DEF Backed, Lasting, Orderly
<1>8. /\ \A x \in mounts : mdata[x] # Absent => mmeta[x] = mparent[x]
      /\ "crash" \notin faults => \A x \in mounts : mdata[x] # Absent => mparent[x] = mdata[x]
      /\ Orderly => \A x \in mounts \ {m} : mdata[x] # Absent
      /\ th[t].pc \in {"rmInit", "rmMountMeta"} => mdata[m] = Absent
  BY <1>1, <1>2, <1>3 DEF Backed, Remembered, Lasting, Mounting, Unmounting
<1> HIDE DEF m
<1>9. CASE RemoveMountData(t)
  <2>1. /\ mdata' = [mdata EXCEPT ![m] = Absent] /\ th'[t].pc = "rmInit"
        /\ th'[t].name = m /\ UNCHANGED <<mounts, mrefs, mmeta>>
    BY <1>0, <1>9 DEF RemoveMountData, Goto, TypeOK, ThreadRec, m
  <2>2. mdata'[m] = Absent /\ \A x \in mounts \ {m} : mdata'[x] = mdata[x]
    BY <1>0, <1>2, <2>1 DEF TypeOK
  <2>3. Backed' BY <1>2, <1>3, <1>4, <1>7, <1>8, <1>5, <2>1, <2>2 DEF Backed, Mounting, Unmounting
  <2>4. Remembered' BY <1>5, <1>8, <2>1, <2>2 DEF Remembered
  <2>5. Lasting' BY <1>5, <1>7, <1>8, <2>1, <2>2 DEF Lasting, Orderly
  <2> QED BY <2>3, <2>4, <2>5
<1>10. CASE RemoveInitData(t)
  <2>1. /\ th[t].pc = "rmInit" /\ th'[t].pc = "rmMountMeta" /\ th'[t].name = m
        /\ UNCHANGED <<mounts, mrefs, mmeta, mdata>>
    BY <1>0, <1>10 DEF RemoveInitData, Goto, At, TypeOK, ThreadRec, diskVars, m
  <2>2. Backed' BY <1>2, <1>3, <1>4, <1>5, <1>7, <1>8, <2>1 DEF Backed, Mounting, Unmounting
  <2>3. Remembered' BY <1>5, <1>8, <2>1 DEF Remembered
  <2>4. Lasting' BY <1>5, <1>7, <1>8, <2>1 DEF Lasting, Orderly
  <2> QED BY <2>2, <2>3, <2>4
<1>11. CASE ReleaseRWLayerFails(t)
  <2>1. ~Orderly BY <1>11 DEF ReleaseRWLayerFails, Orderly
  <2>2. th'[t].pc = "idle" /\ mounts' = mounts
    BY <1>0, <1>11 DEF ReleaseRWLayerFails, Finish, IdleThread, TypeOK
  <2>3. \A x \in mounts : mdata'[x] # Absent =>
            mdata'[x] = mdata[x] /\ mmeta'[x] = mmeta[x]
    <3>1. \/ /\ th[t].pc # "rmMountMeta" /\ mmeta' = mmeta
             /\ \E left \in {mdata[m], Absent} :
                   mdata' = mdata \/ mdata' = [mdata EXCEPT ![m] = left]
          \/ /\ mdata[m] = Absent /\ mdata' = mdata
             /\ \E left \in {mmeta[m], Nil, Absent} : mmeta' = [mmeta EXCEPT ![m] = left]
      BY <1>8, <1>11 DEF ReleaseRWLayerFails, At, m
    <3> QED BY <1>0, <3>1 DEF TypeOK
  <2>4. Backed' BY <1>3, <1>4, <1>5, <1>7, <1>8, <2>2, <2>3 DEF Backed, Mounting, Unmounting
  <2>5. Remembered' BY <1>5, <1>8, <2>2, <2>3 DEF Remembered
  <2>6. Lasting' BY <1>5, <2>1 DEF Lasting, Orderly
  <2> QED BY <2>4, <2>5, <2>6
<1>12. CASE RemoveMountMeta(t)
  <2>1. /\ mmeta' = [mmeta EXCEPT ![m] = Absent] /\ mounts' = mounts \ {m}
        /\ UNCHANGED mdata
    BY <1>12 DEF RemoveMountMeta, m
  <2>2. th'[t].pc \in {"idle", "unwind"}
    <3>1. CASE Finish(t) BY <1>0, <3>1 DEF Finish, IdleThread, TypeOK
    <3>2. ASSUME NEW p, th' = [th EXCEPT ![t].pc = "unwind", ![t].hold = p, ![t].ref = Nil]
          PROVE  th'[t].pc = "unwind"
      <4>1. th' = [th EXCEPT ![t] = [th[t] EXCEPT !.pc = "unwind", !.hold = p, !.ref = Nil]]
        BY <1>0, <3>2 DEF TypeOK
      <4>2. [th[t] EXCEPT !.pc = "unwind", !.hold = p, !.ref = Nil].pc = "unwind"
        BY <1>0 DEF ThreadRec
      <4> QED BY <1>0, <4>1, <4>2 DEF TypeOK
    <3> QED BY <1>12, <3>1, <3>2 DEF RemoveMountMeta
  <2>3. \A x \in mounts' : x # m /\ x \in mounts /\ mmeta'[x] = mmeta[x]
    BY <1>0, <2>1 DEF TypeOK
  <2>4. Backed' BY <1>3, <1>4, <1>5, <1>7, <1>8, <2>1, <2>2, <2>3 DEF Backed, Mounting, Unmounting
  <2>5. Remembered' BY <1>5, <1>8, <2>1, <2>3 DEF Remembered
  <2>6. Lasting' BY <1>5, <1>7, <1>8, <2>1, <2>3 DEF Lasting, Orderly
  <2> QED BY <2>4, <2>5, <2>6
<1> QED BY <1>9, <1>10, <1>11, <1>12

\* Get and GetRWLayer: a writable layer is not handed out while it is removed.
LEMMA DurableGet ==
    ASSUME IInv, Backed, Remembered, Lasting,
           \/ \E c \in Chains, r \in Refs : Get(c, r)
           \/ \E m \in Names, r \in Refs : GetRWLayer(m, r)
    PROVE  Backed' /\ Remembered' /\ Lasting'
<1> USE DEF diskVars, Backed, Remembered, Lasting, Orderly
<1>1. CASE \E c \in Chains, r \in Refs : Get(c, r)
  <2>1. UNCHANGED <<layers, mounts, mparent, mrefs, th, diskVars, faults>> BY <1>1 DEF Get
  <2> QED BY <2>1
<1>2. CASE \E m \in Names, r \in Refs : GetRWLayer(m, r)
  <2>1. mountL = Nil /\ UNCHANGED <<layers, mounts, mparent, th, diskVars, faults>>
    BY <1>2 DEF GetRWLayer
  <2>2. \A u \in Threads : th[u].pc \notin Unmounting
    BY <2>1, StoreAssumption DEF IInv, ThreadsOK, ThreadOK
  <2> QED BY <2>1, <2>2
<1> QED BY <1>1, <1>2

\* A crash leaves the disk and the driver as they are, and loadMount takes the
\* parent that the metadata names.
LEMMA DurableRestart ==
    ASSUME IInv, Backed, Restart
    PROVE  Backed' /\ Remembered' /\ Lasting'
<1>1. /\ "crash" \in faults /\ faults' = faults
      /\ mounts' = LoadedMounts
      /\ mparent' = [m \in Names |-> IF m \in LoadedMounts THEN mmeta[m] ELSE Nil]
      /\ th' = [t \in Threads |-> IdleThread]
      /\ UNCHANGED <<meta, mmeta, data, mdata>>
  BY DEF Restart, diskVars
<1>2. \A m \in mounts' : mmeta'[m] = mparent'[m] BY <1>1 DEF LoadedMounts
<1>3. \A t \in Threads : th'[t].pc = "idle" BY <1>1 DEF IdleThread
<1>4. Backed' BY <1>1, <1>2, <1>3 DEF Backed, Unmounting
<1>5. Remembered' /\ Lasting' BY <1>1 DEF Remembered, Lasting, Orderly
<1> QED BY <1>4, <1>5

LEMMA NextDurable == DurableInv /\ [Next]_vars => DurableInv'
<1> SUFFICES ASSUME DurableInv, [Next]_vars PROVE DurableInv'
  OBVIOUS
<1>1. IInv /\ Backed /\ Remembered /\ Lasting BY DEF DurableInv
<1>2. IInv' BY <1>1, NextIInv
<1>3. SUFFICES Backed' /\ Remembered' /\ Lasting' BY <1>2 DEF DurableInv
<1>4. ASSUME NEW t \in Threads, Step(t) PROVE Backed' /\ Remembered' /\ Lasting'
  BY <1>1, <1>4, DurableQuiet, DurableLayers, DurableMounts, DurableReleaseRW, DurableUnmount
  DEF Step
<1>5. CASE UNCHANGED vars
  BY <1>1, <1>5 DEF vars, memVars, diskVars, Backed, Remembered, Lasting, Orderly
<1> QED BY <1>1, <1>4, <1>5, DurableGet, DurableRestart DEF Next

\* The metadata on disk keeps up with the content whatever failed or crashed, and
\* the content with layerMap and mounts if removals are orderly.
THEOREM DurableInvariant == Spec => []DurableInv
<1>1. Init => DurableInv
  <2> SUFFICES ASSUME Init PROVE Backed /\ Remembered /\ Lasting
    BY InitIInv DEF DurableInv
  <2> QED BY DEF Init, Backed, Remembered, Lasting, IdleThread, Unmounting
<1> QED BY <1>1, NextDurable, PTL DEF Spec

\* loadLayer finds every layer that has its content and its ancestors'.
LEMMA IntactIsLoaded ==
    ASSUME Backed PROVE Intact \subseteq LoadedLayers
<1> SUFFICES ASSUME NEW S \in SUBSET Chains,
                    \A c \in S : c \in data /\ Parent[c] \in S \cup {Nil}
             PROVE  S \subseteq LoadedLayers
  BY DEF Intact
<1>1. S \in Loadable BY DEF Backed, Loadable
<1> QED BY <1>1 DEF LoadedLayers

\* A layer that has its content, and whose ancestors have theirs, survives a crash at
\* any moment, whatever failed or crashed before; and a layer that a caller has a
\* reference to is one of those if removals are orderly.
THEOREM ReferencedLayersAreDurable == Spec => []ReferencedIsDurable
<1>1. DurableInv => ReferencedIsDurable
  <2> SUFFICES ASSUME IInv, Lasting, Orderly, NEW c \in Chains, refs[c] # {}
               PROVE  c \in Intact
    BY IntactIsLoaded DEF DurableInv, ReferencedIsDurable
  <2>1. ASSUME NEW d \in layers, refs[d] # {} \/ Children(d) # {} PROVE d \in data
    <3>1. ASSUME NEW t \in Threads, th[t].pc = "deleteMeta", th[t].chain = d PROVE FALSE
      <4>1. count[d] = 0 BY <3>1 DEF IInv, ThreadsOK, ThreadOK
      <4> QED BY <2>1, <4>1, ZeroIsFree DEF IInv
    <3> QED BY <3>1 DEF Lasting
  <2> DEFINE S == {d \in layers : d \in data}
  <2>2. c \in S BY <2>1 DEF IInv, RetainedPresent
  <2>3. ASSUME NEW d \in S PROVE Parent[d] \in S \cup {Nil}
    <3>1. CASE Parent[d] = Nil BY <3>1
    <3>2. CASE Parent[d] \in layers
      <4>1. d \in Children(Parent[d]) BY DEF Children
      <4> QED BY <2>1, <3>2, <4>1
    <3> QED BY <3>1, <3>2 DEF IInv, RetainedPresent
  <2>4. S \in SUBSET Chains BY DEF IInv, TypeOK
  <2> HIDE DEF S
  <2>5. \A d \in S : d \in data BY DEF S
  <2> QED BY <2>2, <2>3, <2>4, <2>5 DEF Intact
<1> QED BY <1>1, DurableInvariant, PTL

\* A writable layer that has its content survives a crash at any moment, unless a
\* layer below it has lost its own, on the layer that it was created on unless the
\* daemon crashed meanwhile; and one that a container has a reference to has its
\* content if removals are orderly.
THEOREM MountsAreDurable == Spec => []MountIsDurable
<1>1. DurableInv => MountIsDurable
  <2> SUFFICES ASSUME IInv, Backed, Remembered, Lasting, NEW m \in mounts
               PROVE  /\ mdata[m] # Absent =>
                            /\ mparent[m] \in Intact \cup {Nil} => m \in LoadedMounts
                            /\ "crash" \notin faults => mparent[m] = mdata[m]
                      /\ Orderly /\ mrefs[m] # {} => mdata[m] # Absent
    BY DEF DurableInv, MountIsDurable
  <2>1. ASSUME mdata[m] # Absent, mparent[m] \in Intact \cup {Nil} PROVE m \in LoadedMounts
    <3>1. m \in Names /\ mparent[m] \in LayerOrNil BY DEF IInv, TypeOK
    <3>2. mmeta[m] = mparent[m] BY <2>1 DEF Backed
    <3>3. mmeta[m] # Absent BY <3>1, <3>2, StoreAssumption DEF LayerOrNil
    <3>4. mmeta[m] \in LoadedLayers \cup {Nil} BY <2>1, <3>2, IntactIsLoaded
    <3> QED BY <3>1, <3>3, <3>4 DEF LoadedMounts
  <2>2. mdata[m] # Absent /\ "crash" \notin faults => mparent[m] = mdata[m] BY DEF Remembered
  <2>3. Orderly /\ mrefs[m] # {} => mdata[m] # Absent BY DEF Lasting, Backed, Unmounting
  <2> QED BY <2>1, <2>2, <2>3
<1> QED BY <1>1, DurableInvariant, PTL

----------------------------------------------------------------------------
(* Content goes after the last reference                                   *)

\* A step of a thread that removes content has the removal's count of zero, or its
\* empty set of references.
LEMMA StepKeepsContent ==
    ASSUME DurableInv, NEW t \in Threads, Step(t)
    PROVE  /\ \A c \in data \ data' :
                 refs[c] = {} /\ Children(c) = {} /\ MountsOn(c) = {} /\ Holders(c) = {}
           /\ \A m \in mounts : mdata[m] # Absent /\ mdata'[m] = Absent => mrefs[m] = {}
<1>0. IInv /\ Backed /\ TypeOK BY DEF DurableInv, IInv
<1>1. CASE UNCHANGED <<data, mdata>> BY <1>1
<1>2. CASE DeleteData(t) \/ DeleteDataFails(t)
  <2>1. data \ data' \subseteq {th[t].chain} /\ mdata' = mdata /\ th[t].pc = "delete"
    BY <1>2 DEF DeleteData, DeleteDataFails, At
  <2>2. th[t].chain \in layers /\ count[th[t].chain] = 0
    BY <1>0, <2>1 DEF IInv, ThreadsOK, ThreadOK
  <2> QED BY <1>0, <2>1, <2>2, ZeroIsFree DEF IInv
<1>3. CASE RegisterCommit(t) BY <1>3 DEF RegisterCommit
<1>4. CASE MountCreate(t)
  <2>1. th[t].name \notin mounts BY <1>0, <1>4 DEF MountCreate, At, IInv, ThreadsOK, ThreadOK, Mounting
  <2> QED BY <1>0, <1>4, <2>1 DEF MountCreate, TypeOK
<1>5. CASE RemoveMountData(t) \/ ReleaseRWLayerFails(t)
  <2>1. data' = data /\ th[t].pc \in Unmounting
    BY <1>5 DEF RemoveMountData, ReleaseRWLayerFails, At, Unmounting
  <2>2. \A m \in mounts \ {th[t].name} : mdata'[m] = mdata[m]
    BY <1>0, <1>5 DEF RemoveMountData, ReleaseRWLayerFails, TypeOK
  <2> QED BY <1>0, <2>1, <2>2 DEF Backed
<1> QED
  <2>1. \/ DeleteData(t) \/ DeleteDataFails(t) \/ RegisterCommit(t) \/ MountCreate(t)
        \/ RemoveMountData(t) \/ ReleaseRWLayerFails(t) \/ UNCHANGED <<data, mdata>>
    <3>1. CASE \/ \E c \in Chains, r \in Refs : RegisterBegin(t, c, r) \/ Release(t, c, r)
               \/ RegisterCreate(t) \/ RegisterCreateFails(t)
               \/ RegisterExists(t) \/ RegisterCommitFails(t)
      BY <3>1 DEF RegisterBegin, Release, RegisterCreate, RegisterCreateFails, RegisterExists,
                  RegisterCommitFails, diskVars
    <3>2. CASE UnwindLock(t) \/ ReleaseLayer(t) \/ DeleteMeta(t) \/ DeleteMetaFails(t)
      BY <3>2 DEF UnwindLock, ReleaseLayer, DeleteMeta, DeleteMetaFails, diskVars
    <3>3. CASE \/ \E m \in Names, p \in LayerOrNil, r \in Refs : CreateRWLayer(t, m, p, r)
               \/ \E m \in Names, r \in Refs : ReleaseRWLayer(t, m, r)
               \/ SaveMountID(t) \/ SaveMountParent(t) \/ CreateRWLayerFails(t)
               \/ RemoveInitData(t) \/ RemoveMountMeta(t)
      BY <3>3 DEF CreateRWLayer, ReleaseRWLayer, SaveMountID, SaveMountParent,
                  CreateRWLayerFails, RemoveInitData, RemoveMountMeta, diskVars
    <3> QED BY <3>1, <3>2, <3>3 DEF Step
  <2> QED BY <1>1, <1>2, <1>3, <1>4, <1>5, <2>1

\* releaseLayer and ReleaseRWLayer remove no content that a caller, a layer, a
\* writable layer, a container or an operation under way relies on.
THEOREM ContentIsKept == Spec => ContentKept
<1> DEFINE Keeps ==
      /\ \A c \in data \ data' :
            refs[c] = {} /\ Children(c) = {} /\ MountsOn(c) = {} /\ Holders(c) = {}
      /\ \A m \in mounts : mdata[m] # Absent /\ mdata'[m] = Absent => mrefs[m] = {}
<1>1. DurableInv /\ [Next]_vars => [Keeps]_vars
  <2> SUFFICES ASSUME DurableInv, Next PROVE Keeps
    OBVIOUS
  <2>1. CASE UNCHANGED <<data, mdata>> BY <2>1
  <2>2. ASSUME NEW t \in Threads, Step(t) PROVE Keeps BY <2>2, StepKeepsContent
  <2>3. (\E c \in Chains, r \in Refs : Get(c, r)) => UNCHANGED <<data, mdata>> BY DEF Get, diskVars
  <2>4. (\E m \in Names, r \in Refs : GetRWLayer(m, r)) => UNCHANGED <<data, mdata>>
    BY DEF GetRWLayer, diskVars
  <2>5. Restart => UNCHANGED <<data, mdata>> BY DEF Restart, diskVars
  <2> QED BY <2>1, <2>2, <2>3, <2>4, <2>5 DEF Next
<1> QED BY <1>1, DurableInvariant, PTL DEF Spec, ContentKept
=============================================================================
