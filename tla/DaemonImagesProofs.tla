------------------------- MODULE DaemonImagesProofs -------------------------
(***************************************************************************)
(* Proofs about DaemonImages, for any images, references, threads and      *)
(* setups: both indexes of the reference store agree, removals alone leave *)
(* no reference behind, layers are counted, parents know their children    *)
(* and the daemon starts again after a crash.                              *)
(*                                                                         *)
(* A removal takes the references of its image from one index and deletes  *)
(* them in the other one after the other, so a thread at Delete relies on  *)
(* the indexes to agree and on nobody to add a reference meanwhile.        *)
(* Delete holds the mutex of the image store from the map to the disk, so  *)
(* no image comes back under it; every reference to a layer has a holder,  *)
(* an image or a thread that creates one, so a configuration that the next *)
(* start will read still has its layer (StoreInv).                         *)
(***************************************************************************)
EXTENDS DaemonImages, FiniteSetTheorems, TLAPS

Taggers == {"commit", "pull", "cached", "tag"}
Quiet == config.ops \cap Taggers = {} /\ config.faults \cap {"save", "delete"} = {}

StoresOK ==
    /\ config \in Setups /\ used \subseteq Images
    /\ images \subseteq Images /\ content \subseteq Images
    /\ parent \in [Images -> Images \cup {None}]

\* What a thread at a label has: an image, a reference, the operation that
\* leads there.
ThreadOK(g) ==
    /\ th[g].pc # "idle" => th[g].id \in Images /\ th[g].op \in config.ops
    /\ \/ th[g].op = "pull" /\ th[g].pc # "idle"
       \/ th[g].pc \in {"inUse", "untag", "refsAfter", "oldTag", "addDigest", "tag"}
       => th[g].ref \in Refs
    /\ th[g].pc \in {"set", "insert", "oldTag", "addDigest", "tag"} =>
           th[g].op \in Taggers
    /\ th[g].pc = "untagEach" => th[g].next # "tag"
ThreadsOK == th \in [Threads -> Thread] /\ \A g \in Threads : ThreadOK(g)

\* A removal has seen to it, or will, that nothing refers to its image.
RemovalOK(g) ==
    /\ th[g].pc = "deleteFiles" => th[g].id \notin images
    /\ th[g].pc = "untagEach" /\ th[g].next = "delete" =>
           \A r \in Refs : repositories[r] = th[g].id => r \in th[g].refs
    /\ th[g].pc = "delete" => \A r \in Refs : repositories[r] # th[g].id
TableOK ==
    /\ jsonFile = repositories
    /\ images \subseteq content
    /\ \A r \in Refs : repositories[r] # None => repositories[r] \in images
RemovalsOK == Quiet => TableOK /\ \A g \in Threads : RemovalOK(g)

IInv == StoresOK /\ RefsTypeOK /\ ThreadsOK /\ IndexesAgree /\ RemovalsOK

----------------------------------------------------------------------------
(* Steps of one thread                                                     *)

\* Only thread g moves, to a thread.
Moves(g) == th' \in [Threads -> Thread] /\ \A u \in Threads \ {g} : th'[u] = th[u]

\* The fields but pc that the invariant is about
Keeps(g) ==
    /\ th'[g].op = th[g].op /\ th'[g].id = th[g].id /\ th'[g].ref = th[g].ref
    /\ th'[g].refs = th[g].refs /\ th'[g].next = th[g].next
    /\ th'[g].hold = th[g].hold /\ th'[g].par = th[g].par

LEMMA IdleIsThread ==
    ASSUME NEW n \in 0 .. MaxCalls
    PROVE  Idle(n) \in Thread
BY DEF Idle, Thread, Labels

LEMMA ThreadFields ==
    ASSUME th \in [Threads -> Thread], NEW g \in Threads
    PROVE  /\ th[g] \in Thread /\ th[g].pc \in Labels
           /\ th[g].op \in Operations \cup {None} /\ th[g].id \in Images \cup {None}
           /\ th[g].ref \in Refs \cup {None} /\ th[g].par \in Images \cup {None}
           /\ th[g].refs \subseteq Refs /\ th[g].calls \in 0 .. MaxCalls
           /\ th[g].next \in {"idle", "children", "delete", "tag"}
BY DEF Thread

\* The points to which the steps that set several fields at once move.
LEMMA InLabels ==
    {"untagEach", "allRefs", "tag", "addDigest", "oldTag"} \subseteq Labels
BY DEF Labels

LEMMA GotoMoves ==
    ASSUME th \in [Threads -> Thread], NEW g \in Threads, NEW l \in Labels, Goto(g, l)
    PROVE  Moves(g) /\ Keeps(g) /\ th'[g].pc = l
<1>1. th' = [th EXCEPT ![g] = [th[g] EXCEPT !.pc = l]] BY DEF Goto
<1>2. [th[g] EXCEPT !.pc = l] \in Thread BY DEF Thread
<1>3. th[g] \in Thread BY ThreadFields
<1> QED BY <1>1, <1>2, <1>3 DEF Moves, Keeps, Thread

LEMMA ReturnMoves ==
    ASSUME th \in [Threads -> Thread], NEW g \in Threads, Return(g)
    PROVE  Moves(g) /\ th'[g].pc = "idle"
<1>1. Idle(th[g].calls) \in Thread BY ThreadFields, IdleIsThread
<1> QED BY <1>1 DEF Moves, Return, Idle

LEMMA BeginMoves ==
    ASSUME th \in [Threads -> Thread], NEW g \in Threads, NEW call \in Thread,
           Begin(g, call)
    PROVE  Moves(g) /\ th'[g] = call /\ call.op \in config.ops
BY DEF Begin, Moves

----------------------------------------------------------------------------
(* Frames: what is left to show of a step of thread g                      *)

Shrinks ==
    /\ images' \subseteq images
    /\ \A r \in Refs : repositories'[r] \in {repositories[r], None}

LEMMA ThreadStep ==
    ASSUME IInv, NEW g \in Threads, Moves(g), ThreadOK(g)', config' = config,
           StoresOK', RefsTypeOK', IndexesAgree',
           Quiet => TableOK' /\ Shrinks /\ RemovalOK(g)'
    PROVE  IInv'
<1> USE DEF IInv
<1>1. ThreadsOK'
  <2>1. ASSUME NEW u \in Threads \ {g} PROVE ThreadOK(u)'
    <3>1. th'[u] = th[u] /\ ThreadOK(u) BY DEF Moves, ThreadsOK
    <3> QED BY <3>1 DEF ThreadOK
  <2> QED BY <2>1 DEF ThreadsOK, Moves
<1>2. ASSUME Quiet PROVE \A u \in Threads : RemovalOK(u)'
  <2>1. ASSUME NEW u \in Threads \ {g} PROVE RemovalOK(u)'
    <3>1. /\ th'[u] = th[u] /\ RemovalOK(u) /\ ThreadOK(u) /\ Shrinks
      BY <1>2 DEF Moves, RemovalsOK, ThreadsOK
    <3>2. th[u].pc # "idle" => th[u].id # None
      BY <3>1, ReferenceAssumption DEF ThreadOK
    <3> QED BY <3>1, <3>2 DEF RemovalOK, Shrinks
  <2> QED BY <1>2, <2>1
<1>3. RemovalsOK'
  <2>1. Quiet' = Quiet BY DEF Quiet
  <2> QED BY <1>2, <2>1 DEF RemovalsOK
<1> QED BY <1>1, <1>3

\* A step that only looks, or changes layers and containers
LEMMA LookStep ==
    ASSUME IInv, NEW g \in Threads, Moves(g), ThreadOK(g)',
           UNCHANGED <<images, content, parent, refVars, config>>,
           used' \subseteq Images, Quiet => RemovalOK(g)'
    PROVE  IInv'
<1> USE DEF IInv
<1>1. StoresOK' BY DEF StoresOK
<1>2. RefsTypeOK' /\ IndexesAgree' BY DEF RefsTypeOK, IndexesAgree, refVars
<1>3. Quiet => TableOK' /\ Shrinks
  BY DEF Shrinks, RemovalsOK, TableOK, refVars
<1> QED BY <1>1, <1>2, <1>3, ThreadStep

\* A step after which the call is over
LEMMA IdleOK ==
    ASSUME NEW g \in Threads, th'[g].pc = "idle"
    PROVE  ThreadOK(g)' /\ RemovalOK(g)'
BY DEF ThreadOK, RemovalOK

----------------------------------------------------------------------------
(* Calls begin                                                             *)

LEMMA CallBegins ==
    ASSUME IInv, NEW g \in Threads, NEW call \in Thread, Begin(g, call),
           call.pc \in {"refs", "set", "oldTag", "setParent", "tag", "mount"},
           call.id \in Images,
           call.op = "pull" \/ call.pc = "tag" => call.ref \in Refs,
           call.pc = "oldTag" => call.op = "pull",
           call.pc \in {"set", "tag"} => call.op \in Taggers,
           UNCHANGED <<images, content, parent, refVars, config>>,
           used' \subseteq Images
    PROVE  IInv'
<1>1. Moves(g) /\ th'[g] = call /\ call.op \in config.ops
  BY BeginMoves DEF IInv, ThreadsOK
<1>2. ThreadOK(g)' /\ RemovalOK(g)' BY <1>1 DEF ThreadOK, RemovalOK, Taggers
<1> QED BY <1>1, <1>2, LookStep

\* The records that calls begin with
LEMMA CallIsThread ==
    ASSUME th \in [Threads -> Thread], NEW g \in Threads, At(g, "idle"),
           th[g].calls < MaxCalls, NEW op \in Operations, NEW l \in Labels
    PROVE  /\ Call(g, op, l) \in Thread
           /\ Call(g, op, l).pc = l /\ Call(g, op, l).op = op
<1>1. th[g].calls + 1 \in 0 .. MaxCalls BY ThreadFields, DaemonAssumption
<1>2. Idle(th[g].calls + 1) \in Thread BY <1>1, IdleIsThread
<1> DEFINE x == Idle(th[g].calls + 1)
<1> HIDE DEF x
<1>3. x \in Thread BY <1>2 DEF x
<1>4. /\ [x EXCEPT !.pc = l, !.op = op] \in Thread
      /\ [x EXCEPT !.pc = l, !.op = op].pc = l
      /\ [x EXCEPT !.pc = l, !.op = op].op = op
  BY <1>3 DEF Thread
<1> QED BY <1>4 DEF Call, x

LEMMA ImageDeleteStep ==
    ASSUME IInv, NEW g \in Threads, ImageDelete(g)
    PROVE  IInv'
<1> USE DEF Operations, Labels
<1>0. /\ th \in [Threads -> Thread] /\ content \subseteq Images
      /\ \A r \in Refs : repositories[r] # None => repositories[r] \in Images
  BY DEF IInv, ThreadsOK, StoresOK, RefsTypeOK
<1>1. UNCHANGED <<images, content, parent, refVars, config>> /\ used' \subseteq Images
  BY DEF ImageDelete, imageVars, world, IInv, StoresOK
<1>2. PICK force \in BOOLEAN, prune \in BOOLEAN :
        \/ \E id \in content :
             Begin(g, [Call(g, "rmi", "refs") EXCEPT
                           !.id = id, !.force = force, !.prune = prune])
        \/ \E r \in Refs :
             /\ repositories[r] # None
             /\ Begin(g, [Call(g, "rmi", "refs") EXCEPT
                              !.id = repositories[r], !.ref = r,
                              !.force = force, !.prune = prune])
  BY DEF ImageDelete
<1>3. PICK x : x = Call(g, "rmi", "refs") OBVIOUS
<1>4. x \in Thread /\ x.pc = "refs" /\ x.op = "rmi"
  <2>1. At(g, "idle") /\ th[g].calls < MaxCalls BY <1>2 DEF Begin
  <2> QED BY <1>0, <1>3, <2>1, CallIsThread
<1>5. CASE \E id \in content :
             Begin(g, [Call(g, "rmi", "refs") EXCEPT
                           !.id = id, !.force = force, !.prune = prune])
  <2>1. PICK id \in content : Begin(g, [Call(g, "rmi", "refs") EXCEPT
                                          !.id = id, !.force = force, !.prune = prune])
    BY <1>5
  <2>2. PICK call : call = [x EXCEPT !.id = id, !.force = force, !.prune = prune] OBVIOUS
  <2>3. call \in Thread /\ call.pc = "refs" /\ call.op = "rmi" /\ call.id \in Images
    BY <1>0, <1>4, <2>2 DEF Thread
  <2>4. Begin(g, call) BY <1>3, <2>1, <2>2
  <2> QED BY <1>1, <2>3, <2>4, CallBegins
<1>6. CASE \E r \in Refs :
             /\ repositories[r] # None
             /\ Begin(g, [Call(g, "rmi", "refs") EXCEPT
                              !.id = repositories[r], !.ref = r,
                              !.force = force, !.prune = prune])
  <2>1. PICK r \in Refs :
             /\ repositories[r] # None
             /\ Begin(g, [Call(g, "rmi", "refs") EXCEPT
                              !.id = repositories[r], !.ref = r,
                              !.force = force, !.prune = prune])
    BY <1>6
  <2>2. PICK id \in Images : id = repositories[r] BY <1>0, <2>1
  <2>3. PICK call : call = [x EXCEPT !.id = id, !.ref = r,
                                     !.force = force, !.prune = prune]
    OBVIOUS
  <2>4. call \in Thread /\ call.pc = "refs" /\ call.op = "rmi" /\ call.id \in Images
    BY <1>4, <2>3 DEF Thread
  <2>5. Begin(g, call) BY <1>3, <2>1, <2>2, <2>3
  <2> QED BY <1>1, <2>4, <2>5, CallBegins
<1> QED BY <1>2, <1>5, <1>6

LEMMA CreationBegins ==
    ASSUME IInv, NEW g \in Threads,
           Commit(g) \/ RestoreCached(g) \/ Reparent(g) \/ ContainerCreate(g)
    PROVE  IInv'
<1> USE DEF Operations, Labels
<1>0. /\ th \in [Threads -> Thread] /\ used \subseteq Images /\ content \subseteq Images
      /\ \A id \in Images : Bases[id] \subseteq Images
  BY DaemonAssumption DEF IInv, ThreadsOK, StoresOK
<1>1. CASE Commit(g)
  <2>1. PICK id \in Images, p \in Images :
          /\ Begin(g, [Call(g, "commit", "set") EXCEPT
                          !.id = id, !.par = p, !.hold = TRUE])
          /\ HoldLayer(id) /\ used' = used \cup {id}
    BY <1>0, <1>1 DEF Commit
  <2>2. UNCHANGED <<images, content, parent, refVars, config>>
    BY <1>1, <2>1 DEF Commit, HoldLayer
  <2>3. PICK x : x = Call(g, "commit", "set") OBVIOUS
  <2>4. x \in Thread /\ x.pc = "set" /\ x.op = "commit"
    BY <1>0, <2>1, <2>3, CallIsThread DEF Begin
  <2>5. PICK call : call = [x EXCEPT !.id = id, !.par = p, !.hold = TRUE] OBVIOUS
  <2>6. call \in Thread /\ call.pc = "set" /\ call.op = "commit" /\ call.id = id
    BY <2>4, <2>5 DEF Thread
  <2>7. Begin(g, call) BY <2>1, <2>3, <2>5
  <2> QED BY <1>0, <2>1, <2>2, <2>6, <2>7, CallBegins DEF Taggers
<1>2. CASE RestoreCached(g)
  <2>1. PICK id \in Images, p \in Images :
          /\ Begin(g, [Call(g, "cached", "set") EXCEPT !.id = id, !.par = p])
          /\ used' = used \cup {id}
    BY <1>0, <1>2 DEF RestoreCached
  <2>2. UNCHANGED <<images, content, parent, refVars, config>>
    BY <1>2 DEF RestoreCached, imageVars
  <2>3. PICK x : x = Call(g, "cached", "set") OBVIOUS
  <2>4. x \in Thread /\ x.pc = "set" /\ x.op = "cached"
    BY <1>0, <2>1, <2>3, CallIsThread DEF Begin
  <2>5. PICK call : call = [x EXCEPT !.id = id, !.par = p] OBVIOUS
  <2>6. call \in Thread /\ call.pc = "set" /\ call.op = "cached" /\ call.id = id
    BY <2>4, <2>5 DEF Thread
  <2>7. Begin(g, call) BY <2>1, <2>3, <2>5
  <2> QED BY <1>0, <2>1, <2>2, <2>6, <2>7, CallBegins DEF Taggers
<1>3. CASE Reparent(g)
  <2>1. PICK id \in Images, p \in Images :
          Begin(g, [Call(g, "reparent", "setParent") EXCEPT !.id = id, !.par = p])
    BY <1>0, <1>3 DEF Reparent
  <2>2. UNCHANGED <<images, content, parent, refVars, config, used>>
    BY <1>3 DEF Reparent, imageVars, world
  <2>3. PICK x : x = Call(g, "reparent", "setParent") OBVIOUS
  <2>4. x \in Thread /\ x.pc = "setParent" /\ x.op = "reparent"
    BY <1>0, <2>1, <2>3, CallIsThread DEF Begin
  <2>5. PICK call : call = [x EXCEPT !.id = id, !.par = p] OBVIOUS
  <2>6. call \in Thread /\ call.pc = "setParent" /\ call.op = "reparent" /\ call.id = id
    BY <2>4, <2>5 DEF Thread
  <2>7. Begin(g, call) BY <2>1, <2>3, <2>5
  <2> QED BY <1>0, <2>2, <2>6, <2>7, CallBegins
<1>4. CASE ContainerCreate(g)
  <2>1. PICK id \in Images : Begin(g, [Call(g, "container", "mount") EXCEPT !.id = id])
    BY <1>0, <1>4 DEF ContainerCreate
  <2>2. UNCHANGED <<images, content, parent, refVars, config, used>>
    BY <1>4 DEF ContainerCreate, imageVars, world
  <2>3. PICK x : x = Call(g, "container", "mount") OBVIOUS
  <2>4. x \in Thread /\ x.pc = "mount" /\ x.op = "container"
    BY <1>0, <2>1, <2>3, CallIsThread DEF Begin
  <2>5. PICK call : call = [x EXCEPT !.id = id] OBVIOUS
  <2>6. call \in Thread /\ call.pc = "mount" /\ call.op = "container" /\ call.id = id
    BY <2>4, <2>5 DEF Thread
  <2>7. Begin(g, call) BY <2>1, <2>3, <2>5
  <2> QED BY <1>0, <2>2, <2>6, <2>7, CallBegins
<1> QED BY <1>1, <1>2, <1>3, <1>4

LEMMA TaggingBegins ==
    ASSUME IInv, NEW g \in Threads, Pull(g) \/ TagImage(g)
    PROVE  IInv'
<1> USE DEF Operations, Labels
<1>0. /\ th \in [Threads -> Thread] /\ used \subseteq Images /\ content \subseteq Images
  BY DEF IInv, ThreadsOK, StoresOK
<1>1. CASE Pull(g)
  <2>1. PICK id \in Images, r \in Refs :
          \/ /\ Begin(g, [Call(g, "pull", "oldTag") EXCEPT !.id = id, !.ref = r])
             /\ UNCHANGED <<imageVars, used>>
          \/ /\ Begin(g, [Call(g, "pull", "set") EXCEPT
                                !.id = id, !.ref = r, !.hold = TRUE])
             /\ HoldLayer(id)
             /\ used' = used \cup {id}
    BY <1>1 DEF Pull
  <2>2. UNCHANGED <<refVars, config>> BY <1>1 DEF Pull
  <2>3. CASE /\ Begin(g, [Call(g, "pull", "oldTag") EXCEPT !.id = id, !.ref = r])
             /\ UNCHANGED <<imageVars, used>>
    <3>1. PICK x : x = Call(g, "pull", "oldTag") OBVIOUS
    <3>2. x \in Thread /\ x.pc = "oldTag" /\ x.op = "pull"
      BY <1>0, <2>3, <3>1, CallIsThread DEF Begin
    <3>3. PICK call : call = [x EXCEPT !.id = id, !.ref = r] OBVIOUS
    <3>4. call \in Thread /\ call.pc = "oldTag" /\ call.op = "pull" /\ call.id = id /\ call.ref = r
      BY <3>2, <3>3 DEF Thread
    <3>5. Begin(g, call) BY <2>3, <3>1, <3>3
    <3> QED BY <1>0, <2>2, <2>3, <3>4, <3>5, CallBegins DEF imageVars
  <2>4. CASE /\ Begin(g, [Call(g, "pull", "set") EXCEPT
                                !.id = id, !.ref = r, !.hold = TRUE])
             /\ HoldLayer(id)
             /\ used' = used \cup {id}
    <3>1. PICK x : x = Call(g, "pull", "set") OBVIOUS
    <3>2. x \in Thread /\ x.pc = "set" /\ x.op = "pull"
      BY <1>0, <2>4, <3>1, CallIsThread DEF Begin
    <3>3. PICK call : call = [x EXCEPT !.id = id, !.ref = r, !.hold = TRUE] OBVIOUS
    <3>4. call \in Thread /\ call.pc = "set" /\ call.op = "pull" /\ call.id = id /\ call.ref = r
      BY <3>2, <3>3 DEF Thread
    <3>5. Begin(g, call) BY <2>4, <3>1, <3>3
    <3>6. UNCHANGED <<images, content, parent>> /\ used' \subseteq Images
      BY <1>0, <2>4 DEF HoldLayer
    <3> QED BY <2>2, <3>6, <3>4, <3>5, CallBegins DEF Taggers
  <2> QED BY <2>1, <2>3, <2>4
<1>2. CASE TagImage(g)
  <2>1. PICK id \in Images, r \in Refs :
          Begin(g, [Call(g, "tag", "tag") EXCEPT !.id = id, !.ref = r])
    BY <1>0, <1>2 DEF TagImage
  <2>2. UNCHANGED <<images, content, parent, refVars, config, used>>
    BY <1>2 DEF TagImage, imageVars, world
  <2>3. PICK x : x = Call(g, "tag", "tag") OBVIOUS
  <2>4. x \in Thread /\ x.pc = "tag" /\ x.op = "tag"
    BY <1>0, <2>1, <2>3, CallIsThread DEF Begin
  <2>5. PICK call : call = [x EXCEPT !.id = id, !.ref = r] OBVIOUS
  <2>6. call \in Thread /\ call.pc = "tag" /\ call.op = "tag" /\ call.id = id /\ call.ref = r
    BY <2>4, <2>5 DEF Thread
  <2>7. Begin(g, call) BY <2>1, <2>3, <2>5
  <2> QED BY <1>0, <2>2, <2>6, <2>7, CallBegins DEF Taggers
<1> QED BY <1>1, <1>2

----------------------------------------------------------------------------
(* Removal looks around                                                    *)

LEMMA RmRefsStep ==
    ASSUME IInv, NEW g \in Threads, RmRefs(g)
    PROVE  IInv'
<1>0. /\ th \in [Threads -> Thread] /\ th[g].pc = "refs" /\ ThreadOK(g)
      /\ UNCHANGED <<images, content, parent, refVars, config>> /\ used' \subseteq Images
      /\ References(Id(g)) \subseteq Refs
  BY DEF RmRefs, At, imageVars, world, IInv, ThreadsOK, StoresOK, RefsTypeOK,
         References, Id, ThreadOK
<1>1. CASE th[g].ref # None
  <2>1. PICK l \in {"inUse", "untag"} : Goto(g, l) BY <1>1 DEF RmRefs
  <2>2. Moves(g) /\ Keeps(g) /\ th'[g].pc = l BY <1>0, <2>1, GotoMoves DEF Labels
  <2>3. th[g].ref \in Refs BY <1>0, <1>1, ThreadFields
  <2>4. ThreadOK(g)' /\ RemovalOK(g)'
    BY <1>0, <2>2, <2>3 DEF ThreadOK, RemovalOK, Keeps
  <2> QED BY <1>0, <2>2, <2>4, LookStep
<1>2. CASE th[g].ref = None
  <2>1. PICK R \in SUBSET Refs :
          th' = [th EXCEPT ![g] = [th[g] EXCEPT !.pc = "children", !.refs = R]]
    BY <1>0, <1>2 DEF RmRefs
  <2>2. PICK x : x = [th[g] EXCEPT !.pc = "children", !.refs = R] OBVIOUS
  <2>3. "children" \in Labels BY DEF Labels, Checks
  <2>4. /\ x \in Thread /\ x.pc = "children" /\ x.id = th[g].id /\ x.op = th[g].op
        /\ x.ref = th[g].ref
    BY <1>0, <2>2, <2>3, ThreadFields DEF Thread
  <2>5. Moves(g) /\ th'[g] = x BY <1>0, <2>1, <2>2, <2>4 DEF Moves
  <2>6. ThreadOK(g)' /\ RemovalOK(g)'
    BY <1>0, <2>4, <2>5 DEF ThreadOK, RemovalOK
  <2> QED BY <1>0, <2>5, <2>6, LookStep
<1> QED BY <1>1, <1>2

LEMMA RmInUseStep ==
    ASSUME IInv, NEW g \in Threads, RmInUse(g)
    PROVE  IInv'
<1>0. /\ th \in [Threads -> Thread] /\ th[g].pc = "inUse" /\ ThreadOK(g)
      /\ UNCHANGED <<images, content, parent, refVars, config>> /\ used' \subseteq Images
      /\ Goto(g, "untag") \/ Return(g)
  BY DEF RmInUse, At, imageVars, world, IInv, ThreadsOK, StoresOK, GotoIf
<1>1. CASE Goto(g, "untag")
  <2>1. Moves(g) /\ Keeps(g) /\ th'[g].pc = "untag"
    BY <1>0, <1>1, GotoMoves DEF Labels
  <2>2. ThreadOK(g)' /\ RemovalOK(g)' BY <1>0, <2>1 DEF ThreadOK, RemovalOK, Keeps
  <2> QED BY <1>0, <2>1, <2>2, LookStep
<1>2. CASE Return(g) BY <1>0, <1>2, ReturnMoves, IdleOK, LookStep
<1> QED BY <1>0, <1>1, <1>2

\* RmRefsAfter and RmAllRefs choose references to remove; the latter all that
\* there are, since the indexes agree.
LEMMA RmLoopBegins ==
    ASSUME IInv, NEW g \in Threads, RmRefsAfter(g) \/ RmAllRefs(g)
    PROVE  IInv'
<1>0. /\ th \in [Threads -> Thread] /\ th[g].pc \in {"refsAfter", "allRefs"}
      /\ ThreadOK(g)
      /\ UNCHANGED <<images, content, parent, refVars, config>> /\ used' \subseteq Images
  <2>1. th \in [Threads -> Thread] /\ ThreadOK(g) /\ used \subseteq Images
    BY DEF IInv, ThreadsOK, StoresOK
  <2>2. th[g].pc \in {"refsAfter", "allRefs"} BY DEF RmRefsAfter, RmAllRefs, At
  <2>3. UNCHANGED <<imageVars, refVars, world>> BY DEF RmRefsAfter, RmAllRefs
  <2> QED BY <2>1, <2>2, <2>3 DEF imageVars, world
<1>1. th[g].id \in Images /\ References(Id(g)) \subseteq Refs
  <2>1. th[g].id \in Images BY <1>0 DEF ThreadOK
  <2>2. referencesByIDCache \in [Images -> SUBSET Refs] BY DEF IInv, RefsTypeOK
  <2> QED BY <2>1, <2>2 DEF References, Id
<1>2. PICK R \in SUBSET Refs, n \in {"children", "idle", "delete"} :
        /\ th' = [th EXCEPT ![g] = [th[g] EXCEPT !.pc = "untagEach", !.refs = R,
                                                  !.next = n]]
        /\ n = "delete" => R = References(Id(g))
  <2>1. CASE RmRefsAfter(g)
    <3> DEFINE ref == th[g].ref
               refs == References(Id(g))
               same == {r \in refs : NameOf[r] = NameOf[ref]}
               digests == IF ref \in Canonical \/ ~(same \subseteq Canonical)
                          THEN {} ELSE same
               n == IF refs = digests THEN "children" ELSE "idle"
    <3>1. digests \in SUBSET Refs /\ n \in {"children", "idle"} BY <1>1
    <3>2. th' = [th EXCEPT ![g] = [th[g] EXCEPT !.pc = "untagEach", !.refs = digests,
                                                !.next = n]]
      BY <2>1 DEF RmRefsAfter
    <3> HIDE DEF digests, n
    <3> QED BY <3>1, <3>2
  <2>2. CASE RmAllRefs(g) BY <1>1, <2>2 DEF RmAllRefs
  <2> QED BY <2>1, <2>2
<1>3. PICK x : x = [th[g] EXCEPT !.pc = "untagEach", !.refs = R, !.next = n] OBVIOUS
<1>4. /\ x \in Thread /\ x.pc = "untagEach" /\ x.id = th[g].id /\ x.op = th[g].op
      /\ x.ref = th[g].ref /\ x.refs = R /\ x.next = n
  <2>1. PICK y \in Thread : y = th[g] BY <1>0
  <2> QED BY <1>0, <1>3, <2>1, InLabels DEF Thread
<1>5. Moves(g) /\ th'[g] = x BY <1>0, <1>2, <1>3, <1>4 DEF Moves
<1>6. ThreadOK(g)' BY <1>0, <1>2, <1>4, <1>5 DEF ThreadOK
<1>7. RemovalOK(g)'
  <2>1. \A r \in Refs : repositories[r] = th[g].id => r \in References(Id(g))
    BY <1>1 DEF IInv, IndexesAgree, References, Id
  <2> QED BY <1>0, <1>2, <1>4, <1>5, <2>1 DEF RemovalOK, refVars
<1> QED BY <1>0, <1>5, <1>6, <1>7, LookStep

LEMMA RmCheckStep ==
    ASSUME IInv, NEW g \in Threads, RmCheck(g)
    PROVE  IInv'
<1>0. /\ th \in [Threads -> Thread]
      /\ UNCHANGED <<images, content, parent, refVars, config>> /\ used' \subseteq Images
  BY DEF RmCheck, imageVars, world, IInv, ThreadsOK, StoresOK
<1>1. /\ th[g].pc \in {"children", "running", "references", "stopped"}
      /\ \/ Return(g)
         \/ \E l \in {"running", "references", "stopped", "parent"} : Goto(g, l)
         \/ th' = [th EXCEPT ![g].pc = "untagEach", ![g].next = "children"]
  <2>1. PICK i \in 1 .. 4 :
         /\ At(g, Checks[i])
         /\ IF Checks[i] \in Mask(g) /\ InConflict(Checks[i], Id(g)) THEN Return(g)
            ELSE IF i < 4 THEN Goto(g, Checks[i + 1])
            ELSE IF th[g].refs # {}
                 THEN th' = [th EXCEPT ![g].pc = "untagEach", ![g].next = "children"]
                 ELSE Goto(g, "parent")
    BY DEF RmCheck
  <2>2. /\ Checks[i] \in {"children", "running", "references", "stopped"}
        /\ i < 4 => Checks[i + 1] \in {"running", "references", "stopped"}
    BY DEF Checks
  <2> QED BY <2>1, <2>2 DEF At
<1>2. ThreadOK(g) BY DEF IInv, ThreadsOK
<1>3. CASE Return(g) BY <1>0, <1>3, ReturnMoves, IdleOK, LookStep
<1>4. CASE \E l \in {"running", "references", "stopped", "parent"} : Goto(g, l)
  <2>1. PICK l \in {"running", "references", "stopped", "parent"} : Goto(g, l) BY <1>4
  <2>2. l \in Labels BY DEF Labels, Checks
  <2>3. Moves(g) /\ Keeps(g) /\ th'[g].pc = l BY <1>0, <2>1, <2>2, GotoMoves
  <2>4. ThreadOK(g)' /\ RemovalOK(g)'
    BY <1>0, <1>1, <1>2, <2>3 DEF ThreadOK, RemovalOK, Keeps
  <2> QED BY <1>0, <2>3, <2>4, LookStep
<1>5. CASE th' = [th EXCEPT ![g].pc = "untagEach", ![g].next = "children"]
  <2>1. PICK x : x = [th[g] EXCEPT !.pc = "untagEach", !.next = "children"] OBVIOUS
  <2>2. /\ x \in Thread /\ x.pc = "untagEach" /\ x.id = th[g].id /\ x.op = th[g].op
        /\ x.ref = th[g].ref /\ x.next = "children"
    <3>1. PICK y \in Thread : y = th[g] BY <1>0
    <3> QED BY <1>0, <2>1, <3>1, InLabels DEF Thread
  <2>3. th' = [th EXCEPT ![g] = x] BY <1>5, <2>1
  <2>4. Moves(g) /\ th'[g] = x BY <1>0, <2>2, <2>3 DEF Moves
  <2>5. ThreadOK(g)' /\ RemovalOK(g)'
    BY <1>0, <1>1, <1>2, <2>2, <2>4 DEF ThreadOK, RemovalOK
  <2> QED BY <1>0, <2>4, <2>5, LookStep
<1> QED BY <1>1, <1>3, <1>4, <1>5

LEMMA RmParentStep ==
    ASSUME IInv, NEW g \in Threads, RmParent(g)
    PROVE  IInv'
<1>0. /\ th \in [Threads -> Thread] /\ th[g].pc = "parent" /\ ThreadOK(g)
      /\ UNCHANGED <<images, content, parent, refVars, config>> /\ used' \subseteq Images
      /\ GetParent(Id(g)) \in Images \cup {None}
  BY DEF RmParent, At, imageVars, world, IInv, ThreadsOK, StoresOK, GetParent, Id, ThreadOK
<1>1. PICK p \in Images \cup {None} : p = GetParent(Id(g)) BY <1>0
<1>2. PICK x : x = [th[g] EXCEPT !.pc = "allRefs", !.par = p] OBVIOUS
<1>3. /\ x \in Thread /\ x.pc = "allRefs" /\ x.id = th[g].id /\ x.op = th[g].op
      /\ x.ref = th[g].ref
  <2>1. PICK y \in Thread : y = th[g] BY <1>0
  <2> QED BY <1>0, <1>2, <2>1, InLabels DEF Thread
<1>4. th' = [th EXCEPT ![g] = x] BY <1>1, <1>2 DEF RmParent
<1>5. Moves(g) /\ th'[g] = x BY <1>0, <1>3, <1>4 DEF Moves
<1>6. ThreadOK(g)' /\ RemovalOK(g)' BY <1>0, <1>3, <1>5 DEF ThreadOK, RemovalOK
<1> QED BY <1>0, <1>5, <1>6, LookStep

----------------------------------------------------------------------------
(* The reference store                                                     *)

\* Forgotten takes a reference out of the index where the other one has it.
LEMMA ForgottenEntries ==
    ASSUME RefsTypeOK, IndexesAgree, NEW ref \in Refs
    PROVE  /\ Forgotten(ref) \in [Images -> SUBSET Refs]
           /\ \A id \in Images, r \in Refs :
                r \in Forgotten(ref)[id] <=> r # ref /\ repositories[r] = id
<1> USE ReferenceAssumption DEF RefsTypeOK, IndexesAgree
<1>1. CASE repositories[ref] = None BY <1>1 DEF Forgotten
<1>2. CASE repositories[ref] # None
  <2>1. repositories[ref] \in Images BY <1>2
  <2> QED BY <1>2, <2>1 DEF Forgotten
<1> QED BY <1>1, <1>2

LEMMA DeleteRefEntries ==
    ASSUME RefsTypeOK, IndexesAgree, NEW ref \in Refs, NEW ok \in BOOLEAN,
           DeleteRef(ref, ok)
    PROVE  /\ RefsTypeOK' /\ IndexesAgree'
           /\ repositories' = [repositories EXCEPT ![ref] = None]
           /\ ok => jsonFile' = repositories'
<1>1. /\ repositories' = [repositories EXCEPT ![ref] = None]
      /\ referencesByIDCache' = Forgotten(ref)
      /\ jsonFile' = IF ok THEN repositories' ELSE jsonFile
  BY DEF DeleteRef, save
<1>2. RefsTypeOK' BY <1>1, ForgottenEntries DEF RefsTypeOK
<1>3. IndexesAgree'
  BY <1>1, ForgottenEntries, ReferenceAssumption DEF IndexesAgree, RefsTypeOK
<1> QED BY <1>1, <1>2, <1>3

LEMMA AddReferenceEntries ==
    ASSUME RefsTypeOK, IndexesAgree, NEW ref \in Refs, NEW id \in Images,
           NEW ok \in BOOLEAN, addReference(ref, id, ok)
    PROVE  RefsTypeOK' /\ IndexesAgree'
<1>1. /\ repositories' = [repositories EXCEPT ![ref] = id]
      /\ referencesByIDCache' = [Forgotten(ref) EXCEPT ![id] = @ \cup {ref}]
      /\ jsonFile' = IF ok THEN repositories' ELSE jsonFile
  BY DEF addReference, save
<1>2. RefsTypeOK' BY <1>1, ForgottenEntries DEF RefsTypeOK
<1>3. IndexesAgree'
  <2>1. ASSUME NEW i \in Images, NEW r \in Refs
        PROVE  r \in referencesByIDCache'[i] <=> repositories'[r] = i
    <3>1. r \in Forgotten(ref)[i] <=> r # ref /\ repositories[r] = i
      BY ForgottenEntries
    <3>2. repositories'[r] = IF r = ref THEN id ELSE repositories[r]
      BY <1>1 DEF RefsTypeOK
    <3>3. referencesByIDCache'[i] = IF i = id THEN Forgotten(ref)[i] \cup {ref}
                                    ELSE Forgotten(ref)[i]
      BY <1>1, ForgottenEntries
    <3> QED BY <3>1, <3>2, <3>3
  <2> QED BY <2>1 DEF IndexesAgree
<1> QED BY <1>2, <1>3

\* A reference is removed and thread g goes where it does.
LEMMA RemoveRefStep ==
    ASSUME IInv, NEW g \in Threads, NEW ref \in Refs, NEW ok \in Outcomes("save"),
           DeleteRef(ref, ok), UNCHANGED <<imageVars, world>>,
           Moves(g), ThreadOK(g)', Quiet => RemovalOK(g)'
    PROVE  IInv'
<1> USE DEF IInv
<1>0. ok \in BOOLEAN BY DEF Outcomes
<1>1. /\ RefsTypeOK' /\ IndexesAgree'
      /\ repositories' = [repositories EXCEPT ![ref] = None]
      /\ ok => jsonFile' = repositories'
  BY <1>0, DeleteRefEntries
<1>2. StoresOK' /\ config' = config BY DEF StoresOK, imageVars, world
<1>3. Shrinks BY <1>1 DEF Shrinks, imageVars, RefsTypeOK
<1>4. Quiet => TableOK'
  <2>1. Quiet => ok BY DEF Quiet, Outcomes
  <2>2. Quiet => TableOK BY DEF RemovalsOK
  <2> QED BY <1>1, <1>3, <2>1, <2>2 DEF TableOK, imageVars, RefsTypeOK, Shrinks
<1> QED BY <1>1, <1>2, <1>3, <1>4, ThreadStep

LEMMA RmUntagStep ==
    ASSUME IInv, NEW g \in Threads, RmUntag(g)
    PROVE  IInv'
<1>0. /\ th \in [Threads -> Thread] /\ th[g].pc = "untag" /\ ThreadOK(g)
      /\ UNCHANGED <<imageVars, world>> /\ th[g].ref \in Refs
  BY DEF RmUntag, At, IInv, ThreadsOK, ThreadOK
<1>1. \/ Return(g) /\ UNCHANGED refVars
      \/ \E ok \in Outcomes("save") :
           DeleteRef(th[g].ref, ok) /\ (Return(g) \/ Goto(g, "refsAfter"))
  BY DEF RmUntag, removeImageRef, Goto
<1>2. CASE Return(g) /\ UNCHANGED refVars
  BY <1>0, <1>2, ReturnMoves, IdleOK, LookStep DEF imageVars, world, IInv, StoresOK
<1>3. CASE \E ok \in Outcomes("save") :
           DeleteRef(th[g].ref, ok) /\ (Return(g) \/ Goto(g, "refsAfter"))
  <2>1. PICK ok \in Outcomes("save") :
          DeleteRef(th[g].ref, ok) /\ (Return(g) \/ Goto(g, "refsAfter"))
    BY <1>3
  <2>2. CASE Return(g) BY <1>0, <2>1, <2>2, ReturnMoves, IdleOK, RemoveRefStep
  <2>3. CASE Goto(g, "refsAfter")
    <3>1. Moves(g) /\ Keeps(g) /\ th'[g].pc = "refsAfter"
      BY <1>0, <2>3, GotoMoves DEF Labels
    <3>2. ThreadOK(g)' /\ RemovalOK(g)'
      BY <1>0, <3>1 DEF ThreadOK, RemovalOK, Keeps, world
    <3> QED BY <1>0, <2>1, <3>1, <3>2, RemoveRefStep
  <2> QED BY <2>1, <2>2, <2>3
<1> QED BY <1>1, <1>2, <1>3

LEMMA RmUntagEachStep ==
    ASSUME IInv, NEW g \in Threads, RmUntagEach(g)
    PROVE  IInv'
<1>0. /\ th \in [Threads -> Thread] /\ th[g].pc = "untagEach" /\ ThreadOK(g)
      /\ UNCHANGED <<imageVars, world>>
      /\ UNCHANGED <<images, content, parent, config>> /\ used' \subseteq Images
      /\ th[g].refs \subseteq Refs /\ th[g].next \in {"idle", "children", "delete"}
      /\ th[g].id \in Images
  <2>1. /\ th \in [Threads -> Thread] /\ th[g].pc = "untagEach" /\ ThreadOK(g)
        /\ UNCHANGED <<imageVars, world>>
    BY DEF RmUntagEach, At, IInv, ThreadsOK
  <2>2. th[g].refs \subseteq Refs /\ th[g].next \in {"idle", "children", "delete", "tag"}
    BY <2>1, ThreadFields
  <2> QED BY <2>1, <2>2 DEF ThreadOK, imageVars, world, IInv, StoresOK
<1>1. \/ Return(g) /\ UNCHANGED refVars
      \/ th[g].refs = {} /\ Goto(g, th[g].next) /\ UNCHANGED refVars /\ th[g].next # "idle"
      \/ \E ref \in th[g].refs, ok \in Outcomes("save") :
           /\ DeleteRef(ref, ok)
           /\ Return(g) \/ th' = [th EXCEPT ![g].refs = @ \ {ref}]
  BY DEF RmUntagEach, removeImageRef, GotoIf
<1>2. CASE Return(g) /\ UNCHANGED refVars
  BY <1>0, <1>2, ReturnMoves, IdleOK, LookStep
<1>3. CASE /\ th[g].refs = {} /\ Goto(g, th[g].next) /\ UNCHANGED refVars
           /\ th[g].next # "idle"
  <2>1. PICK l \in {"children", "delete"} : l = th[g].next BY <1>0, <1>3
  <2>2. l \in Labels BY DEF Labels, Checks
  <2>3. Moves(g) /\ Keeps(g) /\ th'[g].pc = l BY <1>0, <1>3, <2>1, <2>2, GotoMoves
  <2>4. ThreadOK(g)' BY <1>0, <2>3 DEF ThreadOK, Keeps
  <2>5. Quiet => RemovalOK(g)'
    <3>1. Quiet => RemovalOK(g) BY DEF IInv, RemovalsOK
    <3> QED BY <1>0, <1>3, <2>1, <2>3, <3>1 DEF RemovalOK, Keeps, refVars
  <2> QED BY <1>0, <1>3, <2>3, <2>4, <2>5, LookStep
<1>4. CASE \E ref \in th[g].refs, ok \in Outcomes("save") :
             /\ DeleteRef(ref, ok)
             /\ Return(g) \/ th' = [th EXCEPT ![g].refs = @ \ {ref}]
  <2>1. PICK ref \in Refs, ok \in Outcomes("save") :
          /\ DeleteRef(ref, ok)
          /\ Return(g) \/ th' = [th EXCEPT ![g].refs = @ \ {ref}]
    BY <1>0, <1>4
  <2>2. CASE Return(g) BY <1>0, <2>1, <2>2, ReturnMoves, IdleOK, RemoveRefStep
  <2>3. CASE th' = [th EXCEPT ![g].refs = @ \ {ref}]
    <3>1. PICK x : x = [th[g] EXCEPT !.refs = th[g].refs \ {ref}] OBVIOUS
    <3>2. /\ x \in Thread /\ x.pc = th[g].pc /\ x.id = th[g].id /\ x.op = th[g].op
          /\ x.ref = th[g].ref /\ x.next = th[g].next /\ x.refs = th[g].refs \ {ref}
      BY <1>0, <3>1, ThreadFields DEF Thread
    <3>3. th' = [th EXCEPT ![g] = x] BY <2>3, <3>1
    <3>4. Moves(g) /\ th'[g] = x BY <1>0, <3>2, <3>3 DEF Moves
    <3>5. ThreadOK(g)' BY <1>0, <3>2, <3>4 DEF ThreadOK
    <3>6. Quiet => RemovalOK(g)'
      <4>1. Quiet => RemovalOK(g) BY DEF IInv, RemovalsOK
      <4>2. \A r \in Refs : repositories'[r] = IF r = ref THEN None ELSE repositories[r]
        BY <2>1 DEF DeleteRef, IInv, RefsTypeOK
      <4>3. th[g].id # None BY <1>0, ReferenceAssumption
      <4> QED BY <1>0, <3>2, <3>4, <4>1, <4>2, <4>3 DEF RemovalOK
    <3> QED BY <1>0, <2>1, <3>4, <3>5, <3>6, RemoveRefStep
  <2> QED BY <2>1, <2>2, <2>3
<1> QED BY <1>1, <1>2, <1>3, <1>4

----------------------------------------------------------------------------
(* The image store                                                         *)

\* Delete takes an image that nothing refers to.
LEMMA RmDeleteStep ==
    ASSUME IInv, NEW g \in Threads, RmDelete(g)
    PROVE  IInv'
<1>0. /\ th \in [Threads -> Thread] /\ th[g].pc = "delete" /\ ThreadOK(g)
      /\ UNCHANGED <<refVars, world>> /\ config' = config /\ used' \subseteq Images
      /\ th[g].id \in Images
  BY DEF RmDelete, At, world, IInv, ThreadsOK, StoresOK, ThreadOK
<1>1. CASE Return(g) /\ UNCHANGED imageVars
  BY <1>0, <1>1, ReturnMoves, IdleOK, LookStep DEF imageVars
<1>2. CASE DeleteBegin(Id(g)) /\ Goto(g, "deleteFiles")
  <2>1. Moves(g) /\ Keeps(g) /\ th'[g].pc = "deleteFiles"
    BY <1>0, <1>2, GotoMoves DEF Labels
  <2>2. ThreadOK(g)' BY <1>0, <2>1 DEF ThreadOK, Keeps
  <2>3. /\ images' = images \ {th[g].id} /\ content' = content
        /\ parent' = [i \in Images |-> IF i \in children[th[g].id] THEN None ELSE parent[i]]
    BY <1>2 DEF DeleteBegin, Id
  <2>4. StoresOK' BY <1>0, <2>3 DEF IInv, StoresOK
  <2>5. RefsTypeOK' /\ IndexesAgree' /\ UNCHANGED <<repositories, jsonFile>>
    BY <1>0 DEF IInv, RefsTypeOK, IndexesAgree, refVars
  <2>6. RemovalOK(g)' BY <2>1, <2>3 DEF RemovalOK, Keeps
  <2>7. Shrinks BY <2>3, <2>5 DEF Shrinks
  <2>8. Quiet => TableOK'
    <3>1. Quiet => TableOK /\ \A r \in Refs : repositories[r] # th[g].id
      BY <1>0 DEF IInv, RemovalsOK, RemovalOK
    <3> QED BY <2>3, <2>5, <3>1 DEF TableOK
  <2> QED BY <1>0, <2>1, <2>2, <2>4, <2>5, <2>6, <2>7, <2>8, ThreadStep
<1> QED BY <1>1, <1>2 DEF RmDelete

LEMMA RmDeleteFilesStep ==
    ASSUME IInv, NEW g \in Threads, RmDeleteFiles(g)
    PROVE  IInv'
<1>0. /\ th \in [Threads -> Thread] /\ th[g].pc = "deleteFiles" /\ ThreadOK(g)
      /\ UNCHANGED <<refVars, world>> /\ config' = config /\ used' \subseteq Images
      /\ th[g].id \in Images /\ Goto(g, "deleteEnd")
  BY DEF RmDeleteFiles, At, world, IInv, ThreadsOK, StoresOK, ThreadOK
<1>1. Moves(g) /\ Keeps(g) /\ th'[g].pc = "deleteEnd" BY <1>0, GotoMoves DEF Labels
<1>2. ThreadOK(g)' /\ RemovalOK(g)' BY <1>0, <1>1 DEF ThreadOK, Keeps, RemovalOK
<1>3. /\ images' = images
      /\ content' \in {content, content \ {th[g].id}}
      /\ parent' \in {parent, [parent EXCEPT ![th[g].id] = None]}
  BY DEF RmDeleteFiles, DeleteFiles, Id
<1>4. StoresOK' BY <1>0, <1>3 DEF IInv, StoresOK
<1>5. RefsTypeOK' /\ IndexesAgree' /\ UNCHANGED <<repositories, jsonFile>>
  BY <1>0 DEF IInv, RefsTypeOK, IndexesAgree, refVars
<1>6. Shrinks BY <1>3, <1>5 DEF Shrinks
<1>7. Quiet => TableOK'
  <2>1. Quiet => TableOK /\ th[g].id \notin images
    BY <1>0 DEF IInv, RemovalsOK, RemovalOK
  <2> QED BY <1>3, <1>5, <2>1 DEF TableOK
<1> QED BY <1>0, <1>1, <1>2, <1>4, <1>5, <1>6, <1>7, ThreadStep

LEMMA RmDeleteEndStep ==
    ASSUME IInv, NEW g \in Threads, RmDeleteEnd(g)
    PROVE  IInv'
<1>0. /\ th \in [Threads -> Thread] /\ th[g].pc = "deleteEnd" /\ ThreadOK(g)
      /\ UNCHANGED <<images, content, parent, refVars, config>> /\ used' \subseteq Images
  BY DEF RmDeleteEnd, DeleteEnd, At, world, IInv, ThreadsOK, StoresOK
<1>1. CASE Return(g) BY <1>0, <1>1, ReturnMoves, IdleOK, LookStep
<1>2. CASE /\ th[g].par # None
           /\ th' = [th EXCEPT ![g].pc = "children", ![g].id = th[g].par,
                               ![g].force = FALSE]
  <2>1. PICK p \in Images : p = th[g].par BY <1>0, <1>2, ThreadFields
  <2>2. PICK x : x = [th[g] EXCEPT !.pc = "children", !.id = p, !.force = FALSE] OBVIOUS
  <2>3. "children" \in Labels BY DEF Labels, Checks
  <2>4. /\ x \in Thread /\ x.pc = "children" /\ x.id = p /\ x.op = th[g].op
        /\ x.ref = th[g].ref
    BY <1>0, <2>2, <2>3, ThreadFields DEF Thread
  <2>5. th' = [th EXCEPT ![g] = x] BY <1>2, <2>1, <2>2
  <2>6. Moves(g) /\ th'[g] = x BY <1>0, <2>4, <2>5 DEF Moves
  <2>7. ThreadOK(g)' /\ RemovalOK(g)' BY <1>0, <2>4, <2>6 DEF ThreadOK, RemovalOK
  <2> QED BY <1>0, <2>6, <2>7, LookStep
<1> QED BY <1>1, <1>2 DEF RmDeleteEnd

\* Creators and taggers: the setup is not quiet.
LEMMA TaggerNotQuiet ==
    ASSUME IInv, NEW g \in Threads,
           th[g].pc \in {"set", "insert", "oldTag", "addDigest", "tag"}
    PROVE  ~Quiet
<1>1. ThreadOK(g) BY DEF IInv, ThreadsOK
<1> QED BY <1>1 DEF ThreadOK, Quiet

LEMMA CreateStep ==
    ASSUME IInv, NEW g \in Threads, CreateSet(g) \/ CreateInsert(g)
    PROVE  IInv'
<1>0. /\ th \in [Threads -> Thread] /\ th[g].pc \in {"set", "insert"} /\ ThreadOK(g)
      /\ UNCHANGED <<refVars, world>> /\ config' = config /\ used' \subseteq Images
      /\ th[g].id \in Images
  BY DEF CreateSet, CreateInsert, At, world, IInv, ThreadsOK, StoresOK, ThreadOK
<1>1. /\ content' \in {content, content \cup {th[g].id}} /\ parent' = parent
      /\ images' \in {images, images \cup {th[g].id}}
  BY DEF CreateSet, CreateInsert, SetContent, Insert, imageVars, Id
<1>2. StoresOK' BY <1>0, <1>1 DEF IInv, StoresOK
<1>3. RefsTypeOK' /\ IndexesAgree'
  BY <1>0 DEF IInv, RefsTypeOK, IndexesAgree, refVars
<1>4. ~Quiet BY <1>0, TaggerNotQuiet
<1>5. \/ Return(g)
      \/ \E l \in {"setParent", "release"} : Goto(g, l)
      \/ Goto(g, "insert")
  BY DEF CreateSet, CreateInsert, Created, Finish, GotoIf
<1>6. CASE Return(g) BY <1>0, <1>2, <1>3, <1>4, <1>6, ReturnMoves, IdleOK, ThreadStep
<1>7. CASE \E l \in {"setParent", "release"} : Goto(g, l)
  <2>1. PICK l \in {"setParent", "release"} : Goto(g, l) BY <1>7
  <2>2. Moves(g) /\ Keeps(g) /\ th'[g].pc = l BY <1>0, <2>1, GotoMoves DEF Labels
  <2>3. ThreadOK(g)' BY <1>0, <2>2 DEF ThreadOK, Keeps
  <2> QED BY <1>0, <1>2, <1>3, <1>4, <2>2, <2>3, ThreadStep
<1>8. CASE Goto(g, "insert")
  <2>1. Moves(g) /\ Keeps(g) /\ th'[g].pc = "insert" BY <1>0, <1>8, GotoMoves DEF Labels
  <2>2. ThreadOK(g)' BY <1>0, <2>1 DEF ThreadOK, Keeps
  <2> QED BY <1>0, <1>2, <1>3, <1>4, <2>1, <2>2, ThreadStep
<1> QED BY <1>5, <1>6, <1>7, <1>8

LEMMA CreateSetParentStep ==
    ASSUME IInv, NEW g \in Threads, CreateSetParent(g)
    PROVE  IInv'
<1>0. /\ th \in [Threads -> Thread] /\ th[g].pc = "setParent" /\ ThreadOK(g)
      /\ UNCHANGED <<refVars, world>> /\ config' = config /\ used' \subseteq Images
      /\ th[g].id \in Images /\ images \subseteq Images
  BY DEF CreateSetParent, At, world, IInv, ThreadsOK, StoresOK, ThreadOK
<1>1. /\ images' = images /\ content' = content
      /\ \/ parent' = parent
         \/ th[g].par \in images /\ parent' = [parent EXCEPT ![th[g].id] = th[g].par]
  BY DEF CreateSetParent, SetParent, imageVars, Id
<1>2. StoresOK' BY <1>0, <1>1 DEF IInv, StoresOK
<1>3. RefsTypeOK' /\ IndexesAgree' /\ UNCHANGED <<repositories, jsonFile>>
  BY <1>0 DEF IInv, RefsTypeOK, IndexesAgree, refVars
<1>4. Quiet => TableOK' /\ Shrinks
  BY <1>1, <1>3 DEF IInv, RemovalsOK, TableOK, Shrinks
<1>5. \/ Return(g) \/ Goto(g, "release")
      \/ /\ th[g].op = "commit"
         /\ \E r \in Refs : th' = [th EXCEPT ![g].pc = "tag", ![g].ref = r]
  BY DEF CreateSetParent, Finish, GotoIf, Op
<1>6. CASE Return(g) BY <1>0, <1>2, <1>3, <1>4, <1>6, ReturnMoves, IdleOK, ThreadStep
<1>7. CASE Goto(g, "release")
  <2>1. Moves(g) /\ Keeps(g) /\ th'[g].pc = "release" BY <1>0, <1>7, GotoMoves DEF Labels
  <2>2. ThreadOK(g)' /\ RemovalOK(g)' BY <1>0, <2>1 DEF ThreadOK, Keeps, RemovalOK
  <2> QED BY <1>0, <1>2, <1>3, <1>4, <2>1, <2>2, ThreadStep
<1>8. CASE /\ th[g].op = "commit"
           /\ \E r \in Refs : th' = [th EXCEPT ![g].pc = "tag", ![g].ref = r]
  <2>1. PICK r \in Refs : th' = [th EXCEPT ![g].pc = "tag", ![g].ref = r] BY <1>8
  <2>2. PICK x : x = [th[g] EXCEPT !.pc = "tag", !.ref = r] OBVIOUS
  <2>3. /\ x \in Thread /\ x.pc = "tag" /\ x.id = th[g].id /\ x.op = th[g].op /\ x.ref = r
    <3>1. PICK y \in Thread : y = th[g] BY <1>0
    <3> QED BY <1>0, <2>2, <3>1, InLabels DEF Thread
  <2>4. th' = [th EXCEPT ![g] = x] BY <2>1, <2>2
  <2>5. Moves(g) /\ th'[g] = x BY <1>0, <2>3, <2>4 DEF Moves
  <2>6. ThreadOK(g)' /\ RemovalOK(g)'
    BY <1>0, <1>8, <2>3, <2>5 DEF ThreadOK, RemovalOK, Taggers
  <2> QED BY <1>0, <1>2, <1>3, <1>4, <2>5, <2>6, ThreadStep
<1> QED BY <1>5, <1>6, <1>7, <1>8

LEMMA PullOldTagStep ==
    ASSUME IInv, NEW g \in Threads, PullOldTag(g)
    PROVE  IInv'
<1>0. /\ th \in [Threads -> Thread] /\ th[g].pc = "oldTag" /\ ThreadOK(g)
      /\ UNCHANGED <<images, content, parent, refVars, config>> /\ used' \subseteq Images
  BY DEF PullOldTag, At, imageVars, world, IInv, ThreadsOK, StoresOK
<1>1. PICK n \in {"idle", "tag"} :
        th' = [th EXCEPT ![g].pc = "addDigest", ![g].next = n]
  BY DEF PullOldTag
<1>2. PICK x : x = [th[g] EXCEPT !.pc = "addDigest", !.next = n] OBVIOUS
<1>3. /\ x \in Thread /\ x.pc = "addDigest" /\ x.id = th[g].id /\ x.op = th[g].op
      /\ x.ref = th[g].ref
  <2>1. PICK y \in Thread : y = th[g] BY <1>0
  <2> QED BY <1>0, <1>2, <2>1, InLabels DEF Thread
<1>4. th' = [th EXCEPT ![g] = x] BY <1>1, <1>2
<1>5. Moves(g) /\ th'[g] = x BY <1>0, <1>3, <1>4 DEF Moves
<1>6. ThreadOK(g)' /\ RemovalOK(g)' BY <1>0, <1>3, <1>5 DEF ThreadOK, RemovalOK
<1> QED BY <1>0, <1>5, <1>6, LookStep

LEMMA AddingStep ==
    ASSUME IInv, NEW g \in Threads, PullAddDigest(g) \/ AddTag(g)
    PROVE  IInv'
<1>0. /\ th \in [Threads -> Thread] /\ th[g].pc \in {"addDigest", "tag"} /\ ThreadOK(g)
      /\ UNCHANGED <<images, content, parent, config>> /\ used' \subseteq Images
      /\ th[g].id \in Images /\ th[g].ref \in Refs /\ Canonical \subseteq Refs
  BY ReferenceAssumption
     DEF PullAddDigest, AddTag, At, imageVars, world, IInv, ThreadsOK, StoresOK, ThreadOK
<1>1. StoresOK' BY <1>0 DEF IInv, StoresOK
<1>2. RefsTypeOK' /\ IndexesAgree'
  <2>1. \/ UNCHANGED refVars
        \/ \E ref \in Refs, ok \in BOOLEAN : addReference(ref, th[g].id, ok)
    BY <1>0 DEF PullAddDigest, AddTag, Outcomes, Id
  <2>2. CASE UNCHANGED refVars BY <2>2 DEF IInv, RefsTypeOK, IndexesAgree, refVars
  <2>3. CASE \E ref \in Refs, ok \in BOOLEAN : addReference(ref, th[g].id, ok)
    BY <1>0, <2>3, AddReferenceEntries DEF IInv
  <2> QED BY <2>1, <2>2, <2>3
<1>3. ~Quiet BY <1>0, TaggerNotQuiet
<1>4. \/ Return(g)
      \/ \E l \in {"children", "delete", "tag", "release"} : Goto(g, l)
  <2>1. th[g].next \in {"idle", "children", "delete", "tag"} BY <1>0, ThreadFields
  <2> QED BY <2>1 DEF PullAddDigest, AddTag, Finish, GotoIf
<1>5. CASE Return(g) BY <1>0, <1>1, <1>2, <1>3, <1>5, ReturnMoves, IdleOK, ThreadStep
<1>6. CASE \E l \in {"children", "delete", "tag", "release"} : Goto(g, l)
  <2>1. PICK l \in {"children", "delete", "tag", "release"} : Goto(g, l) BY <1>6
  <2>2. l \in Labels BY DEF Labels, Checks
  <2>3. Moves(g) /\ Keeps(g) /\ th'[g].pc = l BY <1>0, <2>1, <2>2, GotoMoves
  <2>4. ThreadOK(g)' BY <1>0, <2>3 DEF ThreadOK, Keeps
  <2> QED BY <1>0, <1>1, <1>2, <1>3, <2>3, <2>4, ThreadStep
<1> QED BY <1>4, <1>5, <1>6

LEMMA CreateReleaseStep ==
    ASSUME IInv, NEW g \in Threads, CreateRelease(g)
    PROVE  IInv'
<1>0. /\ th \in [Threads -> Thread] /\ th[g].pc = "release" /\ ThreadOK(g)
      /\ UNCHANGED <<images, content, parent, refVars, config>> /\ used' \subseteq Images
  BY DEF CreateRelease, At, world, IInv, ThreadsOK, StoresOK
<1>1. CASE Return(g) BY <1>0, <1>1, ReturnMoves, IdleOK, LookStep
<1>2. CASE /\ th[g].op = "pull"
           /\ th' = [th EXCEPT ![g].pc = "oldTag", ![g].hold = FALSE]
  <2>1. PICK x : x = [th[g] EXCEPT !.pc = "oldTag", !.hold = FALSE] OBVIOUS
  <2>2. /\ x \in Thread /\ x.pc = "oldTag" /\ x.id = th[g].id /\ x.op = th[g].op
        /\ x.ref = th[g].ref
    <3>1. PICK y \in Thread : y = th[g] BY <1>0
    <3> QED BY <1>0, <2>1, <3>1, InLabels DEF Thread
  <2>3. th' = [th EXCEPT ![g] = x] BY <1>2, <2>1
  <2>4. Moves(g) /\ th'[g] = x BY <1>0, <2>2, <2>3 DEF Moves
  <2>5. ThreadOK(g)' /\ RemovalOK(g)'
    BY <1>0, <1>2, <2>2, <2>4 DEF ThreadOK, RemovalOK, Taggers
  <2> QED BY <1>0, <2>4, <2>5, LookStep
<1> QED BY <1>1, <1>2 DEF CreateRelease, Op

LEMMA ContainerStep ==
    ASSUME IInv, NEW g \in Threads, SetRWLayer(g) \/ Register(g)
    PROVE  IInv'
<1>0. /\ th \in [Threads -> Thread] /\ th[g].pc \in {"mount", "register"} /\ ThreadOK(g)
      /\ UNCHANGED <<images, content, parent, refVars, config>> /\ used' \subseteq Images
      /\ Return(g) \/ Goto(g, "register")
  BY DEF SetRWLayer, Register, At, imageVars, IInv, ThreadsOK, StoresOK
<1>1. CASE Return(g) BY <1>0, <1>1, ReturnMoves, IdleOK, LookStep
<1>2. CASE Goto(g, "register")
  <2>1. Moves(g) /\ Keeps(g) /\ th'[g].pc = "register"
    BY <1>0, <1>2, GotoMoves DEF Labels
  <2>2. ThreadOK(g)' /\ RemovalOK(g)' BY <1>0, <2>1 DEF ThreadOK, Keeps, RemovalOK
  <2> QED BY <1>0, <2>1, <2>2, LookStep
<1> QED BY <1>0, <1>1, <1>2

----------------------------------------------------------------------------
(* Steps of no thread                                                      *)

LEMMA QuietStep ==
    ASSUME IInv,
           UNCHANGED <<images, content, parent, refVars, config, used, th>>
    PROVE  IInv'
<1> USE DEF IInv, refVars
<1>1. StoresOK' /\ RefsTypeOK' /\ IndexesAgree'
  BY DEF StoresOK, RefsTypeOK, IndexesAgree
<1>2. ThreadsOK' BY DEF ThreadsOK, ThreadOK
<1>3. RemovalsOK' BY DEF RemovalsOK, RemovalOK, TableOK, Quiet
<1> QED BY <1>1, <1>2, <1>3

\* The file has what memory has, so that the new daemon has it too.
LEMMA CrashStep ==
    ASSUME IInv, Crash
    PROVE  IInv'
<1> USE DEF IInv
<1>1. /\ images' = content /\ UNCHANGED <<content, parent, config, used, jsonFile>>
      /\ repositories' = jsonFile /\ referencesByIDCache' = Index(jsonFile)
      /\ th' = [g \in Threads |-> Idle(th[g].calls)]
  BY DEF Crash, restore, reload
<1>2. StoresOK' BY <1>1 DEF StoresOK
<1>3. RefsTypeOK' BY <1>1 DEF RefsTypeOK, Index
<1>4. IndexesAgree' BY <1>1 DEF IndexesAgree, Index
<1>5. \A g \in Threads : th'[g] \in Thread /\ th'[g].pc = "idle"
  <2>1. ASSUME NEW g \in Threads PROVE th'[g] \in Thread /\ th'[g].pc = "idle"
    <3>1. th[g].calls \in 0 .. MaxCalls BY ThreadFields DEF ThreadsOK
    <3>2. Idle(th[g].calls) \in Thread BY <3>1, IdleIsThread
    <3> QED BY <1>1, <3>2 DEF Idle
  <2> QED BY <2>1
<1>6. ThreadsOK' /\ \A g \in Threads : RemovalOK(g)' BY <1>1, <1>5, IdleOK DEF ThreadsOK
<1>7. RemovalsOK'
  <2>1. Quiet' = Quiet BY <1>1 DEF Quiet
  <2>2. Quiet => TableOK BY DEF RemovalsOK
  <2>3. Quiet => TableOK' BY <1>1, <2>2 DEF TableOK
  <2> QED BY <1>6, <2>1, <2>3 DEF RemovalsOK
<1> QED BY <1>2, <1>3, <1>4, <1>6, <1>7

LEMMA InitIInv == Init => IInv
<1> SUFFICES ASSUME Init PROVE IInv OBVIOUS
<1>1. /\ config \in Setups /\ images = config.start.images
      /\ content = images /\ used = images /\ parent = config.start.parent
      /\ repositories = config.start.table /\ jsonFile = repositories
      /\ referencesByIDCache = Index(repositories)
      /\ th = [g \in Threads |-> Idle(0)]
  BY DEF Init, InitRefs
<1>2. /\ config.start.images \subseteq Images
      /\ config.start.parent \in [Images -> Images \cup {None}]
      /\ config.start.table \in [Refs -> config.start.images \cup {None}]
  BY <1>1, DaemonAssumption
<1>3. StoresOK BY <1>1, <1>2 DEF StoresOK
<1>4. RefsTypeOK BY <1>1, <1>2 DEF RefsTypeOK, Index
<1>5. IndexesAgree BY <1>1 DEF IndexesAgree, Index
<1>6. Idle(0) \in Thread /\ Idle(0).pc = "idle"
  <2>1. 0 \in 0 .. MaxCalls BY DaemonAssumption
  <2> QED BY <2>1, IdleIsThread DEF Idle
<1>7. \A g \in Threads : th[g].pc = "idle" BY <1>1, <1>6
<1>8. ThreadsOK BY <1>1, <1>6, <1>7 DEF ThreadsOK, ThreadOK
<1>9. RemovalsOK
  <2>1. TableOK BY <1>1, <1>2 DEF TableOK
  <2> QED BY <1>7, <2>1 DEF RemovalsOK, RemovalOK
<1> QED BY <1>3, <1>4, <1>5, <1>8, <1>9 DEF IInv

LEMMA NextIInv == IInv /\ [Next]_vars => IInv'
<1> SUFFICES ASSUME IInv, [Next]_vars PROVE IInv' OBVIOUS
<1>1. ASSUME NEW g \in Threads, Rmi(g) PROVE IInv'
  BY <1>1, ImageDeleteStep, RmRefsStep, RmInUseStep, RmUntagStep, RmLoopBegins,
     RmUntagEachStep, RmCheckStep, RmParentStep, RmDeleteStep, RmDeleteFilesStep,
     RmDeleteEndStep
     DEF Rmi
<1>2. ASSUME NEW g \in Threads, Creation(g) PROVE IInv'
  BY <1>2, CreationBegins, TaggingBegins, CreateStep, CreateSetParentStep,
     PullOldTagStep, AddingStep, CreateReleaseStep, ContainerStep
     DEF Creation
<1>3. ASSUME NEW c \in Containers, StartOrStop(c) \/ RemoveContainer(c) PROVE IInv'
  BY <1>3, QuietStep DEF StartOrStop, RemoveContainer, imageVars
<1>4. CASE Crash BY <1>4, CrashStep
<1>5. CASE UNCHANGED vars BY <1>5, QuietStep DEF vars, imageVars
<1> QED BY <1>1, <1>2, <1>3, <1>4, <1>5 DEF Next

----------------------------------------------------------------------------
\* What removals, creations, pulls, containers and crashes keep of the stores
\* and the threads.
THEOREM ImagesInvariant == Spec => []IInv
<1>1. Init => IInv BY InitIInv
<1>2. IInv /\ [Next]_vars => IInv' BY NextIInv
<1> QED BY <1>1, <1>2, PTL DEF Spec

\* The two indexes of reference/store.go agree after every addReference, Delete
\* and reload, whether or not a save failed.
THEOREM ReferenceIndexesAgree == Spec => []IndexesAgree
<1>1. IInv => IndexesAgree BY DEF IInv
<1> QED BY <1>1, ImagesInvariant, PTL

\* While nobody creates or tags an image, image_delete.go leaves no tag or
\* digest of an image that is gone, in memory or in repositories.json.
THEOREM RemovalsLeaveNoReference == Spec => []NoDanglingReference
<1>1. IInv => NoDanglingReference
  BY DEF IInv, RemovalsOK, TableOK, Quiet, Taggers, NoDanglingReference
<1> QED BY <1>1, ImagesInvariant, PTL

----------------------------------------------------------------------------
(* Layers, parents and restarts                                            *)

\* What accounts for references to a layer: known images, containers, threads
ImagesOf(ch) == {id \in images : Chain[id] = ch}
ContainersOf(ch) == {c \in Containers : mount[c] # None /\ Chain[mount[c]] = ch}
HoldersOf(ch) == {g \in Holders : Chain[Id(g)] = ch}
Accounts(ch) == Cardinality(ImagesOf(ch)) + Cardinality(ContainersOf(ch))
                  + Cardinality(HoldersOf(ch))
Balanced ==
    up => \A ch \in Chains : /\ layerRefs[ch] = Accounts(ch)
                             /\ layerRefs[ch] > 0 => ch \in layers

\* Creators hold the layer until they release it; only restoreCachedImage has
\* none, and it has a parent to set.
HolderOK(g) ==
    /\ th[g].hold => th[g].pc \in {"set", "insert", "setParent", "tag", "release"}
    /\ th[g].pc = "release" => th[g].hold
    /\ th[g].pc \in {"set", "insert"} =>
           th[g].hold \/ (th[g].op = "cached" /\ th[g].par # None)
    /\ th[g].pc \in {"set", "insert", "deleteFiles"} => th[g].id \in used
    /\ th[g].pc = "addDigest" => th[g].next \in {"idle", "tag"}
HoldersOK == \A g \in Threads : HolderOK(g)

\* One removal at a time has the store's mutex between its steps, and its
\* image does not come back before the mutex is unlocked.
Deleting == {"deleteFiles", "deleteEnd"}
DeletesOK ==
    \A g \in Threads : th[g].pc \in Deleting =>
        /\ locked /\ th[g].id \notin images
        /\ \A u \in Threads \ {g} : th[u].pc \notin Deleting

\* A container that is registered has its RW layer; IDs that exist were used.
UsedOK ==
    /\ \A c \in registered : mount[c] # None
    /\ images \cup content \subseteq used

\* Every configuration on disk is that of a known image, or of one that a
\* thread is creating with a layer in hand, or deleting.
Attended(id) ==
    \/ id \in images
    \/ \E g \in Threads : th[g].id = id /\ th[g].pc \in {"insert", "deleteFiles"}
RestartOK ==
    "delete" \notin config.faults /\ "cached" \notin config.ops =>
        up /\ \A id \in content : Attended(id)

\* Commits create images that are new, so that a known image has its files.
FreshOK ==
    ~Recreated =>
        /\ images \subseteq content
        /\ \A g \in Threads : th[g].pc \in {"set", "insert"} =>
             /\ th[g].id \notin images
             /\ th[g].pc = "insert" => th[g].id \in content
             /\ \A u \in Threads \ {g} :
                  th[u].pc \in {"set", "insert", "deleteFiles"} => th[u].id # th[g].id

\* Parent files and the children in memory, for images that are not known too:
\* they only differ while the image is being deleted.
Tidy == ~FilesFail /\ ~("crash" \in config.faults /\ Recreated)
ParentOK(id) ==
    parent[id] # None =>
        /\ id \in content /\ parent[id] \in images
        /\ \/ id \in children[parent[id]]
           \/ \E g \in Threads : th[g].pc = "deleteFiles" /\ th[g].id = id
ParentsOK == Tidy => \A id \in Images : ParentOK(id)

StoreInv ==
    /\ IInv /\ TypeOK
    /\ Balanced /\ HoldersOK /\ DeletesOK /\ UsedOK /\ RestartOK /\ FreshOK /\ ParentsOK

----------------------------------------------------------------------------
(* Counting                                                                *)

Bit(b) == IF b THEN 1 ELSE 0

\* A set that differs from a finite one in at most the element x.
LEMMA CardChange ==
    ASSUME NEW S, NEW T, NEW x, IsFiniteSet(S),
           \A y : y # x => (y \in S <=> y \in T)
    PROVE  /\ Cardinality(S) \in Nat /\ Cardinality(T) \in Nat
           /\ Cardinality(T) = Cardinality(S) - Bit(x \in S) + Bit(x \in T)
<1>0. Cardinality(S) \in Nat BY FS_CardinalityType
<1>1. CASE x \in S /\ x \in T
  <2>1. S = T BY <1>1
  <2> QED BY <1>0, <1>1, <2>1 DEF Bit
<1>2. CASE x \notin S /\ x \notin T
  <2>1. S = T BY <1>2
  <2> QED BY <1>0, <1>2, <2>1 DEF Bit
<1>3. CASE x \in S /\ x \notin T
  <2>1. T = S \ {x} BY <1>3
  <2>2. IsFiniteSet(T) /\ Cardinality(T) = Cardinality(S) - 1
    BY <1>3, <2>1, FS_RemoveElement
  <2>3. Cardinality(T) \in Nat BY <2>2, FS_CardinalityType
  <2> QED BY <1>0, <1>3, <2>2, <2>3 DEF Bit
<1>4. CASE x \notin S /\ x \in T
  <2>1. T = S \cup {x} BY <1>4
  <2>2. IsFiniteSet(T) /\ Cardinality(T) = Cardinality(S) + 1
    BY <1>4, <2>1, FS_AddElement
  <2> QED BY <1>0, <1>4, <2>2 DEF Bit
<1> QED BY <1>1, <1>2, <1>3, <1>4

\* A thread holds the layer of its image.
Holds(g) == th[g].hold \/ th[g].pc \in Deleting

LEMMA AccountsFinite ==
    ASSUME TypeOK, NEW ch
    PROVE  /\ IsFiniteSet(ImagesOf(ch)) /\ IsFiniteSet(ContainersOf(ch))
           /\ IsFiniteSet(HoldersOf(ch))
           /\ Cardinality(ImagesOf(ch)) \in Nat /\ Cardinality(ContainersOf(ch)) \in Nat
           /\ Cardinality(HoldersOf(ch)) \in Nat /\ Accounts(ch) \in Nat
<1>1. /\ ImagesOf(ch) \subseteq Images /\ ContainersOf(ch) \subseteq Containers
      /\ HoldersOf(ch) \subseteq Threads
  BY DEF TypeOK, ImagesTypeOK, ImagesOf, ContainersOf, HoldersOf, Holders
<1>2. /\ IsFiniteSet(ImagesOf(ch)) /\ IsFiniteSet(ContainersOf(ch))
      /\ IsFiniteSet(HoldersOf(ch))
  BY <1>1, FS_Subset, DaemonAssumption
<1> QED BY <1>2, FS_CardinalityType DEF Accounts

\* Where something accounts for a reference, the count is not zero.
LEMMA AccountsPositive ==
    ASSUME TypeOK, NEW ch,
           ImagesOf(ch) # {} \/ ContainersOf(ch) # {} \/ HoldersOf(ch) # {}
    PROVE  Accounts(ch) > 0
<1>1. ASSUME NEW S, IsFiniteSet(S), S # {} PROVE Cardinality(S) > 0
  BY <1>1, FS_EmptySet, FS_CardinalityType
<1> QED BY <1>1, AccountsFinite DEF Accounts

\* One image at most comes or goes.
LEMMA ImagesChange ==
    ASSUME TypeOK, NEW i, \A j : j # i => (j \in images <=> j \in images'), NEW ch
    PROVE  Cardinality(ImagesOf(ch)') = Cardinality(ImagesOf(ch))
               - Bit(i \in images /\ Chain[i] = ch) + Bit(i \in images' /\ Chain[i] = ch)
<1>1. \A j : j # i => (j \in ImagesOf(ch) <=> j \in ImagesOf(ch)') BY DEF ImagesOf
<1>2. /\ i \in ImagesOf(ch) <=> i \in images /\ Chain[i] = ch
      /\ i \in ImagesOf(ch)' <=> i \in images' /\ Chain[i] = ch
  BY DEF ImagesOf
<1>3. Cardinality(ImagesOf(ch)') = Cardinality(ImagesOf(ch))
          - Bit(i \in ImagesOf(ch)) + Bit(i \in ImagesOf(ch)')
  BY <1>1, AccountsFinite, CardChange
<1> QED BY <1>2, <1>3 DEF Bit

\* One thread at most begins or ceases to hold a layer.
LEMMA HoldersChange ==
    ASSUME TypeOK, NEW g \in Threads, \A u \in Threads \ {g} : th'[u] = th[u], NEW ch
    PROVE  Cardinality(HoldersOf(ch)') = Cardinality(HoldersOf(ch))
               - Bit(Holds(g) /\ Chain[th[g].id] = ch)
               + Bit(Holds(g)' /\ Chain[th'[g].id] = ch)
<1>1. \A u : u # g => (u \in HoldersOf(ch) <=> u \in HoldersOf(ch)')
  BY DEF HoldersOf, Holders, Id
<1>2. /\ g \in HoldersOf(ch) <=> Holds(g) /\ Chain[th[g].id] = ch
      /\ g \in HoldersOf(ch)' <=> Holds(g)' /\ Chain[th'[g].id] = ch
  BY DEF HoldersOf, Holders, Holds, Deleting, Id
<1>3. Cardinality(HoldersOf(ch)') = Cardinality(HoldersOf(ch))
          - Bit(g \in HoldersOf(ch)) + Bit(g \in HoldersOf(ch)')
  BY <1>1, AccountsFinite, CardChange
<1> QED BY <1>2, <1>3 DEF Bit

\* One container at most gets or loses its RW layer.
LEMMA ContainersChange ==
    ASSUME TypeOK, NEW c \in Containers,
           \A d \in Containers \ {c} : mount'[d] = mount[d], NEW ch
    PROVE  Cardinality(ContainersOf(ch)') = Cardinality(ContainersOf(ch))
               - Bit(mount[c] # None /\ Chain[mount[c]] = ch)
               + Bit(mount'[c] # None /\ Chain[mount'[c]] = ch)
<1>1. \A d : d # c => (d \in ContainersOf(ch) <=> d \in ContainersOf(ch)')
  BY DEF ContainersOf
<1>2. /\ c \in ContainersOf(ch) <=> mount[c] # None /\ Chain[mount[c]] = ch
      /\ c \in ContainersOf(ch)' <=> mount'[c] # None /\ Chain[mount'[c]] = ch
  BY DEF ContainersOf
<1>3. Cardinality(ContainersOf(ch)') = Cardinality(ContainersOf(ch))
          - Bit(c \in ContainersOf(ch)) + Bit(c \in ContainersOf(ch)')
  BY <1>1, AccountsFinite, CardChange
<1> QED BY <1>2, <1>3 DEF Bit

\* The layers of known images and of threads that hold one exist.
LEMMA HeldExists ==
    ASSUME StoreInv, up, NEW id \in Images,
           id \in images \/ \E g \in Threads : Holds(g) /\ th[g].id = id
    PROVE  LayerExists(id)
<1>1. CASE Chain[id] = None BY <1>1 DEF LayerExists
<1>2. CASE Chain[id] # None
  <2>1. PICK ch \in Chains : ch = Chain[id] BY <1>2, ImageAssumption
  <2>2. ImagesOf(ch) # {} \/ HoldersOf(ch) # {}
    BY <2>1 DEF ImagesOf, HoldersOf, Holders, Holds, Deleting, Id
  <2>3. Accounts(ch) > 0 BY <2>2, AccountsPositive DEF StoreInv
  <2>4. ch \in layers BY <2>3 DEF StoreInv, Balanced
  <2> QED BY <2>1, <2>4 DEF LayerExists
<1> QED BY <1>1, <1>2

----------------------------------------------------------------------------
(* Frames for StoreInv                                                     *)

Only(g) == \A u \in Threads \ {g} : th'[u] = th[u]

LEMMA HoldersStep ==
    ASSUME StoreInv, NEW g \in Threads, Only(g), HolderOK(g)', used \subseteq used'
    PROVE  HoldersOK'
<1>1. ASSUME NEW u \in Threads \ {g} PROVE HolderOK(u)'
  <2>1. th'[u] = th[u] /\ HolderOK(u) BY DEF Only, StoreInv, HoldersOK
  <2> QED BY <2>1 DEF HolderOK
<1> QED BY <1>1 DEF HoldersOK

\* A thread that is not at Delete, or leaves it: no image comes back meanwhile.
LEMMA DeletesStep ==
    ASSUME StoreInv, NEW g \in Threads, Only(g), th'[g].pc \notin Deleting,
           th[g].pc \in Deleting \/ locked' = locked,
           images' \subseteq images \/ ~locked
    PROVE  DeletesOK'
<1>1. ASSUME NEW u \in Threads, th'[u].pc \in Deleting
      PROVE  /\ locked' /\ th'[u].id \notin images'
             /\ \A v \in Threads \ {u} : th'[v].pc \notin Deleting
  <2>1. u # g /\ th'[u] = th[u] BY <1>1 DEF Only
  <2>2. /\ locked /\ th[u].id \notin images
        /\ \A v \in Threads \ {u} : th[v].pc \notin Deleting
    BY <1>1, <2>1 DEF StoreInv, DeletesOK
  <2>3. \A v \in Threads \ {u} : th'[v].pc \notin Deleting BY <2>2 DEF Only
  <2> QED BY <2>1, <2>2, <2>3
<1> QED BY <1>1 DEF DeletesOK

LEMMA BalancedFrame ==
    ASSUME StoreInv, NEW g \in Threads, Only(g),
           UNCHANGED <<images, layers, layerRefs, mount, up>>,
           Holds(g)' = Holds(g), Holds(g) => th'[g].id = th[g].id
    PROVE  Balanced'
<1>1. \A ch \in Chains : /\ ImagesOf(ch)' = ImagesOf(ch)
                         /\ ContainersOf(ch)' = ContainersOf(ch)
  BY DEF ImagesOf, ContainersOf
<1>2. \A u \in Threads : Holds(u)' = Holds(u) /\ (Holds(u) => Id(u)' = Id(u))
  BY DEF Only, Holds, Id
<1>3. \A ch \in Chains : HoldersOf(ch)' = HoldersOf(ch)
  BY <1>2 DEF HoldersOf, Holders, Holds, Deleting
<1> QED BY <1>1, <1>3 DEF StoreInv, Balanced, Accounts

LEMMA TypeStep ==
    ASSUME StoreInv, IInv', UNCHANGED <<config, up, crashes>>,
           children' \in [Images -> SUBSET Images], layers' \subseteq Chains,
           layerRefs' \in [Chains -> Nat], locked' \in BOOLEAN,
           mount' \in [Containers -> Images \cup {None}],
           registered' \subseteq Containers, running' \subseteq registered'
    PROVE  TypeOK'
BY DEF StoreInv, IInv, StoresOK, ThreadsOK, TypeOK, ImagesTypeOK

\* A step that leaves images and their configurations alone: a creator that
\* gives up has its image, and one that begins has a new one.
LEMMA ContentFrame ==
    ASSUME StoreInv, IInv', NEW g \in Threads, Only(g),
           UNCHANGED <<images, content, config, up>>,
           th[g].pc # "deleteFiles", th'[g].pc \notin {"insert", "deleteFiles"},
           th[g].pc = "insert" => th[g].id \in images \/ th[g].op = "cached",
           \/ th'[g].pc # "set" \/ Recreated
           \/ th'[g].id \notin used
    PROVE  RestartOK' /\ FreshOK'
<1>1. RestartOK'
  <2> SUFFICES ASSUME "delete" \notin config.faults, "cached" \notin config.ops
               PROVE  up' /\ \A id \in content' : Attended(id)'
    BY DEF RestartOK
  <2>1. up /\ \A id \in content : Attended(id) BY DEF StoreInv, RestartOK
  <2>2. ASSUME NEW id \in content PROVE Attended(id)'
    <3>1. Attended(id) BY <2>1
    <3>2. ThreadOK(g) BY DEF StoreInv, IInv, ThreadsOK
    <3>3. CASE id \in images BY <3>3 DEF Attended
    <3>4. CASE \E u \in Threads : th[u].id = id /\ th[u].pc \in {"insert", "deleteFiles"}
      BY <3>2, <3>4 DEF Attended, Only, ThreadOK
    <3> QED BY <3>1, <3>3, <3>4 DEF Attended
  <2> QED BY <2>1, <2>2
<1>2. FreshOK'
  <2> SUFFICES ASSUME ~Recreated PROVE FreshOK' BY DEF FreshOK, Recreated
  <2>1. CASE th'[g].pc # "set" BY <2>1 DEF StoreInv, FreshOK, Only
  <2>2. CASE th'[g].pc = "set"
    <3>1. th'[g].id \notin used BY <2>2
    <3>2. \A u \in Threads : th[u].pc \in {"set", "insert", "deleteFiles"} =>
             th[u].id # th'[g].id
      BY <3>1 DEF StoreInv, HoldersOK, HolderOK
    <3>3. th'[g].id \notin images BY <3>1 DEF StoreInv, UsedOK
    <3> QED BY <2>2, <3>2, <3>3 DEF StoreInv, FreshOK, Only
  <2> QED BY <2>1, <2>2
<1> QED BY <1>1, <1>2

\* And their parent files too
LEMMA FilesFrame ==
    ASSUME StoreInv, IInv', NEW g \in Threads, Only(g),
           UNCHANGED <<images, children, content, parent, config, up>>,
           th[g].pc # "deleteFiles", th'[g].pc \notin {"insert", "deleteFiles"},
           th[g].pc = "insert" => th[g].id \in images \/ th[g].op = "cached",
           \/ th'[g].pc # "set" \/ Recreated
           \/ th'[g].id \notin used
    PROVE  RestartOK' /\ FreshOK' /\ ParentsOK'
<1>1. ParentsOK'
  <2>1. Tidy' = Tidy BY DEF Tidy, FilesFail, Recreated
  <2>2. ASSUME NEW id \in Images, ParentOK(id) PROVE ParentOK(id)'
    BY <2>2 DEF ParentOK, Only
  <2> QED BY <2>1, <2>2 DEF StoreInv, ParentsOK
<1> QED BY <1>1, ContentFrame

\* A thread moves where nothing is at stake: it looks at the stores, changes
\* the reference store, or registers a container.
LEMMA CalmStep ==
    ASSUME StoreInv, IInv', NEW g \in Threads, Only(g), HolderOK(g)',
           UNCHANGED <<imageVars, config, up, crashes, mount>>, used \subseteq used',
           registered' \subseteq Containers, running' \subseteq registered',
           \A c \in registered' : mount[c] # None,
           th[g].pc \notin Deleting, th'[g].pc \notin Deleting \cup {"insert"},
           th[g].pc = "insert" => th[g].id \in images \/ th[g].op = "cached",
           th'[g].pc = "set" => th'[g].op = "cached",
           th'[g].hold = th[g].hold, th[g].hold => th'[g].id = th[g].id
    PROVE  StoreInv'
<1> USE DEF imageVars
<1>1. TypeOK'
  BY TypeStep DEF StoreInv, TypeOK, ImagesTypeOK
<1>2. Balanced' BY BalancedFrame DEF Holds
<1>3. HoldersOK' BY HoldersStep
<1>4. DeletesOK' BY DeletesStep
<1>5. UsedOK' BY DEF StoreInv, UsedOK
<1>6. RestartOK' /\ FreshOK' /\ ParentsOK'
  <2>1. ThreadOK(g)' BY DEF IInv, ThreadsOK
  <2>2. th'[g].pc = "set" => Recreated BY <2>1 DEF ThreadOK, Recreated
  <2> QED BY <2>2, FilesFrame DEF Deleting
<1> QED BY <1>1, <1>2, <1>3, <1>4, <1>5, <1>6 DEF StoreInv

\* The labels of a thread that has no layer and needs none
Ordinary == {"idle", "refs", "inUse", "untag", "refsAfter", "untagEach", "parent",
             "allRefs", "delete", "oldTag", "setParent", "tag", "mount", "register",
             "children", "running", "references", "stopped"}

LEMMA OrdinaryStep ==
    ASSUME StoreInv, IInv', NEW g \in Threads, Only(g),
           UNCHANGED <<imageVars, world>>,
           th[g].pc \in Ordinary \cup {"addDigest"}, ~th[g].hold,
           th'[g].pc \in Ordinary, ~th'[g].hold, th'[g].hold = th[g].hold
    PROVE  StoreInv'
<1>1. HolderOK(g)' BY DEF HolderOK, Ordinary
<1>2. /\ UNCHANGED <<imageVars, config, up, crashes, mount, used, registered, running>>
      /\ registered \subseteq Containers /\ running \subseteq registered
      /\ \A c \in registered : mount[c] # None
  BY DEF world, StoreInv, TypeOK, UsedOK
<1> QED BY <1>1, <1>2, CalmStep DEF Ordinary, Deleting

----------------------------------------------------------------------------
(* Calm steps                                                              *)

LEMMA GotoOnly ==
    ASSUME th \in [Threads -> Thread], NEW g \in Threads, NEW l, Goto(g, l)
    PROVE  /\ Only(g) /\ th'[g].pc = l /\ th'[g].hold = th[g].hold
           /\ th'[g].id = th[g].id /\ th'[g].op = th[g].op /\ th'[g].par = th[g].par
<1>1. th' = [th EXCEPT ![g] = [th[g] EXCEPT !.pc = l]] BY DEF Goto
<1>2. th[g] \in Thread OBVIOUS
<1> QED BY <1>1, <1>2 DEF Only, Thread

LEMMA ReturnOnly ==
    ASSUME th \in [Threads -> Thread], NEW g \in Threads, Return(g)
    PROVE  Only(g) /\ th'[g].pc = "idle" /\ th'[g].hold = FALSE
BY DEF Return, Only, Idle

\* What is the same for every thread that is at a label.
LEMMA AtLabel ==
    ASSUME StoreInv, NEW g \in Threads
    PROVE  /\ th \in [Threads -> Thread] /\ th[g] \in Thread
           /\ ThreadOK(g) /\ HolderOK(g) /\ th[g].hold \in BOOLEAN
           /\ th[g].next \in {"idle", "children", "delete", "tag"}
           /\ th[g].id \in Images \cup {None} /\ th[g].par \in Images \cup {None}
<1>1. th \in [Threads -> Thread] /\ ThreadOK(g) /\ HolderOK(g)
  BY DEF StoreInv, HoldersOK, IInv, ThreadsOK
<1> QED BY <1>1 DEF Thread

\* The looks and the reference removals of ImageDelete
LEMMA RmCalm ==
    ASSUME StoreInv, IInv', NEW g \in Threads,
           \/ RmRefs(g) \/ RmInUse(g) \/ RmUntag(g) \/ RmRefsAfter(g)
           \/ RmUntagEach(g) \/ RmCheck(g) \/ RmParent(g) \/ RmAllRefs(g)
    PROVE  StoreInv'
<1>0. /\ th \in [Threads -> Thread] /\ th[g] \in Thread /\ ThreadOK(g) /\ HolderOK(g)
      /\ th[g].hold \in BOOLEAN /\ th[g].next \in {"idle", "children", "delete", "tag"}
  BY AtLabel
<1>1. /\ th[g].pc \in Ordinary \ {"tag", "setParent"} /\ UNCHANGED <<imageVars, world>>
  <2>1. \A i \in 1 .. 4 : Checks[i] \in {"children", "running", "references", "stopped"}
    BY DEF Checks
  <2> QED BY <2>1 DEF RmRefs, RmInUse, RmUntag, RmRefsAfter, RmUntagEach, RmCheck,
                      RmParent, RmAllRefs, At, Ordinary
<1>2. th[g].hold = FALSE BY <1>0, <1>1 DEF HolderOK, Ordinary
<1> DEFINE Calm == Only(g) /\ th'[g].pc \in Ordinary /\ th'[g].hold = FALSE
<1>3. ASSUME Return(g) PROVE Calm BY <1>0, <1>3, ReturnOnly DEF Ordinary
<1>4. ASSUME NEW l \in Ordinary, Goto(g, l) PROVE Calm BY <1>0, <1>2, <1>4, GotoOnly
<1>5. ASSUME NEW x, th' = [th EXCEPT ![g] = x], x.pc \in Ordinary, x.hold = FALSE
      PROVE  Calm
  BY <1>0, <1>5 DEF Only
<1> HIDE DEF Calm
<1>6. ASSUME RmRefs(g) PROVE Calm
  <2>1. CASE th[g].ref # None
    <3>1. PICK l \in {"inUse", "untag"} : Goto(g, l) BY <1>6, <2>1 DEF RmRefs
    <3> QED BY <3>1, <1>4 DEF Ordinary
  <2>2. CASE th[g].ref = None
    <3>1. PICK R : th' = [th EXCEPT ![g] = [th[g] EXCEPT !.pc = "children", !.refs = R]]
      BY <1>6, <2>2 DEF RmRefs
    <3>2. PICK x : x = [th[g] EXCEPT !.pc = "children", !.refs = R] OBVIOUS
    <3>3. x.pc = "children" /\ x.hold = FALSE BY <1>0, <1>2, <3>2 DEF Thread
    <3> QED BY <1>5, <3>1, <3>2, <3>3 DEF Ordinary
  <2> QED BY <2>1, <2>2
<1>7. ASSUME RmInUse(g) PROVE Calm
  <2>1. Goto(g, "untag") \/ Return(g) BY <1>7 DEF RmInUse, GotoIf
  <2> QED BY <1>3, <1>4, <2>1 DEF Ordinary
<1>8. ASSUME RmUntag(g) PROVE Calm
  <2>1. Goto(g, "refsAfter") \/ Return(g) BY <1>8 DEF RmUntag, removeImageRef, Goto
  <2> QED BY <1>3, <1>4, <2>1 DEF Ordinary
<1>9. ASSUME RmRefsAfter(g) \/ RmAllRefs(g) PROVE Calm
  <2>1. \E R, n : th' = [th EXCEPT ![g].pc = "untagEach", ![g].refs = R, ![g].next = n]
    <3>1. CASE RmRefsAfter(g) BY <3>1, Zenon DEF RmRefsAfter
    <3>2. CASE RmAllRefs(g) BY <3>2, Zenon DEF RmAllRefs
    <3> QED BY <1>9, <3>1, <3>2
  <2>2. PICK R, n : th' = [th EXCEPT ![g].pc = "untagEach", ![g].refs = R, ![g].next = n]
    BY <2>1
  <2>3. PICK x : x = [th[g] EXCEPT !.pc = "untagEach", !.refs = R, !.next = n] OBVIOUS
  <2>4. x.pc = "untagEach" /\ x.hold = FALSE BY <1>0, <1>2, <2>3 DEF Thread
  <2>5. th' = [th EXCEPT ![g] = x] BY <2>2, <2>3
  <2> QED BY <1>5, <2>4, <2>5 DEF Ordinary
<1>10. ASSUME RmUntagEach(g) PROVE Calm
  <2>1. \/ Return(g)
        \/ Goto(g, th[g].next)
        \/ \E ref : th' = [th EXCEPT ![g].refs = @ \ {ref}]
    BY <1>10 DEF RmUntagEach, removeImageRef, GotoIf
  <2>2. CASE Return(g) BY <1>3, <2>2
  <2>3. CASE Goto(g, th[g].next)
    <3>1. PICK l \in {"idle", "children", "delete", "tag"} : l = th[g].next BY <1>0
    <3> QED BY <1>4, <2>3, <3>1 DEF Ordinary
  <2>4. CASE \E ref : th' = [th EXCEPT ![g].refs = @ \ {ref}]
    <3>1. PICK ref : th' = [th EXCEPT ![g].refs = @ \ {ref}] BY <2>4
    <3>2. PICK x : x = [th[g] EXCEPT !.refs = @ \ {ref}] OBVIOUS
    <3>3. x.pc = th[g].pc /\ x.hold = FALSE BY <1>0, <1>2, <3>2 DEF Thread
    <3>4. th' = [th EXCEPT ![g] = x] BY <3>1, <3>2
    <3> QED BY <1>1, <1>5, <3>3, <3>4 DEF Ordinary
  <2> QED BY <2>1, <2>2, <2>3, <2>4
<1>11. ASSUME RmCheck(g) PROVE Calm
  <2>1. PICK i \in 1 .. 4 :
         IF Checks[i] \in Mask(g) /\ InConflict(Checks[i], Id(g)) THEN Return(g)
            ELSE IF i < 4 THEN Goto(g, Checks[i + 1])
            ELSE IF th[g].refs # {}
                 THEN th' = [th EXCEPT ![g].pc = "untagEach", ![g].next = "children"]
                 ELSE Goto(g, "parent")
    BY <1>11 DEF RmCheck
  <2>2. i < 4 => Checks[i + 1] \in {"running", "references", "stopped"} BY DEF Checks
  <2>3. \/ Return(g)
        \/ \E l \in {"running", "references", "stopped", "parent"} : Goto(g, l)
        \/ th' = [th EXCEPT ![g].pc = "untagEach", ![g].next = "children"]
    BY <2>1, <2>2
  <2>4. CASE th' = [th EXCEPT ![g].pc = "untagEach", ![g].next = "children"]
    <3>1. PICK x : x = [th[g] EXCEPT !.pc = "untagEach", !.next = "children"] OBVIOUS
    <3>2. x.pc = "untagEach" /\ x.hold = FALSE BY <1>0, <1>2, <3>1 DEF Thread
    <3>3. th' = [th EXCEPT ![g] = x] BY <2>4, <3>1
    <3> QED BY <1>5, <3>2, <3>3 DEF Ordinary
  <2> QED BY <1>3, <1>4, <2>3, <2>4 DEF Ordinary
<1>12. ASSUME RmParent(g) PROVE Calm
  <2>1. PICK p : th' = [th EXCEPT ![g].pc = "allRefs", ![g].par = p]
    BY <1>12 DEF RmParent
  <2>2. PICK x : x = [th[g] EXCEPT !.pc = "allRefs", !.par = p] OBVIOUS
  <2>3. x.pc = "allRefs" /\ x.hold = FALSE BY <1>0, <1>2, <2>2 DEF Thread
  <2>4. th' = [th EXCEPT ![g] = x] BY <2>1, <2>2
  <2> QED BY <1>5, <2>3, <2>4 DEF Ordinary
<1>13. Calm
  BY <1>6, <1>7, <1>8, <1>9, <1>10, <1>11, <1>12
<1> QED BY <1>1, <1>2, <1>13, OrdinaryStep DEF Calm

\* Calls that begin without a layer
LEMMA BeginCalm ==
    ASSUME StoreInv, IInv', NEW g \in Threads, NEW call, Begin(g, call),
           UNCHANGED <<imageVars, config, up, crashes, mount, registered, running>>,
           used \subseteq used', call.hold = FALSE,
           \/ call.pc \in Ordinary
           \/ call.pc = "set" /\ call.op = "cached" /\ call.par # None /\ call.id \in used'
    PROVE  StoreInv'
<1>0. th \in [Threads -> Thread] /\ th[g].hold \in BOOLEAN /\ HolderOK(g) BY AtLabel
<1>1. Only(g) /\ th'[g] = call /\ th[g].pc = "idle"
  BY <1>0 DEF Begin, At, Only
<1>2. th[g].hold = FALSE BY <1>0, <1>1 DEF HolderOK
<1>3. HolderOK(g)' BY <1>1 DEF HolderOK, Ordinary
<1>4. /\ registered \subseteq Containers /\ running \subseteq registered
      /\ \A c \in registered : mount[c] # None
  BY DEF StoreInv, TypeOK, UsedOK
<1> QED BY <1>1, <1>2, <1>3, <1>4, CalmStep DEF Ordinary, Deleting

\* A removal begins at refs and holds no layer.
LEMMA DeleteBegins ==
    ASSUME NEW g \in Threads, ImageDelete(g)
    PROVE  \E call : Begin(g, call) /\ call.hold = FALSE /\ call.pc = "refs"
<1>1. PICK x : x = Call(g, "rmi", "refs") OBVIOUS
<1>2. x.hold = FALSE /\ x.pc = "refs" BY <1>1 DEF Call, Idle
<1>3. DOMAIN x = {"pc", "op", "id", "ref", "par", "force", "prune", "refs", "next",
                  "hold", "calls"}
  BY <1>1 DEF Call, Idle
<1> DEFINE byID(i, f, p) == [x EXCEPT !.id = i, !.force = f, !.prune = p]
           byRef(i, r, f, p) == [x EXCEPT !.id = i, !.ref = r, !.force = f, !.prune = p]
<1>4. ASSUME NEW i, NEW f, NEW p
      PROVE  byID(i, f, p).hold = FALSE /\ byID(i, f, p).pc = "refs"
  BY <1>2, <1>3
<1>5. \/ \E f, p \in BOOLEAN, i \in content : Begin(g, byID(i, f, p))
      \/ \E f, p \in BOOLEAN, r \in Refs : Begin(g, byRef(repositories[r], r, f, p))
  BY <1>1, Zenon DEF ImageDelete
<1> HIDE DEF byID, byRef
<1>6. CASE \E f, p \in BOOLEAN, i \in content : Begin(g, byID(i, f, p))
  <2>1. PICK f \in BOOLEAN, p \in BOOLEAN, i \in content : Begin(g, byID(i, f, p)) BY <1>6
  <2> WITNESS byID(i, f, p)
  <2> QED BY <1>4, <2>1
<1>7. CASE \E f, p \in BOOLEAN, r \in Refs : Begin(g, byRef(repositories[r], r, f, p))
  <2>1. PICK f \in BOOLEAN, p \in BOOLEAN, r \in Refs : Begin(g, byRef(repositories[r], r, f, p))
    BY <1>7
  <2>2. PICK call : call = byRef(repositories[r], r, f, p) OBVIOUS
  <2>3. call.hold = FALSE /\ call.pc = "refs" BY <1>2, <1>3, <2>2 DEF byRef
  <2> QED BY <2>1, <2>2, <2>3
<1> QED BY <1>5, <1>6, <1>7

LEMMA CallsCalm ==
    ASSUME StoreInv, IInv', NEW g \in Threads,
           \/ ImageDelete(g) \/ RestoreCached(g) \/ Reparent(g) \/ TagImage(g)
           \/ ContainerCreate(g)
    PROVE  StoreInv'
<1> USE DEF Call, Idle, Ordinary, world
<1>1. CASE ImageDelete(g)
  <2>1. PICK call : Begin(g, call) /\ call.hold = FALSE /\ call.pc = "refs"
    BY <1>1, DeleteBegins
  <2>2. UNCHANGED <<imageVars, refVars, world>> BY <1>1 DEF ImageDelete
  <2> QED BY <2>1, <2>2, BeginCalm
<1>2. CASE RestoreCached(g)
  <2>1. PICK id \in Images : \E p \in Bases[id] \cap content :
          /\ Begin(g, [Call(g, "cached", "set") EXCEPT !.id = id, !.par = p])
          /\ used' = used \cup {id}
    BY <1>2 DEF RestoreCached
  <2>2. PICK p \in content :
          Begin(g, [Call(g, "cached", "set") EXCEPT !.id = id, !.par = p])
    BY <2>1
  <2>3. p # None BY ImageAssumption DEF StoreInv, IInv, StoresOK
  <2>4. PICK call : call = [Call(g, "cached", "set") EXCEPT !.id = id, !.par = p] OBVIOUS
  <2>5. /\ call.hold = FALSE /\ call.pc = "set" /\ call.op = "cached" /\ call.par # None
        /\ call.id \in used'
    BY <2>1, <2>3, <2>4
  <2> QED BY <1>2, <2>1, <2>2, <2>4, <2>5, BeginCalm DEF RestoreCached
<1>3. CASE Reparent(g)
  <2>1. PICK i, r : Begin(g, [Call(g, "reparent", "setParent") EXCEPT !.id = i, !.par = r])
    BY <1>3, Zenon DEF Reparent
  <2>2. PICK call : call = [Call(g, "reparent", "setParent") EXCEPT !.id = i, !.par = r] OBVIOUS
  <2>3. call.hold = FALSE /\ call.pc = "setParent" BY <2>2
  <2> QED BY <1>3, <2>1, <2>2, <2>3, BeginCalm DEF Reparent
<1>4. CASE TagImage(g)
  <2>1. PICK i, r : Begin(g, [Call(g, "tag", "tag") EXCEPT !.id = i, !.ref = r])
    BY <1>4, Zenon DEF TagImage
  <2>2. PICK call : call = [Call(g, "tag", "tag") EXCEPT !.id = i, !.ref = r] OBVIOUS
  <2>3. call.hold = FALSE /\ call.pc = "tag" BY <2>2
  <2> QED BY <1>4, <2>1, <2>2, <2>3, BeginCalm DEF TagImage
<1>5. CASE ContainerCreate(g)
  <2>1. PICK i, r : Begin(g, [Call(g, "container", "mount") EXCEPT !.id = i])
    BY <1>5, Zenon DEF ContainerCreate
  <2>2. PICK call : call = [Call(g, "container", "mount") EXCEPT !.id = i] OBVIOUS
  <2>3. call.hold = FALSE /\ call.pc = "mount" BY <2>2
  <2> QED BY <1>5, <2>1, <2>2, <2>3, BeginCalm DEF ContainerCreate
<1> QED BY <1>1, <1>2, <1>3, <1>4, <1>5

LEMMA PullOldTagCalm ==
    ASSUME StoreInv, IInv', NEW g \in Threads, PullOldTag(g)
    PROVE  StoreInv'
<1>0. /\ th \in [Threads -> Thread] /\ th[g] \in Thread /\ HolderOK(g)
      /\ th[g].hold \in BOOLEAN /\ th[g].pc = "oldTag"
      /\ UNCHANGED <<imageVars, config, up, crashes, mount, used, registered, running>>
      /\ registered \subseteq Containers /\ running \subseteq registered
      /\ \A c \in registered : mount[c] # None
  BY AtLabel DEF PullOldTag, At, world, StoreInv, TypeOK, UsedOK
<1>1. PICK n \in {"idle", "tag"} :
        th' = [th EXCEPT ![g].pc = "addDigest", ![g].next = n]
  BY DEF PullOldTag
<1>2. PICK x : x = [th[g] EXCEPT !.pc = "addDigest", !.next = n] OBVIOUS
<1>3. x.pc = "addDigest" /\ x.next = n /\ x.hold = th[g].hold BY <1>0, <1>2 DEF Thread
<1>4. th' = [th EXCEPT ![g] = x] BY <1>1, <1>2
<1>5. Only(g) /\ th'[g] = x BY <1>0, <1>4 DEF Only
<1>6. th[g].hold = FALSE BY <1>0 DEF HolderOK
<1>7. HolderOK(g)' BY <1>3, <1>5, <1>6 DEF HolderOK
<1> QED BY <1>0, <1>3, <1>5, <1>6, <1>7, CalmStep DEF Deleting

LEMMA PullAddDigestCalm ==
    ASSUME StoreInv, IInv', NEW g \in Threads, PullAddDigest(g)
    PROVE  StoreInv'
<1>0. /\ th \in [Threads -> Thread] /\ th[g] \in Thread /\ HolderOK(g)
      /\ th[g].hold \in BOOLEAN /\ th[g].pc = "addDigest"
      /\ UNCHANGED <<imageVars, world>>
  BY AtLabel DEF PullAddDigest, At
<1>1. th[g].hold = FALSE /\ th[g].next \in {"idle", "tag"} BY <1>0 DEF HolderOK
<1>2. Return(g) \/ Goto(g, "tag") BY <1>1 DEF PullAddDigest, GotoIf
<1>3. Only(g) /\ th'[g].hold = FALSE /\ th'[g].pc \in {"idle", "tag"}
  BY <1>0, <1>1, <1>2, ReturnOnly, GotoOnly
<1> QED BY <1>0, <1>1, <1>3, OrdinaryStep DEF Ordinary

\* The creator gives up, or goes on to release its layer.
LEMMA FinishStep ==
    ASSUME StoreInv, NEW g \in Threads, Finish(g)
    PROVE  /\ Only(g) /\ th'[g].hold = th[g].hold /\ HolderOK(g)'
           /\ th'[g].pc \in {"idle", "release"} /\ (th[g].hold => th'[g].id = th[g].id)
<1>0. th \in [Threads -> Thread] /\ th[g].hold \in BOOLEAN BY AtLabel
<1>1. CASE th[g].hold
  <2>1. Goto(g, "release") BY <1>1 DEF Finish, GotoIf
  <2>2. /\ Only(g) /\ th'[g].pc = "release" /\ th'[g].hold = th[g].hold
        /\ th'[g].id = th[g].id
    BY <1>0, <2>1, GotoOnly
  <2> QED BY <1>1, <2>2 DEF HolderOK
<1>2. CASE ~th[g].hold
  <2>1. Return(g) BY <1>2 DEF Finish, GotoIf
  <2>2. Only(g) /\ th'[g].pc = "idle" /\ th'[g].hold = FALSE BY <1>0, <2>1, ReturnOnly
  <2> QED BY <1>0, <1>2, <2>2 DEF HolderOK
<1> QED BY <1>1, <1>2

LEMMA AddTagCalm ==
    ASSUME StoreInv, IInv', NEW g \in Threads, AddTag(g)
    PROVE  StoreInv'
<1>1. /\ th[g].pc = "tag" /\ Finish(g)
      /\ UNCHANGED <<imageVars, config, up, crashes, mount, used, registered, running>>
      /\ registered \subseteq Containers /\ running \subseteq registered
      /\ \A c \in registered : mount[c] # None
  BY DEF AddTag, At, world, StoreInv, TypeOK, UsedOK
<1> QED BY <1>1, FinishStep, CalmStep DEF Deleting

LEMMA RegisterCalm ==
    ASSUME StoreInv, IInv', NEW g \in Threads, Register(g)
    PROVE  StoreInv'
<1>0. /\ th \in [Threads -> Thread] /\ HolderOK(g) /\ th[g].hold \in BOOLEAN
      /\ th[g].pc = "register" /\ ThreadOK(g)
      /\ UNCHANGED <<imageVars, config, up, crashes, mount, used, running>>
      /\ registered \subseteq Containers /\ running \subseteq registered
      /\ \A c \in registered : mount[c] # None
  BY AtLabel DEF Register, At, StoreInv, TypeOK, UsedOK
<1>1. PICK c \in Containers : mount[c] = th[g].id /\ registered' = registered \cup {c}
  BY DEF Register, Id
<1>2. mount[c] # None BY <1>0, <1>1, ImageAssumption DEF ThreadOK
<1>3. Only(g) /\ th'[g].pc = "idle" /\ th'[g].hold = FALSE
  BY <1>0, ReturnOnly DEF Register
<1>4. th[g].hold = FALSE BY <1>0 DEF HolderOK
<1>5. HolderOK(g)' BY <1>3 DEF HolderOK
<1>6. /\ registered' \subseteq Containers /\ running' \subseteq registered'
      /\ \A d \in registered' : mount[d] # None
  BY <1>0, <1>1, <1>2
<1> QED BY <1>0, <1>3, <1>4, <1>5, <1>6, CalmStep DEF Deleting

----------------------------------------------------------------------------
(* Layers are held and released                                            *)

\* A thread takes a reference to the layer of its image.
LEMMA RetainBalanced ==
    ASSUME StoreInv, NEW g \in Threads, Only(g), NEW id \in Images,
           ~Holds(g), Holds(g)', th'[g].id = id, Retain(id),
           layers \cup ({Chain[id]} \ {None}) = layers',
           UNCHANGED <<images, mount, up>>
    PROVE  Balanced' /\ layers' \subseteq Chains /\ layerRefs' \in [Chains -> Nat]
<1>0. TypeOK BY DEF StoreInv
<1>1. \A ch \in Chains : layerRefs'[ch] = layerRefs[ch] + Bit(Chain[id] = ch)
  BY <1>0 DEF Retain, Bit, TypeOK, ImagesTypeOK
<1>2. \A ch \in Chains : /\ ImagesOf(ch)' = ImagesOf(ch)
                         /\ ContainersOf(ch)' = ContainersOf(ch)
  BY DEF ImagesOf, ContainersOf
<1>3. \A ch \in Chains : Cardinality(HoldersOf(ch)') =
                           Cardinality(HoldersOf(ch)) + Bit(Chain[id] = ch)
  <2> TAKE ch \in Chains
  <2>1. Cardinality(HoldersOf(ch)') = Cardinality(HoldersOf(ch))
               - Bit(Holds(g) /\ Chain[th[g].id] = ch)
               + Bit(Holds(g)' /\ Chain[th'[g].id] = ch)
    BY <1>0, HoldersChange DEF Only
  <2>2. Cardinality(HoldersOf(ch)) \in Nat BY <1>0, AccountsFinite
  <2> QED BY <2>1, <2>2 DEF Bit
<1>4. \A ch \in Chains : Accounts(ch)' = Accounts(ch) + Bit(Chain[id] = ch)
  <2> TAKE ch \in Chains
  <2>1. /\ Cardinality(ImagesOf(ch)) \in Nat /\ Cardinality(ContainersOf(ch)) \in Nat
        /\ Cardinality(HoldersOf(ch)) \in Nat
    BY <1>0, AccountsFinite
  <2> QED BY <1>2, <1>3, <2>1 DEF Accounts, Bit
<1>5. layers' \subseteq Chains /\ layerRefs' \in [Chains -> Nat]
  BY <1>0, ImageAssumption DEF TypeOK, ImagesTypeOK, Retain
<1>6. Balanced'
  <2> SUFFICES ASSUME up, NEW ch \in Chains
               PROVE  /\ layerRefs'[ch] = Accounts(ch)'
                      /\ layerRefs'[ch] > 0 => ch \in layers'
    BY DEF Balanced
  <2>1. layerRefs[ch] = Accounts(ch) /\ (layerRefs[ch] > 0 => ch \in layers)
    BY DEF StoreInv, Balanced
  <2>2. layerRefs'[ch] = Accounts(ch)' BY <1>1, <1>4, <2>1
  <2>3. CASE Chain[id] = ch BY <2>2, <2>3, ImageAssumption
  <2>4. CASE Chain[id] # ch BY <1>1, <2>1, <2>2, <2>4, <1>0 DEF Bit, TypeOK, ImagesTypeOK
  <2> QED BY <2>2, <2>3, <2>4
<1> QED BY <1>5, <1>6

\* Arithmetic of Release: the last reference takes the layer along.
LEMMA ReleaseBalanced ==
    ASSUME StoreInv, up, up' = up, NEW id \in Images, Release(id),
           \A ch \in Chains : Accounts(ch)' = Accounts(ch) - Bit(Chain[id] = ch),
           Chain[id] # None => Accounts(Chain[id]) > 0
    PROVE  Balanced' /\ layers' \subseteq Chains /\ layerRefs' \in [Chains -> Nat]
<1>0. TypeOK BY DEF StoreInv
<1>1. \A ch \in Chains : /\ layerRefs[ch] \in Nat /\ layerRefs[ch] = Accounts(ch)
                         /\ layerRefs[ch] > 0 => ch \in layers
  BY <1>0 DEF StoreInv, Balanced, TypeOK, ImagesTypeOK
<1>2. \A ch \in Chains : Chain[id] = ch => layerRefs[ch] > 0
  BY <1>1, ImageAssumption
<1>3. /\ layerRefs' = [ch \in Chains |-> IF ch = Chain[id] THEN layerRefs[ch] - 1
                                         ELSE layerRefs[ch]]
      /\ layers' = {ch \in layers : ch # Chain[id] \/ layerRefs[ch] > 1}
  BY DEF Release
<1>4. layerRefs' \in [Chains -> Nat] BY <1>1, <1>2, <1>3
<1>5. \A ch \in Chains : /\ layerRefs'[ch] = Accounts(ch)'
                         /\ layerRefs'[ch] > 0 => ch \in layers'
  BY <1>1, <1>2, <1>3 DEF Bit
<1>6. layers' \subseteq Chains BY <1>0, <1>3 DEF TypeOK, ImagesTypeOK
<1> QED BY <1>4, <1>5, <1>6 DEF Balanced

\* A thread that holds the layer of its image releases it.
LEMMA ThreadReleases ==
    ASSUME StoreInv, up, up' = up, NEW g \in Threads, Only(g), th[g].id \in Images,
           Holds(g), ~Holds(g)', Release(th[g].id), UNCHANGED <<images, mount>>
    PROVE  Balanced' /\ layers' \subseteq Chains /\ layerRefs' \in [Chains -> Nat]
<1>0. TypeOK BY DEF StoreInv
<1>1. \A ch \in Chains : Accounts(ch)' = Accounts(ch) - Bit(Chain[th[g].id] = ch)
  <2> TAKE ch \in Chains
  <2>1. ImagesOf(ch)' = ImagesOf(ch) /\ ContainersOf(ch)' = ContainersOf(ch)
    BY DEF ImagesOf, ContainersOf
  <2>2. Cardinality(HoldersOf(ch)') = Cardinality(HoldersOf(ch))
               - Bit(Holds(g) /\ Chain[th[g].id] = ch)
               + Bit(Holds(g)' /\ Chain[th'[g].id] = ch)
    BY <1>0, HoldersChange DEF Only
  <2>3. /\ Cardinality(ImagesOf(ch)) \in Nat /\ Cardinality(ContainersOf(ch)) \in Nat
        /\ Cardinality(HoldersOf(ch)) \in Nat
    BY <1>0, AccountsFinite
  <2> QED BY <2>1, <2>2, <2>3 DEF Accounts, Bit
<1>2. Chain[th[g].id] # None => Accounts(Chain[th[g].id]) > 0
  <2>1. PICK ch : ch = Chain[th[g].id] OBVIOUS
  <2>2. g \in HoldersOf(ch) BY <2>1 DEF HoldersOf, Holders, Holds, Deleting, Id
  <2> QED BY <1>0, <2>1, <2>2, AccountsPositive
<1>3. PICK id \in Images : id = th[g].id OBVIOUS
<1> QED BY <1>1, <1>2, <1>3, ReleaseBalanced

\* Commit and pull begin with a layer in hand.
LEMMA BeginHolds ==
    ASSUME StoreInv, IInv', NEW g \in Threads, NEW call, Begin(g, call),
           NEW id \in Images, HoldLayer(id), call.id = id, call.pc = "set",
           call.hold = TRUE, used' = used \cup {id}, Recreated \/ id \notin used,
           UNCHANGED <<config, up, crashes, mount, registered, running>>
    PROVE  StoreInv'
<1>0. /\ th \in [Threads -> Thread] /\ HolderOK(g) /\ th[g].hold \in BOOLEAN BY AtLabel
<1>1. Only(g) /\ th'[g] = call /\ th[g].pc = "idle"
  BY <1>0 DEF Begin, At, Only
<1>2. ~Holds(g) /\ Holds(g)' BY <1>0, <1>1 DEF Holds, HolderOK, Deleting
<1>3. Retain(id) /\ layers' = layers \cup ({Chain[id]} \ {None})
      /\ UNCHANGED <<images, children, content, parent, locked>>
  BY DEF HoldLayer
<1>4. Balanced' /\ layers' \subseteq Chains /\ layerRefs' \in [Chains -> Nat]
  BY <1>1, <1>2, <1>3, RetainBalanced
<1>5. TypeOK' BY <1>3, <1>4, TypeStep DEF StoreInv, TypeOK, ImagesTypeOK
<1>6. HolderOK(g)' BY <1>1 DEF HolderOK
<1>7. HoldersOK' BY <1>1, <1>6, HoldersStep
<1>8. DeletesOK' BY <1>1, <1>3, DeletesStep DEF Deleting
<1>9. UsedOK' BY <1>3 DEF StoreInv, UsedOK
<1>10. RestartOK' /\ FreshOK' /\ ParentsOK' BY <1>1, <1>3, FilesFrame
<1> QED BY <1>4, <1>5, <1>7, <1>8, <1>9, <1>10 DEF StoreInv

LEMMA CommitHolds ==
    ASSUME StoreInv, IInv', NEW g \in Threads, Commit(g)
    PROVE  StoreInv'
<1>1. PICK id \in Images \ used : \E p :
         /\ Begin(g, [Call(g, "commit", "set") EXCEPT
                          !.id = id, !.par = p, !.hold = TRUE])
         /\ HoldLayer(id)
         /\ used' = used \cup {id}
  BY DEF Commit
<1>5. PICK p :
         /\ Begin(g, [Call(g, "commit", "set") EXCEPT
                          !.id = id, !.par = p, !.hold = TRUE])
         /\ HoldLayer(id)
         /\ used' = used \cup {id}
  BY <1>1
<1>2. UNCHANGED <<config, up, crashes, mount, registered, running>> BY DEF Commit
<1>3. PICK call : call = [Call(g, "commit", "set") EXCEPT
                              !.id = id, !.par = p, !.hold = TRUE]
  OBVIOUS
<1>4. call.id = id /\ call.pc = "set" /\ call.hold = TRUE BY <1>3 DEF Call, Idle
<1> QED BY <1>2, <1>3, <1>4, <1>5, BeginHolds

LEMMA PullHolds ==
    ASSUME StoreInv, IInv', NEW g \in Threads, Pull(g)
    PROVE  StoreInv'
<1>1. PICK id \in Images, r \in Refs :
        \/ /\ Begin(g, [Call(g, "pull", "oldTag") EXCEPT !.id = id, !.ref = r])
           /\ UNCHANGED <<imageVars, used>>
        \/ /\ Begin(g, [Call(g, "pull", "set") EXCEPT
                              !.id = id, !.ref = r, !.hold = TRUE])
           /\ HoldLayer(id)
           /\ used' = used \cup {id}
  BY DEF Pull
<1>2. UNCHANGED <<config, up, crashes, mount, registered, running>> BY DEF Pull
<1>3. CASE /\ Begin(g, [Call(g, "pull", "oldTag") EXCEPT !.id = id, !.ref = r])
           /\ UNCHANGED <<imageVars, used>>
  <2>1. PICK call : call = [Call(g, "pull", "oldTag") EXCEPT !.id = id, !.ref = r] OBVIOUS
  <2>2. call.pc = "oldTag" /\ call.hold = FALSE BY <2>1 DEF Call, Idle
  <2> QED BY <1>2, <1>3, <2>1, <2>2, BeginCalm DEF Ordinary
<1>4. CASE /\ Begin(g, [Call(g, "pull", "set") EXCEPT
                              !.id = id, !.ref = r, !.hold = TRUE])
           /\ HoldLayer(id)
           /\ used' = used \cup {id}
  <2>1. PICK call : call = [Call(g, "pull", "set") EXCEPT
                                !.id = id, !.ref = r, !.hold = TRUE]
    OBVIOUS
  <2>2. call.id = id /\ call.pc = "set" /\ call.hold = TRUE /\ call.op = "pull"
    BY <2>1 DEF Call, Idle
  <2>3. Recreated BY <1>4, <2>1, <2>2 DEF Begin, Recreated
  <2> QED BY <1>2, <1>4, <2>1, <2>2, <2>3, BeginHolds
<1> QED BY <1>1, <1>3, <1>4

LEMMA CreateReleases ==
    ASSUME StoreInv, IInv', NEW g \in Threads, CreateRelease(g)
    PROVE  StoreInv'
<1>0. /\ th \in [Threads -> Thread] /\ th[g] \in Thread /\ HolderOK(g)
      /\ up /\ th[g].pc = "release" /\ ThreadOK(g) /\ Release(th[g].id)
      /\ UNCHANGED <<images, children, content, parent, locked, config, up, crashes,
                     used, mount, registered, running>>
  BY AtLabel DEF CreateRelease, At, world, Id
<1>1. Only(g) /\ th'[g].hold = FALSE /\ th'[g].pc \in {"idle", "oldTag"}
  <2>1. CASE Return(g) BY <1>0, <2>1, ReturnOnly
  <2>2. CASE th' = [th EXCEPT ![g].pc = "oldTag", ![g].hold = FALSE]
    <3>1. PICK x : x = [th[g] EXCEPT !.pc = "oldTag", !.hold = FALSE] OBVIOUS
    <3>2. x.pc = "oldTag" /\ x.hold = FALSE BY <1>0, <3>1 DEF Thread
    <3>3. th' = [th EXCEPT ![g] = x] BY <2>2, <3>1
    <3> QED BY <1>0, <3>2, <3>3 DEF Only
  <2> QED BY <2>1, <2>2 DEF CreateRelease
<1>2. Holds(g) /\ ~Holds(g)' /\ th[g].id \in Images
  BY <1>0, <1>1 DEF Holds, HolderOK, ThreadOK, Deleting
<1>3. Balanced' /\ layers' \subseteq Chains /\ layerRefs' \in [Chains -> Nat]
  BY <1>0, <1>1, <1>2, ThreadReleases
<1>4. TypeOK' BY <1>0, <1>3, TypeStep DEF StoreInv, TypeOK, ImagesTypeOK
<1>5. HolderOK(g)' BY <1>1 DEF HolderOK
<1>6. HoldersOK' BY <1>0, <1>1, <1>5, HoldersStep
<1>7. DeletesOK' BY <1>0, <1>1, DeletesStep DEF Deleting
<1>8. UsedOK' BY <1>0 DEF StoreInv, UsedOK
<1>9. RestartOK' /\ FreshOK' /\ ParentsOK' BY <1>0, <1>1, FilesFrame
<1> QED BY <1>3, <1>4, <1>6, <1>7, <1>8, <1>9 DEF StoreInv

LEMMA RmDeleteEnds ==
    ASSUME StoreInv, IInv', NEW g \in Threads, RmDeleteEnd(g)
    PROVE  StoreInv'
<1>0. /\ th \in [Threads -> Thread] /\ th[g] \in Thread /\ HolderOK(g)
      /\ th[g].hold \in BOOLEAN
      /\ up /\ th[g].pc = "deleteEnd" /\ ThreadOK(g) /\ Release(th[g].id)
      /\ locked' = FALSE
      /\ UNCHANGED <<images, children, content, parent, config, up, crashes,
                     used, mount, registered, running>>
  BY AtLabel DEF RmDeleteEnd, DeleteEnd, At, world, Id
<1>1. Only(g) /\ th'[g].hold = FALSE /\ th'[g].pc \in {"idle", "children"}
  <2>1. CASE Return(g) BY <1>0, <2>1, ReturnOnly
  <2>2. CASE th' = [th EXCEPT ![g].pc = "children", ![g].id = th[g].par,
                              ![g].force = FALSE]
    <3>1. PICK x : x = [th[g] EXCEPT !.pc = "children", !.id = th[g].par, !.force = FALSE]
      OBVIOUS
    <3>2. x.pc = "children" /\ x.hold = th[g].hold BY <1>0, <3>1 DEF Thread
    <3>3. th' = [th EXCEPT ![g] = x] BY <2>2, <3>1
    <3>4. th[g].hold = FALSE BY <1>0 DEF HolderOK
    <3> QED BY <1>0, <3>2, <3>3, <3>4 DEF Only
  <2> QED BY <2>1, <2>2 DEF RmDeleteEnd
<1>2. Holds(g) /\ ~Holds(g)' /\ th[g].id \in Images
  BY <1>0, <1>1 DEF Holds, ThreadOK, Deleting
<1>3. Balanced' /\ layers' \subseteq Chains /\ layerRefs' \in [Chains -> Nat]
  BY <1>0, <1>1, <1>2, ThreadReleases
<1>4. TypeOK' BY <1>0, <1>3, TypeStep DEF StoreInv, TypeOK, ImagesTypeOK
<1>5. HolderOK(g)' BY <1>1 DEF HolderOK
<1>6. HoldersOK' BY <1>0, <1>1, <1>5, HoldersStep
<1>7. DeletesOK' BY <1>0, <1>1, DeletesStep DEF Deleting
<1>8. UsedOK' BY <1>0 DEF StoreInv, UsedOK
<1>9. RestartOK' /\ FreshOK' /\ ParentsOK' BY <1>0, <1>1, FilesFrame
<1> QED BY <1>3, <1>4, <1>6, <1>7, <1>8, <1>9 DEF StoreInv

----------------------------------------------------------------------------
(* Containers                                                              *)

LEMMA SetRWLayerKeeps ==
    ASSUME StoreInv, IInv', NEW g \in Threads, SetRWLayer(g)
    PROVE  StoreInv'
<1>0. /\ th \in [Threads -> Thread] /\ HolderOK(g) /\ th[g].hold \in BOOLEAN
      /\ up /\ th[g].pc = "mount" /\ ThreadOK(g) /\ th[g].id \in Images
      /\ UNCHANGED <<images, children, content, parent, layers, locked, config, up,
                     crashes, used, registered, running>>
      /\ registered \subseteq Containers /\ running \subseteq registered
      /\ \A d \in registered : mount[d] # None
  BY AtLabel DEF SetRWLayer, At, ThreadOK, StoreInv, TypeOK, UsedOK
<1>1. th[g].hold = FALSE BY <1>0 DEF HolderOK
<1>2. CASE Return(g) /\ UNCHANGED <<mount, layerRefs>>
  <2>1. Only(g) /\ th'[g].hold = FALSE /\ th'[g].pc = "idle" BY <1>0, <1>2, ReturnOnly
  <2> QED BY <1>0, <1>1, <1>2, <2>1, OrdinaryStep DEF Ordinary, imageVars, world
<1>3. CASE /\ LayerExists(th[g].id)
           /\ \E c \in Containers :
                mount[c] = None /\ mount' = [mount EXCEPT ![c] = th[g].id]
           /\ Retain(th[g].id) /\ Goto(g, "register")
  <2>1. PICK id \in Images : id = th[g].id BY <1>0
  <2>2. PICK c \in Containers : mount[c] = None /\ mount' = [mount EXCEPT ![c] = id]
    BY <1>3, <2>1
  <2>3. TypeOK BY DEF StoreInv
  <2>4. Only(g) /\ th'[g].hold = FALSE /\ th'[g].pc = "register"
    BY <1>0, <1>1, <1>3, GotoOnly
  <2>5. ~Holds(g) /\ ~Holds(g)' BY <1>0, <1>1, <2>4 DEF Holds, Deleting
  <2>6. \A ch \in Chains : Accounts(ch)' = Accounts(ch) + Bit(Chain[id] = ch)
    <3> TAKE ch \in Chains
    <3>1. ImagesOf(ch)' = ImagesOf(ch) BY <1>0 DEF ImagesOf
    <3>2. Cardinality(HoldersOf(ch)') = Cardinality(HoldersOf(ch))
             - Bit(Holds(g) /\ Chain[th[g].id] = ch)
             + Bit(Holds(g)' /\ Chain[th'[g].id] = ch)
      BY <2>3, <2>4, HoldersChange DEF Only
    <3>3. Cardinality(ContainersOf(ch)') = Cardinality(ContainersOf(ch))
             - Bit(mount[c] # None /\ Chain[mount[c]] = ch)
             + Bit(mount'[c] # None /\ Chain[mount'[c]] = ch)
      <4>1. \A d \in Containers \ {c} : mount'[d] = mount[d] BY <2>2, <2>3 DEF TypeOK
      <4> QED BY <2>3, <4>1, ContainersChange
    <3>4. /\ Cardinality(ImagesOf(ch)) \in Nat /\ Cardinality(ContainersOf(ch)) \in Nat
          /\ Cardinality(HoldersOf(ch)) \in Nat
      BY <2>3, AccountsFinite
    <3>5. id # None /\ mount'[c] = id BY <2>2, <2>3, ImageAssumption DEF TypeOK
    <3> QED BY <2>2, <2>5, <3>1, <3>2, <3>3, <3>4, <3>5 DEF Accounts, Bit
  <2>7. \A ch \in Chains : layerRefs'[ch] = layerRefs[ch] + Bit(Chain[id] = ch)
    BY <1>3, <2>1, <2>3 DEF Retain, Bit, TypeOK, ImagesTypeOK
  <2>8. Balanced'
    <3> SUFFICES ASSUME NEW ch \in Chains
                 PROVE  /\ layerRefs'[ch] = Accounts(ch)'
                        /\ layerRefs'[ch] > 0 => ch \in layers'
      BY DEF Balanced
    <3>1. /\ layerRefs[ch] = Accounts(ch) /\ (layerRefs[ch] > 0 => ch \in layers)
          /\ layerRefs[ch] \in Nat
      BY <1>0, <2>3 DEF StoreInv, Balanced, TypeOK, ImagesTypeOK
    <3>2. layerRefs'[ch] = Accounts(ch)' BY <2>6, <2>7, <3>1
    <3>3. CASE Chain[id] = ch
      BY <1>0, <1>3, <2>1, <3>2, <3>3, ImageAssumption DEF LayerExists
    <3>4. CASE Chain[id] # ch BY <1>0, <2>7, <3>1, <3>2, <3>4 DEF Bit
    <3> QED BY <3>2, <3>3, <3>4
  <2>9. layerRefs' \in [Chains -> Nat]
    BY <1>3, <2>1, <2>3 DEF Retain, TypeOK, ImagesTypeOK
  <2>10. mount' \in [Containers -> Images \cup {None}] BY <2>2, <2>3 DEF TypeOK
  <2>11. TypeOK' BY <1>0, <2>3, <2>9, <2>10, TypeStep DEF TypeOK, ImagesTypeOK
  <2>12. HolderOK(g)' BY <2>4 DEF HolderOK
  <2>13. HoldersOK' BY <1>0, <2>4, <2>12, HoldersStep
  <2>14. DeletesOK' BY <1>0, <2>4, DeletesStep DEF Deleting
  <2>15. UsedOK'
    <3>1. \A d \in Containers : mount'[d] = IF d = c THEN id ELSE mount[d]
      BY <2>2, <2>3 DEF TypeOK
    <3>2. id # None BY ImageAssumption
    <3> QED BY <1>0, <3>1, <3>2 DEF StoreInv, UsedOK
  <2>16. RestartOK' /\ FreshOK' /\ ParentsOK' BY <1>0, <2>4, FilesFrame
  <2> QED BY <2>8, <2>11, <2>13, <2>14, <2>15, <2>16 DEF StoreInv
<1> QED BY <1>2, <1>3 DEF SetRWLayer, Id

\* A step of no thread that leaves images and their files alone
LEMMA StillFrame ==
    ASSUME StoreInv, UNCHANGED <<images, children, content, parent, locked, config, up,
                                 used, th>>
    PROVE  HoldersOK' /\ DeletesOK' /\ RestartOK' /\ FreshOK' /\ ParentsOK'
<1>1. HoldersOK' BY DEF StoreInv, HoldersOK, HolderOK
<1>2. DeletesOK' BY DEF StoreInv, DeletesOK
<1>3. RestartOK' BY DEF StoreInv, RestartOK, Attended
<1>4. FreshOK' BY DEF StoreInv, FreshOK, Recreated
<1>5. ParentsOK' BY DEF StoreInv, ParentsOK, ParentOK, Tidy, FilesFail, Recreated
<1> QED BY <1>1, <1>2, <1>3, <1>4, <1>5

LEMMA StillBalanced ==
    ASSUME StoreInv, UNCHANGED <<images, layers, layerRefs, mount, up, th>>
    PROVE  Balanced'
<1>1. \A ch \in Chains : Accounts(ch)' = Accounts(ch)
  BY DEF Accounts, ImagesOf, ContainersOf, HoldersOf, Holders, Id
<1> QED BY <1>1 DEF StoreInv, Balanced

LEMMA StartOrStopKeeps ==
    ASSUME StoreInv, IInv', NEW c \in Containers, StartOrStop(c)
    PROVE  StoreInv'
<1>1. /\ UNCHANGED <<imageVars, config, up, crashes, used, mount, registered, th>>
      /\ running' \subseteq registered
  BY DEF StartOrStop, StoreInv, TypeOK
<1>2. TypeOK' BY <1>1, TypeStep DEF imageVars, StoreInv, TypeOK, ImagesTypeOK
<1>3. Balanced' BY <1>1, StillBalanced DEF imageVars
<1>4. UsedOK' BY <1>1 DEF imageVars, StoreInv, UsedOK
<1> QED BY <1>1, <1>2, <1>3, <1>4, StillFrame DEF imageVars, StoreInv

LEMMA RemoveContainerKeeps ==
    ASSUME StoreInv, IInv', NEW c \in Containers, RemoveContainer(c)
    PROVE  StoreInv'
<1>0. /\ TypeOK /\ up /\ c \in registered \ running
      /\ mount' = [mount EXCEPT ![c] = None] /\ registered' = registered \ {c}
      /\ UNCHANGED <<images, children, content, parent, locked, config, up, crashes,
                     used, running, th>>
  BY DEF RemoveContainer, StoreInv
<1>1. PICK id \in Images : id = mount[c] BY <1>0 DEF StoreInv, UsedOK, TypeOK
<1>2. Release(id) /\ id # None BY <1>1, ImageAssumption DEF RemoveContainer
<1>3. \A ch \in Chains : Accounts(ch)' = Accounts(ch) - Bit(Chain[id] = ch)
  <2> TAKE ch \in Chains
  <2>1. ImagesOf(ch)' = ImagesOf(ch) /\ HoldersOf(ch)' = HoldersOf(ch)
    BY <1>0 DEF ImagesOf, HoldersOf, Holders, Id
  <2>2. Cardinality(ContainersOf(ch)') = Cardinality(ContainersOf(ch))
           - Bit(mount[c] # None /\ Chain[mount[c]] = ch)
           + Bit(mount'[c] # None /\ Chain[mount'[c]] = ch)
    <3>1. \A d \in Containers \ {c} : mount'[d] = mount[d] BY <1>0 DEF TypeOK
    <3> QED BY <1>0, <3>1, ContainersChange
  <2>3. /\ Cardinality(ImagesOf(ch)) \in Nat /\ Cardinality(ContainersOf(ch)) \in Nat
        /\ Cardinality(HoldersOf(ch)) \in Nat
    BY <1>0, AccountsFinite
  <2>4. mount'[c] = None BY <1>0 DEF TypeOK
  <2> QED BY <1>1, <1>2, <2>1, <2>2, <2>3, <2>4 DEF Accounts, Bit
<1>4. Chain[id] # None => Accounts(Chain[id]) > 0
  <2>1. PICK ch : ch = Chain[id] OBVIOUS
  <2>2. c \in ContainersOf(ch) BY <1>1, <1>2, <2>1 DEF ContainersOf
  <2> QED BY <1>0, <2>1, <2>2, AccountsPositive
<1>5. Balanced' /\ layers' \subseteq Chains /\ layerRefs' \in [Chains -> Nat]
  BY <1>0, <1>2, <1>3, <1>4, ReleaseBalanced
<1>6. /\ mount' \in [Containers -> Images \cup {None}]
      /\ \A d \in Containers : mount'[d] = IF d = c THEN None ELSE mount[d]
  BY <1>0 DEF TypeOK
<1>7. TypeOK' BY <1>0, <1>5, <1>6, TypeStep DEF TypeOK, ImagesTypeOK
<1>8. UsedOK' BY <1>0, <1>6 DEF StoreInv, UsedOK, TypeOK
<1> QED BY <1>0, <1>5, <1>7, <1>8, StillFrame DEF StoreInv

----------------------------------------------------------------------------
(* Images come and go                                                      *)

LEMMA CreateSetKeeps ==
    ASSUME StoreInv, IInv', NEW g \in Threads, CreateSet(g)
    PROVE  StoreInv'
<1>0. /\ th \in [Threads -> Thread] /\ HolderOK(g) /\ ThreadOK(g) /\ th[g].pc = "set"
      /\ content' = content \cup {th[g].id}
      /\ UNCHANGED <<images, children, parent, layers, layerRefs, locked, config, up,
                     crashes, used, mount, registered, running>>
  BY AtLabel DEF CreateSet, SetContent, At, world, Id
<1>1. /\ Only(g) /\ th'[g].pc = "insert" /\ th'[g].hold = th[g].hold
      /\ th'[g].id = th[g].id /\ th'[g].op = th[g].op /\ th'[g].par = th[g].par
  BY <1>0, GotoOnly DEF CreateSet
<1>2. TypeOK' BY <1>0, TypeStep DEF StoreInv, TypeOK, ImagesTypeOK
<1>3. Balanced' BY <1>0, <1>1, BalancedFrame DEF Holds, Deleting
<1>4. HolderOK(g)' BY <1>0, <1>1 DEF HolderOK
<1>5. HoldersOK' BY <1>0, <1>1, <1>4, HoldersStep
<1>6. DeletesOK' BY <1>0, <1>1, DeletesStep DEF Deleting
<1>7. UsedOK' BY <1>0 DEF StoreInv, UsedOK, HolderOK
<1>8. RestartOK'
  <2>1. \A id \in content : Attended(id) => Attended(id)'
    BY <1>0, <1>1 DEF Attended, Only
  <2>2. PICK i : i = th[g].id OBVIOUS
  <2>3. Attended(i)' BY <1>0, <1>1, <2>2 DEF Attended
  <2> QED BY <1>0, <2>1, <2>2, <2>3 DEF StoreInv, RestartOK
<1>9. FreshOK'
  <2> SUFFICES ASSUME ~Recreated PROVE FreshOK' BY <1>0 DEF FreshOK, Recreated
  <2> QED BY <1>0, <1>1 DEF StoreInv, FreshOK, Only
<1>10. ParentsOK'
  <2>1. Tidy' = Tidy BY <1>0 DEF Tidy, FilesFail, Recreated
  <2>2. ASSUME NEW id \in Images, ParentOK(id) PROVE ParentOK(id)'
    BY <1>0, <1>1, <2>2 DEF ParentOK, Only
  <2> QED BY <2>1, <2>2 DEF StoreInv, ParentsOK
<1> QED BY <1>2, <1>3, <1>5, <1>6, <1>7, <1>8, <1>9, <1>10 DEF StoreInv

\* After Create: with a parent to set, or with a layer to release
LEMMA CreatedStep ==
    ASSUME StoreInv, NEW g \in Threads, th[g].pc = "insert", Goto(g, Created(g))
    PROVE  /\ Only(g) /\ th'[g].hold = th[g].hold /\ HolderOK(g)'
           /\ th'[g].pc \in {"setParent", "release"} /\ th'[g].id = th[g].id
<1>0. th \in [Threads -> Thread] /\ HolderOK(g) BY AtLabel
<1>1. PICK l : l = Created(g) OBVIOUS
<1>2. /\ Only(g) /\ th'[g].pc = l /\ th'[g].hold = th[g].hold
      /\ th'[g].id = th[g].id
  BY <1>0, <1>1, GotoOnly
<1>3. l \in {"setParent", "release"} /\ (l = "release" => th[g].hold)
  BY <1>0, <1>1 DEF Created, HolderOK
<1> QED BY <1>2, <1>3 DEF HolderOK

LEMMA InsertKeeps ==
    ASSUME StoreInv, IInv', NEW g \in Threads, th[g].pc = "insert", ~locked,
           th[g].id \notin images, LayerExists(th[g].id), Insert(th[g].id),
           Goto(g, Created(g)), UNCHANGED world
    PROVE  StoreInv'
<1>0. /\ TypeOK /\ HolderOK(g) /\ ThreadOK(g)
      /\ UNCHANGED <<content, parent, layers, locked, config, up, crashes, used, mount,
                     registered, running>>
  BY AtLabel DEF StoreInv, Insert, world
<1>1. PICK id \in Images : id = th[g].id BY <1>0 DEF ThreadOK
<1>2. /\ images' = images \cup {id} /\ children' = [children EXCEPT ![id] = {}]
      /\ Retain(id)
  BY <1>1 DEF Insert
<1>3. /\ Only(g) /\ th'[g].hold = th[g].hold /\ HolderOK(g)' /\ th'[g].id = th[g].id
      /\ th'[g].pc \in {"setParent", "release"}
  BY CreatedStep
<1>4. \A ch \in Chains : Accounts(ch)' = Accounts(ch) + Bit(Chain[id] = ch)
  <2> TAKE ch \in Chains
  <2>1. ContainersOf(ch)' = ContainersOf(ch) BY <1>0 DEF ContainersOf
  <2>2. Cardinality(HoldersOf(ch)') = Cardinality(HoldersOf(ch))
           - Bit(Holds(g) /\ Chain[th[g].id] = ch)
           + Bit(Holds(g)' /\ Chain[th'[g].id] = ch)
    BY <1>0, <1>3, HoldersChange DEF Only
  <2>3. Holds(g)' = Holds(g) BY <1>3 DEF Holds, Deleting
  <2>4. Cardinality(ImagesOf(ch)') = Cardinality(ImagesOf(ch))
           - Bit(id \in images /\ Chain[id] = ch) + Bit(id \in images' /\ Chain[id] = ch)
    <3>1. \A j : j # id => (j \in images <=> j \in images') BY <1>2
    <3> QED BY <1>0, <3>1, ImagesChange
  <2>5. /\ Cardinality(ImagesOf(ch)) \in Nat /\ Cardinality(ContainersOf(ch)) \in Nat
        /\ Cardinality(HoldersOf(ch)) \in Nat
    BY <1>0, AccountsFinite
  <2> QED BY <1>1, <1>2, <1>3, <2>1, <2>2, <2>3, <2>4, <2>5 DEF Accounts, Bit
<1>5. \A ch \in Chains : layerRefs'[ch] = layerRefs[ch] + Bit(Chain[id] = ch)
  BY <1>0, <1>2 DEF Retain, Bit, TypeOK, ImagesTypeOK
<1>6. Balanced'
  <2> SUFFICES ASSUME up, NEW ch \in Chains
               PROVE  /\ layerRefs'[ch] = Accounts(ch)'
                      /\ layerRefs'[ch] > 0 => ch \in layers'
    BY <1>0 DEF Balanced
  <2>1. /\ layerRefs[ch] = Accounts(ch) /\ (layerRefs[ch] > 0 => ch \in layers)
        /\ layerRefs[ch] \in Nat
    BY <1>0 DEF StoreInv, Balanced, TypeOK, ImagesTypeOK
  <2>2. layerRefs'[ch] = Accounts(ch)' BY <1>4, <1>5, <2>1
  <2>3. CASE Chain[id] = ch
    BY <1>0, <1>1, <2>2, <2>3, ImageAssumption DEF LayerExists
  <2>4. CASE Chain[id] # ch BY <1>0, <1>5, <2>1, <2>2, <2>4 DEF Bit
  <2> QED BY <2>2, <2>3, <2>4
<1>7. TypeOK'
  <2>1. layerRefs' \in [Chains -> Nat] BY <1>0, <1>2 DEF Retain, TypeOK, ImagesTypeOK
  <2>2. children' \in [Images -> SUBSET Images] BY <1>0, <1>2 DEF TypeOK, ImagesTypeOK
  <2> QED BY <1>0, <2>1, <2>2, TypeStep DEF TypeOK, ImagesTypeOK
<1>8. HoldersOK' BY <1>0, <1>3, HoldersStep
<1>9. DeletesOK' BY <1>0, <1>3, DeletesStep DEF Deleting
<1>10. UsedOK' BY <1>0, <1>1, <1>2 DEF StoreInv, UsedOK, HolderOK
<1>11. RestartOK'
  <2>1. \A i \in content : Attended(i) => Attended(i)'
    BY <1>1, <1>2, <1>3 DEF Attended, Only
  <2> QED BY <1>0, <2>1 DEF StoreInv, RestartOK
<1>12. FreshOK'
  <2> SUFFICES ASSUME ~Recreated PROVE FreshOK' BY <1>0 DEF FreshOK, Recreated
  <2>1. id \in content /\ \A u \in Threads \ {g} : th[u].pc \in {"set", "insert"} =>
                              th[u].id # id
    BY <1>1 DEF StoreInv, FreshOK
  <2> QED BY <1>0, <1>1, <1>2, <1>3, <2>1 DEF StoreInv, FreshOK, Only
<1>13. ParentsOK'
  <2>1. Tidy' = Tidy BY <1>0 DEF Tidy, FilesFail, Recreated
  <2>2. ASSUME NEW i \in Images, ParentOK(i) PROVE ParentOK(i)'
    <3>1. CASE parent[i] = None BY <1>0, <3>1 DEF ParentOK
    <3>2. CASE parent[i] # None
      <4>1. /\ i \in content /\ parent[i] \in images /\ parent[i] # id
            /\ \/ i \in children[parent[i]]
               \/ \E u \in Threads : th[u].pc = "deleteFiles" /\ th[u].id = i
        BY <1>1, <2>2, <3>2 DEF ParentOK
      <4>2. children'[parent[i]] = children[parent[i]]
        BY <1>0, <1>2, <4>1 DEF TypeOK, ImagesTypeOK
      <4> QED BY <1>0, <1>2, <1>3, <4>1, <4>2 DEF ParentOK, Only
    <3> QED BY <3>1, <3>2
  <2> QED BY <2>1, <2>2 DEF StoreInv, ParentsOK
<1> QED BY <1>6, <1>7, <1>8, <1>9, <1>10, <1>11, <1>12, <1>13 DEF StoreInv

\* A creator that finds no layer is restoreCachedImage.
LEMMA CreateInsertKeeps ==
    ASSUME StoreInv, IInv', NEW g \in Threads, CreateInsert(g)
    PROVE  StoreInv'
<1>0. /\ up /\ th[g].pc = "insert" /\ ~locked /\ UNCHANGED world
      /\ HolderOK(g) /\ ThreadOK(g) /\ th[g].hold \in BOOLEAN /\ th[g].id \in Images
      /\ registered \subseteq Containers /\ running \subseteq registered
      /\ \A c \in registered : mount[c] # None
  BY AtLabel DEF CreateInsert, At, StoreInv, TypeOK, UsedOK, ThreadOK
<1>1. CASE Id(g) \in images /\ Goto(g, Created(g)) /\ UNCHANGED imageVars
  <2>1. th[g].id \in images BY <1>1 DEF Id
  <2>2. /\ Only(g) /\ th'[g].hold = th[g].hold /\ HolderOK(g)' /\ th'[g].id = th[g].id
        /\ th'[g].pc \in {"setParent", "release"}
    BY <1>0, <1>1, CreatedStep
  <2> QED BY <1>0, <1>1, <2>1, <2>2, CalmStep DEF world, Deleting
<1>2. CASE /\ Id(g) \notin images /\ LayerExists(Id(g)) /\ Insert(Id(g))
           /\ Goto(g, Created(g))
  BY <1>0, <1>2, InsertKeeps DEF Id
<1>3. CASE /\ Id(g) \notin images /\ ~LayerExists(Id(g)) /\ Finish(g)
           /\ UNCHANGED imageVars
  <2>1. ~Holds(g) BY <1>0, <1>3, HeldExists DEF Id
  <2>2. th[g].op = "cached" BY <1>0, <2>1 DEF HolderOK, Holds
  <2> QED BY <1>0, <1>3, <2>2, FinishStep, CalmStep DEF world, Deleting
<1> QED BY <1>1, <1>2, <1>3 DEF CreateInsert

\* SetParent moves a child in memory and writes its file.
LEMMA SetParentParents ==
    ASSUME StoreInv, NEW id \in Images, NEW p \in images, NEW ok \in BOOLEAN,
           SetParent(id, p, ok)
    PROVE  /\ children' \in [Images -> SUBSET Images]
           /\ \A i \in Images \ {id} : parent'[i] = parent[i]
           /\ \A i \in Images \ {id}, q \in Images :
                i \in children'[q] <=> i \in children[q]
           /\ id \in children'[p]
           /\ id \in content /\ ok => parent'[id] = p
           /\ ~(id \in content /\ ok) => parent' = parent
<1>0. /\ children \in [Images -> SUBSET Images] /\ p \in Images
      /\ parent \in [Images -> Images \cup {None}]
  BY DEF StoreInv, TypeOK, ImagesTypeOK
<1>1. /\ ChildRemoved(id) \in [Images -> SUBSET Images]
      /\ \A i \in Images \ {id}, q \in Images :
           i \in ChildRemoved(id)[q] <=> i \in children[q]
  <2>1. PICK q : q = GetParent(id) OBVIOUS
  <2>2. CASE q \in images
    <3>1. q \in Images BY <2>2 DEF StoreInv, TypeOK, ImagesTypeOK
    <3>2. ChildRemoved(id) = [children EXCEPT ![q] = @ \ {id}]
      BY <2>1, <2>2 DEF ChildRemoved
    <3> QED BY <1>0, <3>1, <3>2
  <2>3. CASE q \notin images
    <3>1. ChildRemoved(id) = children BY <2>1, <2>3 DEF ChildRemoved
    <3> QED BY <1>0, <3>1
  <2> QED BY <2>2, <2>3
<1>2. children' = [ChildRemoved(id) EXCEPT ![p] = @ \cup {id}] BY DEF SetParent
<1>3. parent' = IF id \in content /\ ok THEN [parent EXCEPT ![id] = p] ELSE parent
  BY DEF SetParent
<1>4. /\ children' \in [Images -> SUBSET Images] /\ id \in children'[p]
      /\ \A i \in Images \ {id}, q \in Images : i \in children'[q] <=> i \in children[q]
  BY <1>0, <1>1, <1>2
<1> QED BY <1>0, <1>3, <1>4

LEMMA CreateSetParentKeeps ==
    ASSUME StoreInv, IInv', NEW g \in Threads, CreateSetParent(g)
    PROVE  StoreInv'
<1>0. /\ up /\ th[g].pc = "setParent" /\ ~locked /\ TypeOK
      /\ th \in [Threads -> Thread] /\ th[g] \in Thread
      /\ HolderOK(g) /\ ThreadOK(g) /\ th[g].hold \in BOOLEAN /\ th[g].id \in Images
      /\ UNCHANGED <<config, up, crashes, used, mount, registered, running>>
      /\ registered \subseteq Containers /\ running \subseteq registered
      /\ \A c \in registered : mount[c] # None
  BY AtLabel DEF CreateSetParent, At, StoreInv, TypeOK, UsedOK, ThreadOK, world
<1>1. CASE Finish(g) /\ UNCHANGED imageVars
  BY <1>0, <1>1, FinishStep, CalmStep DEF Deleting
<1>2. CASE /\ th[g].par \in images
           /\ \E ok \in Outcomes("metadata") : SetParent(Id(g), th[g].par, ok)
           /\ \/ Finish(g)
              \/ \E r : th' = [th EXCEPT ![g].pc = "tag", ![g].ref = r]
  <2>1. PICK id \in Images : id = th[g].id BY <1>0
  <2>2. PICK p \in images : p = th[g].par BY <1>2
  <2>3. PICK ok \in Outcomes("metadata") : SetParent(id, p, ok) BY <1>2, <2>1, <2>2 DEF Id
  <2>4. ok \in BOOLEAN /\ ("metadata" \notin config.faults => ok) BY DEF Outcomes
  <2>5. UNCHANGED <<images, content, layers, layerRefs, locked>>
    BY <2>3 DEF SetParent
  <2>6. /\ Only(g) /\ th'[g].hold = th[g].hold /\ HolderOK(g)'
        /\ th'[g].pc \in {"idle", "release", "tag"} /\ (th[g].hold => th'[g].id = th[g].id)
    <3>1. CASE Finish(g) BY <3>1, FinishStep
    <3>2. CASE \E r : th' = [th EXCEPT ![g].pc = "tag", ![g].ref = r]
      <4>1. PICK r : th' = [th EXCEPT ![g].pc = "tag", ![g].ref = r] BY <3>2
      <4>2. PICK x : x = [th[g] EXCEPT !.pc = "tag", !.ref = r] OBVIOUS
      <4>3. x.pc = "tag" /\ x.hold = th[g].hold /\ x.id = th[g].id
        BY <1>0, <4>2 DEF Thread
      <4>4. th' = [th EXCEPT ![g] = x] BY <4>1, <4>2
      <4>5. Only(g) /\ th'[g] = x BY <1>0, <4>4 DEF Only
      <4> QED BY <4>3, <4>5 DEF HolderOK
    <3> QED BY <1>2, <3>1, <3>2
  <2>7. /\ children' \in [Images -> SUBSET Images]
        /\ \A i \in Images \ {id} : parent'[i] = parent[i]
        /\ \A i \in Images \ {id}, q \in Images :
             i \in children'[q] <=> i \in children[q]
        /\ id \in children'[p]
        /\ id \in content /\ ok => parent'[id] = p
        /\ ~(id \in content /\ ok) => parent' = parent
    BY <2>3, <2>4, SetParentParents
  <2>8. TypeOK' BY <1>0, <2>5, <2>7, TypeStep DEF TypeOK, ImagesTypeOK
  <2>9. Balanced' BY <1>0, <2>5, <2>6, BalancedFrame DEF Holds, Deleting
  <2>10. HoldersOK' BY <1>0, <2>6, HoldersStep
  <2>11. DeletesOK' BY <1>0, <2>5, <2>6, DeletesStep DEF Deleting
  <2>12. UsedOK' BY <1>0, <2>5 DEF StoreInv, UsedOK
  <2>13. RestartOK' /\ FreshOK' BY <1>0, <2>5, <2>6, ContentFrame
  <2>14. ParentsOK'
    <3>1. Tidy' = Tidy BY <1>0 DEF Tidy, FilesFail, Recreated
    <3> SUFFICES ASSUME Tidy, NEW i \in Images PROVE ParentOK(i)' BY <3>1 DEF ParentsOK
    <3>2. ParentOK(i) /\ ok BY <2>4 DEF StoreInv, ParentsOK, Tidy, FilesFail
    <3>3. CASE i = id /\ id \in content BY <2>5, <2>7, <3>2, <3>3 DEF ParentOK
    <3>4. CASE i = id /\ id \notin content
      BY <2>5, <2>7, <3>2, <3>4 DEF ParentOK
    <3>5. CASE i # id
      <4>1. parent'[i] = parent[i] BY <2>7, <3>5
      <4>2. CASE parent[i] = None BY <4>1, <4>2 DEF ParentOK
      <4>3. CASE parent[i] # None
        <5>1. /\ i \in content /\ parent[i] \in images
              /\ \/ i \in children[parent[i]]
                 \/ \E u \in Threads : th[u].pc = "deleteFiles" /\ th[u].id = i
          BY <3>2, <4>3 DEF ParentOK
        <5>2. parent[i] \in Images BY <1>0, <5>1 DEF TypeOK, ImagesTypeOK
        <5>3. i \in children[parent[i]] => i \in children'[parent[i]]
          BY <2>7, <3>5, <5>2
        <5>4. \A u \in Threads : th[u].pc = "deleteFiles" => th'[u] = th[u]
          BY <1>0, <2>6 DEF Only
        <5> QED BY <2>5, <4>1, <5>1, <5>3, <5>4 DEF ParentOK
      <4> QED BY <4>2, <4>3
    <3> QED BY <3>3, <3>4, <3>5
  <2> QED BY <2>8, <2>9, <2>10, <2>11, <2>12, <2>13, <2>14 DEF StoreInv
<1> QED BY <1>1, <1>2 DEF CreateSetParent

\* Delete takes the image off the map, and its layer over from the map.
LEMMA DeleteBeginKeeps ==
    ASSUME StoreInv, IInv', NEW g \in Threads, th[g].pc = "delete", ~locked, up,
           th[g].id \in images, DeleteBegin(th[g].id), Goto(g, "deleteFiles"),
           UNCHANGED world
    PROVE  StoreInv'
<1>0. /\ TypeOK /\ th \in [Threads -> Thread] /\ HolderOK(g) /\ th[g].hold \in BOOLEAN
      /\ UNCHANGED <<content, layers, layerRefs, config, up, crashes, used, mount,
                     registered, running>>
      /\ children \in [Images -> SUBSET Images]
      /\ parent \in [Images -> Images \cup {None}] /\ images \subseteq Images
  BY AtLabel DEF StoreInv, DeleteBegin, world, TypeOK, ImagesTypeOK
<1>1. PICK id \in Images : id = th[g].id /\ id \in images BY <1>0
<1>2. /\ images' = images \ {id} /\ locked' = TRUE
      /\ children' = [ChildRemoved(id) EXCEPT ![id] = {}]
      /\ parent' = [i \in Images |-> IF i \in children[id] THEN None ELSE parent[i]]
  BY <1>1 DEF DeleteBegin
<1>3. /\ Only(g) /\ th'[g].pc = "deleteFiles" /\ th'[g].hold = th[g].hold
      /\ th'[g].id = id
  BY <1>0, <1>1, GotoOnly
<1>4. ~Holds(g) /\ Holds(g)' BY <1>0, <1>3 DEF Holds, HolderOK, Deleting
<1>5. /\ ChildRemoved(id) \in [Images -> SUBSET Images]
      /\ \A i \in Images \ {id}, q \in Images :
           i \in children[q] => i \in ChildRemoved(id)[q]
  <2>1. PICK q : q = GetParent(id) OBVIOUS
  <2>2. CASE q \in images
    <3>1. q \in Images BY <1>0, <2>2
    <3>2. ChildRemoved(id) = [children EXCEPT ![q] = @ \ {id}]
      BY <2>1, <2>2 DEF ChildRemoved
    <3> QED BY <1>0, <3>1, <3>2
  <2>3. CASE q \notin images
    <3>1. ChildRemoved(id) = children BY <2>1, <2>3 DEF ChildRemoved
    <3> QED BY <1>0, <3>1
  <2> QED BY <2>2, <2>3
<1>6. \A ch \in Chains : Accounts(ch)' = Accounts(ch)
  <2> TAKE ch \in Chains
  <2>1. ContainersOf(ch)' = ContainersOf(ch) BY <1>0 DEF ContainersOf
  <2>2. Cardinality(HoldersOf(ch)') = Cardinality(HoldersOf(ch))
           - Bit(Holds(g) /\ Chain[th[g].id] = ch)
           + Bit(Holds(g)' /\ Chain[th'[g].id] = ch)
    BY <1>0, <1>3, HoldersChange DEF Only
  <2>3. Cardinality(ImagesOf(ch)') = Cardinality(ImagesOf(ch))
           - Bit(id \in images /\ Chain[id] = ch) + Bit(id \in images' /\ Chain[id] = ch)
    <3>1. \A j : j # id => (j \in images <=> j \in images') BY <1>2
    <3> QED BY <1>0, <3>1, ImagesChange
  <2>4. /\ Cardinality(ImagesOf(ch)) \in Nat /\ Cardinality(ContainersOf(ch)) \in Nat
        /\ Cardinality(HoldersOf(ch)) \in Nat
    BY <1>0, AccountsFinite
  <2> QED BY <1>1, <1>2, <1>3, <1>4, <2>1, <2>2, <2>3, <2>4 DEF Accounts, Bit
<1>7. Balanced' BY <1>0, <1>6 DEF StoreInv, Balanced
<1>8. TypeOK'
  <2>1. children' \in [Images -> SUBSET Images] BY <1>2, <1>5
  <2> QED BY <1>0, <1>2, <2>1, TypeStep DEF TypeOK, ImagesTypeOK
<1>9. HoldersOK'
  <2>1. id \in used BY <1>1 DEF StoreInv, UsedOK
  <2>2. HolderOK(g)' BY <1>0, <1>3, <1>4, <2>1 DEF HolderOK, Holds
  <2> QED BY <1>0, <1>3, <2>2, HoldersStep
<1>10. DeletesOK'
  <2>1. \A u \in Threads : th[u].pc \notin Deleting BY DEF StoreInv, DeletesOK
  <2> QED BY <1>2, <1>3, <2>1 DEF DeletesOK, Only
<1>11. UsedOK' BY <1>0, <1>2 DEF StoreInv, UsedOK
<1>12. RestartOK'
  <2>1. \A i \in content : Attended(i) => Attended(i)'
    BY <1>2, <1>3 DEF Attended, Only
  <2> QED BY <1>0, <2>1 DEF StoreInv, RestartOK
<1>13. FreshOK'
  <2> SUFFICES ASSUME ~Recreated PROVE FreshOK' BY <1>0 DEF FreshOK, Recreated
  <2>1. \A u \in Threads : th[u].pc \in {"set", "insert"} => th[u].id # id
    BY <1>1 DEF StoreInv, FreshOK
  <2> QED BY <1>0, <1>2, <1>3, <2>1 DEF StoreInv, FreshOK, Only
<1>14. ParentsOK'
  <2>1. Tidy' = Tidy BY <1>0 DEF Tidy, FilesFail, Recreated
  <2> SUFFICES ASSUME Tidy, NEW i \in Images, parent'[i] # None PROVE ParentOK(i)'
    BY <2>1 DEF ParentsOK, ParentOK
  <2>2. \A u \in Threads : th[u].pc # "deleteFiles" BY DEF StoreInv, DeletesOK, Deleting
  <2>3. parent'[i] = parent[i] /\ i \notin children[id] BY <1>2
  <2>4. PICK q \in images : q = parent[i] /\ i \in content /\ i \in children[q]
    BY <2>2, <2>3 DEF StoreInv, ParentsOK, ParentOK
  <2>5. q # id /\ q \in Images BY <1>0, <2>3, <2>4
  <2>6. children'[q] = ChildRemoved(id)[q] BY <1>2, <1>5, <2>5
  <2>7. CASE i = id BY <1>0, <1>2, <1>3, <2>3, <2>4, <2>5, <2>7 DEF ParentOK
  <2>8. CASE i # id
    <3>1. i \in children'[q] BY <1>5, <2>4, <2>5, <2>6, <2>8
    <3> QED BY <1>0, <1>2, <2>3, <2>4, <2>5, <3>1 DEF ParentOK
  <2> QED BY <2>7, <2>8
<1> QED BY <1>7, <1>8, <1>9, <1>10, <1>11, <1>12, <1>13, <1>14 DEF StoreInv

LEMMA RmDeleteKeeps ==
    ASSUME StoreInv, IInv', NEW g \in Threads, RmDelete(g)
    PROVE  StoreInv'
<1>0. /\ up /\ th[g].pc = "delete" /\ ~locked /\ UNCHANGED world
      /\ th \in [Threads -> Thread] /\ HolderOK(g) /\ th[g].hold \in BOOLEAN
  BY AtLabel DEF RmDelete, At
<1>1. CASE Return(g) /\ UNCHANGED imageVars
  <2>1. th[g].hold = FALSE BY <1>0 DEF HolderOK
  <2> QED BY <1>0, <1>1, <2>1, ReturnOnly, OrdinaryStep DEF Ordinary
<1>2. CASE Id(g) \in images /\ DeleteBegin(Id(g)) /\ Goto(g, "deleteFiles")
  BY <1>0, <1>2, DeleteBeginKeeps DEF Id
<1> QED BY <1>1, <1>2 DEF RmDelete, Unrecognized

\* The mutex keeps the image from coming back between the two steps.
LEMMA RmDeleteFilesKeeps ==
    ASSUME StoreInv, IInv', NEW g \in Threads, RmDeleteFiles(g)
    PROVE  StoreInv'
<1>0. /\ TypeOK /\ th \in [Threads -> Thread] /\ HolderOK(g) /\ ThreadOK(g)
      /\ th[g].pc = "deleteFiles" /\ Goto(g, "deleteEnd")
      /\ UNCHANGED <<images, children, layers, layerRefs, locked, config, up, crashes,
                     used, mount, registered, running>>
      /\ parent \in [Images -> Images \cup {None}]
  BY AtLabel DEF RmDeleteFiles, DeleteFiles, At, world, StoreInv, TypeOK, ImagesTypeOK
<1>1. PICK id \in Images : id = th[g].id BY <1>0 DEF ThreadOK
<1>2. id \notin images /\ locked /\ \A u \in Threads \ {g} : th[u].pc \notin Deleting
  BY <1>0, <1>1 DEF StoreInv, DeletesOK, Deleting
<1>3. /\ content' \subseteq content /\ content \ {id} \subseteq content'
      /\ \A i \in Images \ {id} : parent'[i] = parent[i]
      /\ "delete" \notin config.faults => content' = content \ {id} /\ parent'[id] = None
  <2>1. PICK m \in Outcomes("delete"), n \in Outcomes("delete") : DeleteFiles(id, m, n)
    BY <1>1 DEF RmDeleteFiles, Id
  <2>2. "delete" \notin config.faults => m /\ n BY DEF Outcomes
  <2> QED BY <1>0, <2>1, <2>2 DEF DeleteFiles
<1>4. /\ Only(g) /\ th'[g].pc = "deleteEnd" /\ th'[g].hold = th[g].hold
      /\ th'[g].id = id
  BY <1>0, <1>1, GotoOnly
<1>5. TypeOK' BY <1>0, TypeStep DEF TypeOK, ImagesTypeOK
<1>6. Balanced'
  <2>1. Holds(g) = TRUE /\ Holds(g)' = TRUE BY <1>0, <1>4 DEF Holds, Deleting
  <2> QED BY <1>0, <1>1, <1>4, <2>1, BalancedFrame
<1>7. HoldersOK'
  <2>1. HolderOK(g)' BY <1>0, <1>4 DEF HolderOK
  <2> QED BY <1>0, <1>4, <2>1, HoldersStep
<1>8. DeletesOK' BY <1>0, <1>2, <1>4 DEF StoreInv, DeletesOK, Only
<1>9. UsedOK' BY <1>0, <1>3 DEF StoreInv, UsedOK
<1>10. RestartOK'
  <2> SUFFICES ASSUME "delete" \notin config.faults, "cached" \notin config.ops
               PROVE  up' /\ \A i \in content' : Attended(i)'
    BY <1>0 DEF RestartOK
  <2>1. up /\ \A i \in content : Attended(i) BY DEF StoreInv, RestartOK
  <2>2. ASSUME NEW i \in content' PROVE Attended(i)'
    <3>1. i # id /\ Attended(i) BY <1>3, <2>1
    <3> QED BY <1>0, <1>1, <1>4, <3>1 DEF Attended, Only
  <2> QED BY <1>0, <2>1, <2>2
<1>11. FreshOK'
  <2> SUFFICES ASSUME ~Recreated PROVE FreshOK' BY <1>0 DEF FreshOK, Recreated
  <2>1. \A u \in Threads : th[u].pc \in {"set", "insert"} => th[u].id # id
    BY <1>0, <1>1 DEF StoreInv, FreshOK
  <2>2. images' \subseteq content' BY <1>0, <1>2, <1>3 DEF StoreInv, FreshOK
  <2>3. ASSUME NEW u \in Threads, th'[u].pc \in {"set", "insert"}
        PROVE  /\ th'[u].id \notin images'
               /\ th'[u].pc = "insert" => th'[u].id \in content'
               /\ \A v \in Threads \ {u} :
                    th'[v].pc \in {"set", "insert", "deleteFiles"} => th'[v].id # th'[u].id
    <3>1. u # g /\ th'[u] = th[u] /\ th[u].id # id BY <1>4, <2>1, <2>3 DEF Only
    <3>2. /\ th[u].id \notin images
          /\ th[u].pc = "insert" => th[u].id \in content
          /\ \A v \in Threads \ {u} :
               th[v].pc \in {"set", "insert", "deleteFiles"} => th[v].id # th[u].id
      BY <2>3, <3>1 DEF StoreInv, FreshOK
    <3> QED BY <1>0, <1>3, <1>4, <3>1, <3>2 DEF Only
  <2> QED BY <2>2, <2>3 DEF FreshOK
<1>12. ParentsOK'
  <2>1. Tidy' = Tidy BY <1>0 DEF Tidy, FilesFail, Recreated
  <2> SUFFICES ASSUME Tidy, NEW i \in Images, parent'[i] # None PROVE ParentOK(i)'
    BY <2>1 DEF ParentsOK, ParentOK
  <2>2. i # id /\ parent'[i] = parent[i] BY <1>3 DEF Tidy, FilesFail
  <2>3. /\ i \in content /\ parent[i] \in images
        /\ \/ i \in children[parent[i]]
           \/ \E u \in Threads : th[u].pc = "deleteFiles" /\ th[u].id = i
    BY <2>2 DEF StoreInv, ParentsOK, ParentOK
  <2>4. i \in children[parent[i]] BY <1>1, <1>2, <2>2, <2>3 DEF Deleting
  <2> QED BY <1>0, <1>3, <2>2, <2>3, <2>4 DEF ParentOK
<1> QED BY <1>5, <1>6, <1>7, <1>8, <1>9, <1>10, <1>11, <1>12 DEF StoreInv

----------------------------------------------------------------------------
(* The daemon ends and starts again                                        *)

\* Every configuration on disk has its layer, whoever attends to the image.
LEMMA AttendedExists ==
    ASSUME StoreInv, "delete" \notin config.faults, "cached" \notin config.ops
    PROVE  up /\ Restorable
<1>1. up /\ \A id \in content : Attended(id) BY DEF StoreInv, RestartOK
<1>2. ASSUME NEW id \in content PROVE LayerExists(id)
  <2>1. id \in Images BY DEF StoreInv, IInv, StoresOK
  <2>2. CASE id \in images BY <1>1, <2>1, <2>2, HeldExists
  <2>3. CASE \E g \in Threads : th[g].id = id /\ th[g].pc \in {"insert", "deleteFiles"}
    <3>1. PICK g \in Threads : th[g].id = id /\ th[g].pc \in {"insert", "deleteFiles"}
      BY <2>3
    <3>2. ThreadOK(g) /\ HolderOK(g) BY AtLabel
    <3>3. Holds(g) BY <3>1, <3>2 DEF Holds, Deleting, ThreadOK, HolderOK
    <3> QED BY <1>1, <2>1, <3>1, <3>3, HeldExists
  <2> QED BY <1>1, <2>2, <2>3 DEF Attended
<1> QED BY <1>1, <1>2 DEF Restorable

LEMMA CrashKeeps ==
    ASSUME StoreInv, IInv', Crash
    PROVE  StoreInv'
<1> DEFINE mounts == [ch \in Chains |-> Cardinality({c \in Containers :
                              mount[c] # None /\ Chain[mount[c]] = ch})]
<1>0. /\ TypeOK /\ up /\ crashes < MaxCrashes /\ crashes' = crashes + 1
      /\ up' = Restorable /\ restore(mounts) /\ "crash" \in config.faults
      /\ th' = [g \in Threads |-> Idle(th[g].calls)]
      /\ UNCHANGED <<config, used, mount, registered, running>>
  BY DEF Crash, StoreInv
<1>1. /\ images' = content
      /\ children' = [p \in Images |-> {id \in content : p \in content /\ parent[id] = p}]
      /\ layerRefs' = [ch \in Chains |->
                        mounts[ch] + Cardinality({id \in content : Chain[id] = ch})]
      /\ locked' = FALSE
      /\ UNCHANGED <<content, parent, layers>>
  BY <1>0 DEF restore
<1>2. \A g \in Threads : th'[g].pc = "idle" /\ th'[g].hold = FALSE BY <1>0 DEF Idle
<1>3. \A ch \in Chains : /\ HoldersOf(ch)' = {} /\ ContainersOf(ch)' = ContainersOf(ch)
                         /\ ImagesOf(ch)' = {id \in content : Chain[id] = ch}
                         /\ mounts[ch] = Cardinality(ContainersOf(ch))
  <2>1. \A ch \in Chains : mounts[ch] = Cardinality(ContainersOf(ch)) BY DEF ContainersOf
  <2> HIDE DEF mounts
  <2>2. \A ch \in Chains : HoldersOf(ch)' = {} BY <1>2 DEF HoldersOf, Holders
  <2> QED BY <1>0, <1>1, <2>1, <2>2 DEF ContainersOf, ImagesOf
<1> HIDE DEF mounts
<1>4. \A ch \in Chains : /\ IsFiniteSet(ImagesOf(ch)') /\ IsFiniteSet(ContainersOf(ch))
                         /\ Cardinality(ImagesOf(ch)') \in Nat
                         /\ Cardinality(ContainersOf(ch)) \in Nat
  <2> TAKE ch \in Chains
  <2>1. ImagesOf(ch)' \subseteq Images BY <1>0, <1>3 DEF TypeOK, ImagesTypeOK
  <2>2. IsFiniteSet(ImagesOf(ch)') BY <2>1, FS_Subset, DaemonAssumption
  <2> QED BY <1>0, <2>2, FS_CardinalityType, AccountsFinite
<1>5. \A ch \in Chains : layerRefs'[ch] = Cardinality(ContainersOf(ch))
                                            + Cardinality(ImagesOf(ch)')
  BY <1>1, <1>3
<1>6. Balanced'
  <2> SUFFICES ASSUME Restorable, NEW ch \in Chains
               PROVE  /\ layerRefs'[ch] = Accounts(ch)'
                      /\ layerRefs'[ch] > 0 => ch \in layers'
    BY <1>0 DEF Balanced
  <2>1. Cardinality(HoldersOf(ch)') = 0 BY <1>3, FS_EmptySet
  <2>2. layerRefs'[ch] = Accounts(ch)' BY <1>3, <1>4, <1>5, <2>1 DEF Accounts
  <2>3. CASE ContainersOf(ch) # {}
    <3>1. Accounts(ch) > 0 BY <1>0, <2>3, AccountsPositive
    <3> QED BY <1>0, <1>1, <2>2, <3>1 DEF StoreInv, Balanced
  <2>4. CASE ImagesOf(ch)' # {}
    <3>1. PICK id \in content : Chain[id] = ch BY <1>3, <2>4
    <3>2. LayerExists(id) BY DEF Restorable
    <3> QED BY <1>1, <2>2, <3>1, <3>2, ImageAssumption DEF LayerExists
  <2>5. CASE ContainersOf(ch) = {} /\ ImagesOf(ch)' = {}
    <3>1. layerRefs'[ch] = 0 BY <1>5, <2>5, FS_EmptySet
    <3> QED BY <2>2, <3>1
  <2> QED BY <2>3, <2>4, <2>5
<1>7. TypeOK'
  <2>1. layerRefs' \in [Chains -> Nat]
    <3>1. \A ch \in Chains : mounts[ch] \in Nat
                             /\ Cardinality({id \in content : Chain[id] = ch}) \in Nat
      BY <1>3, <1>4
    <3> QED BY <1>1, <3>1
  <2>2. children' \in [Images -> SUBSET Images] BY <1>0, <1>1 DEF TypeOK, ImagesTypeOK
  <2>3. up' \in BOOLEAN /\ crashes' \in 0 .. MaxCrashes
    BY <1>0, DaemonAssumption DEF TypeOK, Restorable
  <2> QED BY <1>0, <1>1, <2>1, <2>2, <2>3
          DEF TypeOK, ImagesTypeOK, IInv, StoresOK, ThreadsOK
<1>8. HoldersOK' BY <1>2 DEF HoldersOK, HolderOK
<1>9. DeletesOK' BY <1>2 DEF DeletesOK, Deleting
<1>10. UsedOK' BY <1>0, <1>1 DEF StoreInv, UsedOK
<1>11. RestartOK' BY <1>0, <1>1, AttendedExists DEF RestartOK, Attended
<1>12. FreshOK' BY <1>1, <1>2 DEF FreshOK
<1>13. ParentsOK'
  <2>1. Tidy' = Tidy BY <1>0 DEF Tidy, FilesFail, Recreated
  <2> SUFFICES ASSUME Tidy, NEW i \in Images, parent[i] # None PROVE ParentOK(i)'
    BY <1>1, <2>1 DEF ParentsOK, ParentOK
  <2>2. images \subseteq content BY <1>0 DEF StoreInv, FreshOK, Tidy
  <2>3. i \in content /\ parent[i] \in content /\ parent[i] \in Images
    BY <1>0, <2>2 DEF StoreInv, ParentsOK, ParentOK, TypeOK, ImagesTypeOK
  <2>4. i \in children'[parent[i]] BY <1>1, <2>3
  <2> QED BY <1>1, <2>3, <2>4 DEF ParentOK
<1> QED BY <1>6, <1>7, <1>8, <1>9, <1>10, <1>11, <1>12, <1>13 DEF StoreInv

LEMMA InitStoreInv == Init => StoreInv
<1> SUFFICES ASSUME Init PROVE StoreInv OBVIOUS
<1>0. IInv BY InitIInv
<1>1. /\ config \in Setups /\ up = TRUE /\ crashes = 0
      /\ images = config.start.images /\ content = images /\ used = images
      /\ parent = config.start.parent
      /\ children = [p \in Images |-> {id \in images : parent[id] = p}]
      /\ layers = {Chain[id] : id \in images} \ {None}
      /\ layerRefs = [ch \in Chains |-> Cardinality({id \in images : Chain[id] = ch})]
      /\ locked = FALSE
      /\ mount = [c \in Containers |-> None] /\ registered = {} /\ running = {}
      /\ th = [g \in Threads |-> Idle(0)]
  BY DEF Init
<1>2. /\ images \subseteq Images /\ parent \in [Images -> Images \cup {None}]
      /\ \A id \in Images : parent[id] # None => {id, parent[id]} \subseteq images
  BY <1>1, DaemonAssumption
<1>3. \A g \in Threads : th[g].pc = "idle" /\ th[g].hold = FALSE BY <1>1 DEF Idle
<1>4. \A ch \in Chains : IsFiniteSet(ImagesOf(ch)) /\ Cardinality(ImagesOf(ch)) \in Nat
  <2> TAKE ch \in Chains
  <2>1. ImagesOf(ch) \subseteq Images BY <1>2 DEF ImagesOf
  <2>2. IsFiniteSet(ImagesOf(ch)) BY <2>1, FS_Subset, DaemonAssumption
  <2> QED BY <2>2, FS_CardinalityType
<1>5. TypeOK
  <2>1. layerRefs \in [Chains -> Nat] BY <1>1, <1>4 DEF ImagesOf
  <2>2. layers \subseteq Chains BY <1>1, <1>2, ImageAssumption
  <2>3. children \in [Images -> SUBSET Images] BY <1>1, <1>2
  <2>4. 0 \in 0 .. MaxCrashes BY DaemonAssumption
  <2>5. mount \in [Containers -> Images \cup {None}] BY <1>1
  <2> QED BY <1>0, <1>1, <1>2, <2>1, <2>2, <2>3, <2>4, <2>5
          DEF TypeOK, ImagesTypeOK, IInv, ThreadsOK
<1>6. Balanced
  <2> SUFFICES ASSUME NEW ch \in Chains
               PROVE  layerRefs[ch] = Accounts(ch) /\ (layerRefs[ch] > 0 => ch \in layers)
    BY DEF Balanced
  <2>1. HoldersOf(ch) = {} BY <1>3 DEF HoldersOf, Holders
  <2>2. ContainersOf(ch) = {} BY <1>1 DEF ContainersOf
  <2>3. layerRefs[ch] = Cardinality(ImagesOf(ch)) BY <1>1 DEF ImagesOf
  <2>4. Cardinality({}) = 0 BY FS_EmptySet
  <2>5. Accounts(ch) = layerRefs[ch] BY <1>4, <2>1, <2>2, <2>3, <2>4 DEF Accounts
  <2>6. CASE ImagesOf(ch) = {} BY <2>3, <2>4, <2>5, <2>6
  <2>7. CASE ImagesOf(ch) # {}
    <3>1. PICK id \in images : Chain[id] = ch BY <2>7 DEF ImagesOf
    <3>2. ch # None BY ImageAssumption
    <3> QED BY <1>1, <2>5, <3>1, <3>2
  <2> QED BY <2>6, <2>7
<1>7. HoldersOK BY <1>3 DEF HoldersOK, HolderOK
<1>8. DeletesOK BY <1>3 DEF DeletesOK, Deleting
<1>9. UsedOK BY <1>1 DEF UsedOK
<1>10. RestartOK BY <1>1 DEF RestartOK, Attended
<1>11. FreshOK BY <1>1, <1>3 DEF FreshOK
<1>12. ParentsOK BY <1>1, <1>2 DEF ParentsOK, ParentOK
<1> QED BY <1>0, <1>5, <1>6, <1>7, <1>8, <1>9, <1>10, <1>11, <1>12 DEF StoreInv

LEMMA NextStoreInv == StoreInv /\ [Next]_vars => StoreInv'
<1> SUFFICES ASSUME StoreInv, [Next]_vars PROVE StoreInv' OBVIOUS
<1>0. IInv' BY NextIInv DEF StoreInv
<1>1. ASSUME NEW g \in Threads, Rmi(g) PROVE StoreInv'
  BY <1>0, <1>1, CallsCalm, RmCalm, RmDeleteKeeps, RmDeleteFilesKeeps, RmDeleteEnds
     DEF Rmi
<1>2. ASSUME NEW g \in Threads, Creation(g) PROVE StoreInv'
  BY <1>0, <1>2, CallsCalm, CommitHolds, PullHolds, CreateSetKeeps, CreateInsertKeeps,
     CreateSetParentKeeps, PullOldTagCalm, PullAddDigestCalm, AddTagCalm, CreateReleases,
     SetRWLayerKeeps, RegisterCalm
     DEF Creation
<1>3. ASSUME NEW c \in Containers, StartOrStop(c) \/ RemoveContainer(c) PROVE StoreInv'
  BY <1>0, <1>3, StartOrStopKeeps, RemoveContainerKeeps
<1>4. CASE Crash BY <1>0, <1>4, CrashKeeps
<1>5. CASE UNCHANGED vars
  <2>1. TypeOK'
    BY <1>0, <1>5, TypeStep DEF vars, imageVars, StoreInv, TypeOK, ImagesTypeOK
  <2>2. UsedOK' BY <1>5 DEF vars, imageVars, StoreInv, UsedOK
  <2> QED BY <1>0, <1>5, <2>1, <2>2, StillFrame, StillBalanced
          DEF vars, imageVars, StoreInv
<1> QED BY <1>1, <1>2, <1>3, <1>4, <1>5 DEF Next

----------------------------------------------------------------------------
\* What all operations on images and every crash keep of layers, parents and
\* configurations.
THEOREM StoreInvariant == Spec => []StoreInv
<1>1. Init => StoreInv BY InitStoreInv
<1>2. StoreInv /\ [Next]_vars => StoreInv' BY NextStoreInv
<1> QED BY <1>1, <1>2, PTL DEF Spec

\* The stores, threads and containers stay of their types; in particular no
\* layer is released more often than it was retained.
THEOREM ImagesTypeCorrect == Spec => []TypeOK
<1>1. StoreInv => TypeOK BY DEF StoreInv
<1> QED BY <1>1, StoreInvariant, PTL

\* Known images, containers and the threads of Create and Delete account for
\* every reference to a layer, and a layer they refer to exists.
THEOREM LayersStayBalanced == Spec => []LayersBalanced
<1>1. StoreInv => LayersBalanced
  BY DEF StoreInv, Balanced, LayersBalanced, Accounts, ImagesOf, ContainersOf, HoldersOf
<1> QED BY <1>1, StoreInvariant, PTL

\* Where no file stays behind, the parent file of an image and the children
\* that image/store.go keeps in memory agree.
THEOREM ParentsStayKnown == Spec => []ParentsAgree
<1>1. StoreInv => ParentsAgree
  <2> SUFFICES ASSUME StoreInv, Tidy, NEW id \in images, GetParent(id) # None
               PROVE  GetParent(id) \in images /\ id \in children[GetParent(id)]
    BY DEF ParentsAgree, Tidy
  <2>1. id \in Images /\ GetParent(id) = parent[id]
    BY DEF StoreInv, IInv, StoresOK, GetParent
  <2>2. ParentOK(id) BY <2>1 DEF StoreInv, ParentsOK
  <2>3. \A g \in Threads : th[g].pc = "deleteFiles" => th[g].id # id
    BY DEF StoreInv, DeletesOK, Deleting
  <2> QED BY <2>1, <2>2, <2>3 DEF ParentOK
<1> QED BY <1>1, StoreInvariant, PTL

\* The daemon that ends between any two steps starts again: image/store.go's
\* restore finds the layer of every configuration.
THEOREM RestartAlwaysSucceeds == Spec => []RestartSucceeds
<1>1. StoreInv => RestartSucceeds BY AttendedExists DEF RestartSucceeds
<1> QED BY <1>1, StoreInvariant, PTL
=============================================================================
