----------------------------- MODULE LayerStore -----------------------------
(***************************************************************************)
(* The layer store (layer/layer_store.go, ro_layer.go, mounted_layer.go,   *)
(* filestore.go): reference-counted read-only layers that form chains,     *)
(* writable layers on top of them, their metadata on disk and their data   *)
(* in the graph driver.                                                    *)
(*                                                                         *)
(* Threads are the goroutines that call the store.  layerL protects        *)
(* layerMap and the reference counts, mountL the map of writable layers; a *)
(* critical section that touches neither the disk nor the driver is one    *)
(* step, the others are one step per operation of the disk or the driver,  *)
(* any of which may fail or be the last before a crash of the daemon.      *)
(*                                                                         *)
(* The ID of a layer is a hash of its parent's ID and its content, so the  *)
(* parent is a function of the ID.  While it is retained a layer stays in  *)
(* layerMap under its ID, so the ID also stands for the roLayer object.    *)
(***************************************************************************)
EXTENDS Integers, FiniteSets

CONSTANTS
    Threads,        \* goroutines that call the store
    Chains,         \* ChainIDs
    Parent,         \* the ChainID below each ChainID
    Names,          \* names of writable layers
    Refs,           \* identities of references handed out to callers
    Nil,            \* no layer, no thread, no name
    Absent,         \* no metadata for a name
    MaxDepth,       \* maxLayerDepth
    FaultSets,      \* the environments to look at: sets of things that may fail
    MaxCrashes      \* bound: crashes of the daemon

AllFaults == {"create", "commit", "rmData", "rmMeta", "mount", "saveId",
              "saveParent", "rmMount", "rmInit", "rmMountMeta", "crash"}

ASSUME StoreAssumption ==
    /\ IsFiniteSet(Threads) /\ IsFiniteSet(Chains) /\ IsFiniteSet(Names)
    /\ IsFiniteSet(Refs)
    /\ Nil \notin Threads \cup Chains \cup Names \cup Refs
    /\ Absent \notin Chains \cup {Nil}
    /\ Parent \in [Chains -> Chains \cup {Nil}]
    /\ \A c \in Chains : Parent[c] # c
    /\ MaxDepth \in Nat /\ MaxCrashes \in Nat
    /\ FaultSets \subseteq SUBSET AllFaults

VARIABLES
    layers,     \* layerMap: the ChainIDs in it
    count,      \* referenceCount of each layer
    refs,       \* references of each layer
    mounts,     \* mounts: the names in it
    mparent,    \* parent of each mountedLayer
    mrefs,      \* references of each mountedLayer
    layerL,     \* holder of layerL across steps
    mountL,     \* holder of mountL across steps
    th,         \* the threads
    meta,       \* disk: metadata of each layer
    mmeta,      \* disk: metadata of each name: Absent, or the parent it names
    data,       \* driver: the layers whose content exists
    mdata,      \* driver: Absent, or the layer each writable layer was created on
    faults,     \* what may fail: operations of the disk and the driver, the daemon
    crashes

memVars == <<layers, count, refs, mounts, mparent, mrefs, layerL, mountL, th>>
diskVars == <<meta, mmeta, data, mdata>>
vars == <<memVars, diskVars, faults, crashes>>

LayerOrNil == Chains \cup {Nil}

PCs == {"idle", "create", "insert", "unwind", "release", "delete", "deleteMeta",
        "mount", "saveId", "saveParent", "rmMount", "rmInit", "rmMountMeta"}

\* hold is the layer whose reference count the operation answers for.
ThreadRec == [pc : PCs, chain : LayerOrNil, hold : LayerOrNil,
              name : Names \cup {Nil}, ref : Refs \cup {Nil}]

IdleThread == [pc |-> "idle", chain |-> Nil, hold |-> Nil, name |-> Nil, ref |-> Nil]

TypeOK ==
    /\ layers \subseteq Chains
    /\ count \in [Chains -> Nat]
    /\ refs \in [Chains -> SUBSET Refs]
    /\ mounts \subseteq Names
    /\ mparent \in [Names -> LayerOrNil]
    /\ mrefs \in [Names -> SUBSET Refs]
    /\ layerL \in Threads \cup {Nil} /\ mountL \in Threads \cup {Nil}
    /\ th \in [Threads -> ThreadRec]
    /\ meta \in [Chains -> {"none", "full", "partial"}]
    /\ mmeta \in [Names -> LayerOrNil \cup {Absent}]
    /\ data \subseteq Chains
    /\ mdata \in [Names -> LayerOrNil \cup {Absent}]
    /\ faults \subseteq AllFaults /\ crashes \in 0..MaxCrashes

Init ==
    /\ layers = {} /\ count = [c \in Chains |-> 0] /\ refs = [c \in Chains |-> {}]
    /\ mounts = {} /\ mparent = [m \in Names |-> Nil] /\ mrefs = [m \in Names |-> {}]
    /\ layerL = Nil /\ mountL = Nil
    /\ th = [t \in Threads |-> IdleThread]
    /\ meta = [c \in Chains |-> "none"] /\ mmeta = [m \in Names |-> Absent]
    /\ data = {} /\ mdata = [m \in Names |-> Absent]
    /\ faults \in FaultSets /\ crashes = 0

At(t, l) == th[t].pc = l
Goto(t, l) == th' = [th EXCEPT ![t].pc = l]

\* The identity of a reference that is made now, or that the operation which
\* starts now will make: nothing else has it.
FreshRef(r) ==
    /\ \A c \in Chains : r \notin refs[c]
    /\ \A m \in Names : r \notin mrefs[m]
    /\ \A t \in Threads : r # th[t].ref

\* roLayer.depth
Depth[c \in Chains] == IF Parent[c] = Nil THEN 1 ELSE Depth[Parent[c]] + 1

\* The operation of t is over: it gives back the locks it holds.
Finish(t) ==
    /\ th' = [th EXCEPT ![t] = IdleThread]
    /\ layerL' = IF layerL = t THEN Nil ELSE layerL
    /\ mountL' = IF mountL = t THEN Nil ELSE mountL

\* The operation of t failed or ends: it releases the layer it retains, if any.
Unwind(t) ==
    IF th[t].hold = Nil
    THEN Finish(t)
    ELSE /\ th' = [th EXCEPT ![t].pc = "unwind", ![t].ref = Nil]
         /\ UNCHANGED <<layerL, mountL>>

----------------------------------------------------------------------------
(* releaseLayer: layerL is held from the first step to the last            *)

UnwindLock(t) ==
    /\ At(t, "unwind") /\ layerL = Nil
    /\ layerL' = t /\ Goto(t, "release")
    /\ UNCHANGED <<layers, count, refs, mounts, mparent, mrefs, mountL, diskVars, faults, crashes>>

\* Mutant of IsLast: the layer goes whoever else retains it.
IsLastAlways(c) == TRUE

IsLast(c) == count[c] = 1

\* One turn of the loop: the count goes down, and at zero the layer goes.
ReleaseLayer(t) ==
    /\ At(t, "release")
    /\ LET c == th[t].hold IN
       /\ count' = [count EXCEPT ![c] = @ - 1]
       /\ IF IsLast(c)
          THEN /\ th' = [th EXCEPT ![t].pc = "delete", ![t].chain = c, ![t].hold = Nil]
               /\ UNCHANGED <<layerL, mountL>>
          ELSE Finish(t)
    /\ UNCHANGED <<layers, refs, mounts, mparent, mrefs, diskVars, faults, crashes>>

\* Mutant of DeleteData: the metadata goes, the content stays.
DeleteDataNever(t) ==
    /\ At(t, "delete")
    /\ Goto(t, "deleteMeta")
    /\ UNCHANGED <<layers, count, refs, mounts, mparent, mrefs, layerL, mountL,
                   diskVars, faults, crashes>>

\* deleteLayer: driver.Remove
DeleteData(t) ==
    /\ At(t, "delete")
    /\ data' = data \ {th[t].chain} /\ Goto(t, "deleteMeta")
    /\ UNCHANGED <<layers, count, refs, mounts, mparent, mrefs, layerL, mountL,
                   meta, mmeta, mdata, faults, crashes>>

\* The driver fails before or after it has removed some of the content.  The layer
\* stays in layerMap with a count of zero.
DeleteDataFails(t) ==
    /\ At(t, "delete") /\ "rmData" \in faults
    /\ data' \in {data, data \ {th[t].chain}}
    /\ Finish(t)
    /\ UNCHANGED <<layers, count, refs, mounts, mparent, mrefs, meta, mmeta, mdata,
                   faults, crashes>>

\* deleteLayer: store.Remove, then the loop goes on with the parent, which
\* the layer retained.
DeleteMeta(t) ==
    /\ At(t, "deleteMeta")
    /\ LET c == th[t].chain IN
       /\ meta' = [meta EXCEPT ![c] = "none"]
       /\ layers' = layers \ {c}
       /\ IF Parent[c] = Nil
          THEN Finish(t)
          ELSE /\ th' = [th EXCEPT ![t].pc = "release", ![t].chain = Nil,
                                   ![t].hold = Parent[c]]
               /\ UNCHANGED <<layerL, mountL>>
    /\ UNCHANGED <<count, refs, mounts, mparent, mrefs, mmeta, data, mdata, faults, crashes>>

\* os.RemoveAll may fail before or after it has removed some of the files.
DeleteMetaFails(t) ==
    /\ At(t, "deleteMeta") /\ "rmMeta" \in faults
    /\ \E left \in {meta[th[t].chain], "partial"} :
          meta' = [meta EXCEPT ![th[t].chain] = left]
    /\ Finish(t)
    /\ UNCHANGED <<layers, count, refs, mounts, mparent, mrefs, mmeta, data, mdata, faults, crashes>>

----------------------------------------------------------------------------
(* Read-only layers                                                        *)

\* getWithoutLock
Retain(c) == count' = [count EXCEPT ![c] = @ + 1]

\* Mutant of Get: the lock is not taken.
GetUnlocked(c, r) ==
    /\ c \in layers /\ FreshRef(r)
    /\ Retain(c)
    /\ refs' = [refs EXCEPT ![c] = @ \cup {r}]
    /\ UNCHANGED <<layers, mounts, mparent, mrefs, layerL, mountL, th, diskVars, faults, crashes>>

\* Get
Get(c, r) ==
    /\ layerL = Nil /\ c \in layers /\ FreshRef(r)
    /\ Retain(c)
    /\ refs' = [refs EXCEPT ![c] = @ \cup {r}]
    /\ UNCHANGED <<layers, mounts, mparent, mrefs, layerL, mountL, th, diskVars, faults, crashes>>

\* Mutant of HasReference: a reference may be released twice.
HasAnyReference(c, r) == TRUE

\* roLayer.hasReference
HasReference(c, r) == r \in refs[c]

\* Release; a reference the layer does not know changes nothing.
Release(t, c, r) ==
    /\ At(t, "idle") /\ layerL = Nil /\ c \in layers /\ HasReference(c, r)
    /\ refs' = [refs EXCEPT ![c] = @ \ {r}]
    /\ layerL' = t
    /\ th' = [th EXCEPT ![t].pc = "release", ![t].hold = c]
    /\ UNCHANGED <<layers, count, mounts, mparent, mrefs, mountL, diskVars, faults, crashes>>

\* registerWithDescriptor: p.depth() >= maxLayerDepth
TooDeep(p) == Depth[p] >= MaxDepth

\* registerWithDescriptor: the parent is retained until the layer takes it over.
RegisterBegin(t, c, r) ==
    /\ At(t, "idle") /\ FreshRef(r)
    /\ LET p == Parent[c]
           begin(l) == th' = [th EXCEPT ![t].pc = l, ![t].chain = c, ![t].hold = p,
                                        ![t].ref = r]
       IN  \/ /\ p = Nil
              /\ begin("create")
              /\ UNCHANGED count
           \/ /\ p \in layers /\ layerL = Nil
              /\ Retain(p)
              /\ begin(IF TooDeep(p) THEN "unwind" ELSE "create")
    /\ UNCHANGED <<layers, refs, mounts, mparent, mrefs, layerL, mountL, diskVars, faults, crashes>>

\* driver.Create, the metadata transaction and applyTar: nothing that another
\* thread can see until the transaction is committed.
RegisterCreate(t) ==
    /\ At(t, "create")
    /\ Goto(t, "insert")
    /\ UNCHANGED <<layers, count, refs, mounts, mparent, mrefs, layerL, mountL,
                   diskVars, faults, crashes>>

RegisterCreateFails(t) ==
    /\ At(t, "create") /\ "create" \in faults
    /\ Unwind(t)
    /\ UNCHANGED <<layers, count, refs, mounts, mparent, mrefs, diskVars, faults, crashes>>

\* Another thread has registered the same layer: the caller gets a reference
\* to it, and the content and the parent of its own attempt are released.
RegisterExists(t) ==
    /\ At(t, "insert") /\ layerL = Nil
    /\ LET c == th[t].chain IN
       /\ c \in layers
       /\ Retain(c)
       /\ refs' = [refs EXCEPT ![c] = @ \cup {th[t].ref}]
    /\ Unwind(t)
    /\ UNCHANGED <<layers, mounts, mparent, mrefs, diskVars, faults, crashes>>

\* tx.Commit renames a directory: it fails when the target exists.
RegisterCommit(t) ==
    /\ At(t, "insert") /\ layerL = Nil
    /\ LET c == th[t].chain IN
       /\ c \notin layers /\ meta[c] = "none"
       /\ meta' = [meta EXCEPT ![c] = "full"]
       /\ data' = data \cup {c}
       /\ layers' = layers \cup {c}
       /\ count' = [count EXCEPT ![c] = 1]
       /\ refs' = [refs EXCEPT ![c] = {th[t].ref}]
    /\ th' = [th EXCEPT ![t] = IdleThread]
    /\ UNCHANGED <<mounts, mparent, mrefs, layerL, mountL, mmeta, mdata, faults, crashes>>

RegisterCommitFails(t) ==
    /\ At(t, "insert") /\ layerL = Nil
    /\ LET c == th[t].chain IN
       /\ c \notin layers
       /\ meta[c] # "none" \/ "commit" \in faults
    /\ Unwind(t)
    /\ UNCHANGED <<layers, count, refs, mounts, mparent, mrefs, diskVars, faults, crashes>>

----------------------------------------------------------------------------
(* Writable layers: mountL is held from the first step to the last         *)

\* CreateRWLayer up to the retention of the parent.  The name is the ID of a new
\* container: no metadata has been left under it.
CreateRWLayer(t, m, p, r) ==
    /\ At(t, "idle") /\ mountL = Nil /\ m \notin mounts /\ FreshRef(r)
    /\ mmeta[m] = Absent
    /\ \/ p = Nil /\ UNCHANGED count
       \/ p \in layers /\ layerL = Nil /\ Retain(p)
    /\ mountL' = t
    /\ th' = [th EXCEPT ![t].pc = "mount", ![t].name = m, ![t].hold = p,
                            ![t].ref = r]
    /\ UNCHANGED <<layers, refs, mounts, mparent, mrefs, layerL, diskVars, faults, crashes>>

\* initMount and driver.CreateReadWrite
MountCreate(t) ==
    /\ At(t, "mount")
    /\ mdata' = [mdata EXCEPT ![th[t].name] = th[t].hold]
    /\ Goto(t, "saveId")
    /\ UNCHANGED <<layers, count, refs, mounts, mparent, mrefs, layerL, mountL,
                   meta, mmeta, data, faults, crashes>>

\* A step of CreateRWLayer fails: what was written so far stays.
CreateRWLayerFails(t) ==
    /\ th[t].pc \in {"mount", "saveId", "saveParent"} \cap faults
    /\ Unwind(t)
    /\ UNCHANGED <<layers, count, refs, mounts, mparent, mrefs, diskVars, faults, crashes>>

\* saveMount: SetMountID and SetInitID
SaveMountID(t) ==
    /\ At(t, "saveId")
    /\ mmeta' = [mmeta EXCEPT ![th[t].name] = Nil]
    /\ Goto(t, "saveParent")
    /\ UNCHANGED <<layers, count, refs, mounts, mparent, mrefs, layerL, mountL,
                   meta, data, mdata, faults, crashes>>

\* saveMount: SetMountParent; the mountedLayer takes over the parent.
SaveMountParent(t) ==
    /\ At(t, "saveParent")
    /\ LET m == th[t].name IN
       /\ mmeta' = [mmeta EXCEPT ![m] = th[t].hold]
       /\ mounts' = mounts \cup {m}
       /\ mparent' = [mparent EXCEPT ![m] = th[t].hold]
       /\ mrefs' = [mrefs EXCEPT ![m] = {th[t].ref}]
    /\ Finish(t)
    /\ UNCHANGED <<layers, count, refs, meta, data, mdata, faults, crashes>>

GetRWLayer(m, r) ==
    /\ mountL = Nil /\ m \in mounts /\ FreshRef(r)
    /\ mrefs' = [mrefs EXCEPT ![m] = @ \cup {r}]
    /\ UNCHANGED <<layers, count, refs, mounts, mparent, layerL, mountL, th,
                   diskVars, faults, crashes>>

\* Mutant of IsLastRW: the writable layer goes whoever else uses it.
IsLastRWAlways(m, r) == TRUE

IsLastRW(m, r) == mrefs[m] = {r}

\* ReleaseRWLayer: only the last reference removes the layer; one that the
\* layer does not know changes nothing.
ReleaseRWLayer(t, m, r) ==
    /\ At(t, "idle") /\ mountL = Nil /\ m \in mounts /\ r \in mrefs[m]
    /\ mrefs' = [mrefs EXCEPT ![m] = @ \ {r}]
    /\ IF IsLastRW(m, r)
       THEN /\ mountL' = t
            /\ th' = [th EXCEPT ![t].pc = "rmMount", ![t].name = m, ![t].ref = r]
       ELSE UNCHANGED <<mountL, th>>
    /\ UNCHANGED <<layers, count, refs, mounts, mparent, layerL, diskVars, faults, crashes>>

\* driver.Remove(m.mountID)
RemoveMountData(t) ==
    /\ At(t, "rmMount")
    /\ mdata' = [mdata EXCEPT ![th[t].name] = Absent]
    /\ Goto(t, "rmInit")
    /\ UNCHANGED <<layers, count, refs, mounts, mparent, mrefs, layerL, mountL,
                   meta, mmeta, data, faults, crashes>>

\* driver.Remove(m.initID)
RemoveInitData(t) ==
    /\ At(t, "rmInit")
    /\ Goto(t, "rmMountMeta")
    /\ UNCHANGED <<layers, count, refs, mounts, mparent, mrefs, layerL, mountL,
                   diskVars, faults, crashes>>

\* One of the removals fails, before or after it has removed some of the content
\* or of the files: retakeReference.  What was removed is gone.
ReleaseRWLayerFails(t) ==
    LET m == th[t].name IN
    /\ th[t].pc \in {"rmMount", "rmInit", "rmMountMeta"} \cap faults
    /\ mrefs' = [mrefs EXCEPT ![m] = @ \cup {th[t].ref}]
    /\ \E left \in {mdata[m], Absent} :
          mdata' = IF At(t, "rmMount") THEN [mdata EXCEPT ![m] = left] ELSE mdata
    /\ \E left \in {mmeta[m], Nil, Absent} :
          mmeta' = IF At(t, "rmMountMeta") THEN [mmeta EXCEPT ![m] = left] ELSE mmeta
    /\ Finish(t)
    /\ UNCHANGED <<layers, count, refs, mounts, mparent, meta, data, faults, crashes>>

\* store.RemoveMount; the parent is released as soon as layerL is free.
RemoveMountMeta(t) ==
    /\ At(t, "rmMountMeta")
    /\ LET m == th[t].name IN
       /\ mmeta' = [mmeta EXCEPT ![m] = Absent]
       /\ mounts' = mounts \ {m}
       /\ IF mparent[m] = Nil
          THEN Finish(t)
          ELSE /\ th' = [th EXCEPT ![t].pc = "unwind", ![t].hold = mparent[m],
                                   ![t].ref = Nil]
               /\ UNCHANGED <<layerL, mountL>>
    /\ UNCHANGED <<layers, count, refs, mparent, mrefs, meta, data, mdata, faults, crashes>>

----------------------------------------------------------------------------
(* Crash of the daemon, and NewStoreFromGraphDriver                        *)

\* Sets of layers that can be loaded together: complete metadata, and that of
\* the parent loaded first.
Loadable == {S \in SUBSET Chains :
                \A c \in S : meta[c] = "full" /\ Parent[c] \in S \cup {Nil}}
LoadedLayers == UNION Loadable

LoadedMounts == {m \in Names : mmeta[m] # Absent /\ mmeta[m] \in LoadedLayers \cup {Nil}}

\* Mutant of LoadedCount: the writable layers are forgotten.
LoadedCountOfLayers(c) == Cardinality({d \in LoadedLayers : Parent[d] = c})

\* l.parent.referenceCount++ for every layer, p.referenceCount++ for every mount
LoadedCount(c) ==
    Cardinality({d \in LoadedLayers : Parent[d] = c})
      + Cardinality({m \in LoadedMounts : mmeta[m] = c})

Restart ==
    /\ "crash" \in faults /\ crashes < MaxCrashes /\ crashes' = crashes + 1
    /\ layers' = LoadedLayers
    /\ count' = [c \in Chains |-> IF c \in LoadedLayers THEN LoadedCount(c) ELSE 0]
    /\ refs' = [c \in Chains |-> {}]
    /\ mounts' = LoadedMounts
    /\ mparent' = [m \in Names |-> IF m \in LoadedMounts THEN mmeta[m] ELSE Nil]
    /\ mrefs' = [m \in Names |-> {}]
    /\ layerL' = Nil /\ mountL' = Nil
    /\ th' = [t \in Threads |-> IdleThread]
    /\ UNCHANGED <<diskVars, faults>>

----------------------------------------------------------------------------
Step(t) ==
    \/ \E c \in Chains, r \in Refs : RegisterBegin(t, c, r) \/ Release(t, c, r)
    \/ RegisterCreate(t) \/ RegisterCreateFails(t)
    \/ RegisterExists(t) \/ RegisterCommit(t) \/ RegisterCommitFails(t)
    \/ UnwindLock(t) \/ ReleaseLayer(t) \/ DeleteData(t) \/ DeleteDataFails(t)
    \/ DeleteMeta(t) \/ DeleteMetaFails(t)
    \/ \E m \in Names, p \in LayerOrNil, r \in Refs : CreateRWLayer(t, m, p, r)
    \/ \E m \in Names, r \in Refs : ReleaseRWLayer(t, m, r)
    \/ MountCreate(t) \/ SaveMountID(t) \/ SaveMountParent(t) \/ CreateRWLayerFails(t)
    \/ RemoveMountData(t) \/ RemoveInitData(t) \/ RemoveMountMeta(t)
    \/ ReleaseRWLayerFails(t)

Next ==
    \/ \E t \in Threads : Step(t)
    \/ \E c \in Chains, r \in Refs : Get(c, r)
    \/ \E m \in Names, r \in Refs : GetRWLayer(m, r)
    \/ Restart

Spec == Init /\ [][Next]_vars

----------------------------------------------------------------------------
(* Safety                                                                  *)

\* What retains a layer besides the references handed out: the layers and the
\* writable layers on top of it, and the operations under way.
Children(c) == {d \in layers : Parent[d] = c}
MountsOn(c) == {m \in mounts : mparent[m] = c}
Holders(c) == {t \in Threads : th[t].hold = c}

\* referenceCount counts exactly what retains the layer, whatever failed or
\* crashed before.
RefCounts ==
    \A c \in layers :
        count[c] = Cardinality(refs[c]) + Cardinality(Children(c))
                     + Cardinality(MountsOn(c)) + Cardinality(Holders(c))

\* A layer that anything retains is in layerMap: releaseLayer never takes a
\* layer away under a caller, a child, a container or an operation.
RetainedPresent ==
    /\ \A c \in Chains : refs[c] # {} => c \in layers
    /\ \A d \in layers : Parent[d] \in layers \cup {Nil}
    /\ \A m \in mounts : mparent[m] \in layers \cup {Nil}
    /\ \A t \in Threads : th[t].hold \in layers \cup {Nil}

\* The panics of releaseLayer ("layer not retained", "cannot delete referenced
\* layer") are never reached.
NoPanic ==
    \A t \in Threads : At(t, "release") =>
        /\ count[th[t].hold] > 0
        /\ count[th[t].hold] = 1 => refs[th[t].hold] = {}

\* No removal fails or is interrupted by a crash.
Orderly ==
    faults \cap {"rmData", "rmMeta", "rmMount", "rmInit", "rmMountMeta", "crash"} = {}

\* The layers that have their content, and all their ancestors'.
Intact ==
    UNION {S \in SUBSET Chains : \A c \in S : c \in data /\ Parent[c] \in S \cup {Nil}}

\* A layer that has its content survives a crash at any moment, whatever failed or
\* crashed before: its metadata is written first and removed last.  And a layer
\* that a caller relies on has its content if removals have been orderly.
ReferencedIsDurable ==
    /\ Intact \subseteq LoadedLayers
    /\ Orderly => \A c \in Chains : refs[c] # {} => c \in Intact

\* A writable layer that has its content survives a crash at any moment, unless a
\* layer below it has lost its own, whatever failed or crashed before; the parent
\* it has is the one it was created on unless the daemon crashed meanwhile; and
\* one that a container relies on has its content if removals have been orderly.
MountIsDurable ==
    \A m \in mounts :
        /\ mdata[m] # Absent =>
              /\ mparent[m] \in Intact \cup {Nil} => m \in LoadedMounts
              /\ "crash" \notin faults => mparent[m] = mdata[m]
        /\ Orderly /\ mrefs[m] # {} => mdata[m] # Absent

\* No content is removed while something relies on it: releaseLayer and
\* ReleaseRWLayer call the driver after the last reference has gone, and nobody
\* takes a new one before they are done.
ContentKept ==
    [][/\ \A c \in data \ data' :
             refs[c] = {} /\ Children(c) = {} /\ MountsOn(c) = {} /\ Holders(c) = {}
       /\ \A m \in mounts : mdata[m] # Absent /\ mdata'[m] = Absent => mrefs[m] = {}]_vars

----------------------------------------------------------------------------
(* The inductive invariant behind RefCounts and RetainedPresent            *)

Releasing == {"release", "delete", "deleteMeta"}
Registering == {"create", "insert"}
Mounting == {"mount", "saveId", "saveParent"}
Unmounting == {"rmMount", "rmInit", "rmMountMeta"}

\* What each control point implies for the locks and the locals of a thread.
ThreadOK(t) ==
    /\ th[t].pc \in Releasing <=> layerL = t
    /\ th[t].pc \in Mounting \cup Unmounting => mountL = t /\ th[t].name \in Names
    /\ th[t].pc \in Mounting => th[t].name \notin mounts
    /\ th[t].pc \in Unmounting =>
          th[t].name \in mounts /\ th[t].hold = Nil /\ th[t].ref \in Refs
    /\ th[t].pc \in {"unwind", "release"} => th[t].hold \in Chains
    /\ th[t].pc \in Registering =>
          th[t].chain \in Chains /\ th[t].hold = Parent[th[t].chain]
    /\ th[t].pc \in {"delete", "deleteMeta"} =>
          /\ th[t].hold = Nil
          /\ th[t].chain \in layers /\ count[th[t].chain] = 0
    /\ th[t].pc = "idle" => th[t].hold = Nil

ThreadsOK == \A t \in Threads : ThreadOK(t)

\* The reference a registration will hand out is nobody else's.
ReservedRefs ==
    \A t \in Threads : th[t].pc \in Registering \cup Mounting =>
        /\ th[t].ref \in Refs
        /\ \A c \in Chains : th[t].ref \notin refs[c]
        /\ \A u \in Threads \ {t} :
              th[u].pc \in Registering \cup Mounting => th[u].ref # th[t].ref

IInv == TypeOK /\ ThreadsOK /\ ReservedRefs /\ RetainedPresent /\ RefCounts

----------------------------------------------------------------------------
(* Statements of the repository that the code does not keep                *)

\* ro_layer.go: "TarStream for roLayer guarantees that the data that is produced
\* is the exact data that the layer was registered with."  A layer that is
\* handed out has data.
ReferencedHasData == \A c \in Chains : refs[c] # {} => c \in data

\* layer.go: "Parent returns the layer which the writable layer was created
\* from."
ParentIsCreatedFrom ==
    \A m \in mounts : mdata[m] # Absent => mparent[m] = mdata[m]
=============================================================================
