---------------------------- MODULE DaemonImages ----------------------------
(***************************************************************************)
(* The daemon's operations on images: removal (daemon/image_delete.go),    *)
(* commit, pull, tag, the build cache and container creation, as they use  *)
(* the image store and the reference store.  Each store has its own mutex  *)
(* and nothing spans the two, so a thread takes one step per critical      *)
(* section.  What a call returns to the client is left out.                *)
(***************************************************************************)
EXTENDS ImageStore, ReferenceStore

CONSTANTS
    Threads,
    Containers,
    Bases,         \* the images an image may have as its parent
    Setups,        \* [ops, faults, start]: the operations and failures to look
                   \* at, and the images, parents and tags there are at first
    MaxCalls,      \* calls per thread
    MaxCrashes     \* crashes of the daemon

Operations == {"rmi", "commit", "pull", "cached", "tag", "reparent", "container"}
Faults == {"save", "metadata", "delete", "crash"}

ASSUME DaemonAssumption ==
    /\ Bases \in [Images -> SUBSET Images]
    /\ \A s \in Setups :
         /\ s.ops \subseteq Operations /\ s.faults \subseteq Faults
         /\ s.start.images \subseteq Images
         /\ s.start.parent \in [Images -> Images \cup {None}]
         /\ \A id \in Images : s.start.parent[id] # None =>
                {id, s.start.parent[id]} \subseteq s.start.images
         /\ s.start.table \in [Refs -> s.start.images \cup {None}]
    /\ MaxCalls \in Nat /\ MaxCrashes \in Nat
    /\ IsFiniteSet(Images) /\ IsFiniteSet(Threads) /\ IsFiniteSet(Containers)

VARIABLES
    config,      \* the setup
    up,          \* the daemon could start
    crashes,
    used,        \* image IDs that were ever created
    mount,       \* the image whose layer a container's RW layer is based on
    registered,  \* daemon.containers
    running,     \* containers that run
    th           \* threads, see Idle
vars == <<imageVars, refVars, config, up, crashes, used, mount, registered,
          running, th>>
world == <<config, up, crashes, used, mount, registered, running>>

\* The conflicts in the order in which checkImageDeleteConflict looks for them
Checks == <<"children", "running", "references", "stopped">>
Labels == {"idle", "refs", "inUse", "untag", "refsAfter", "untagEach",
           "parent", "allRefs", "delete", "deleteFiles", "deleteEnd",
           "set", "insert", "setParent", "oldTag", "addDigest", "tag", "release",
           "mount", "register"} \cup {Checks[i] : i \in 1 .. 4}

\* A thread: its operation, the image and reference it is about, the parent
\* it read or will set, the references still to be removed, where it goes on
\* after them, and whether it holds a layer.
Thread == [pc : Labels, op : Operations \cup {None}, id : Images \cup {None},
           ref : Refs \cup {None}, par : Images \cup {None}, force : BOOLEAN,
           prune : BOOLEAN, refs : SUBSET Refs, hold : BOOLEAN,
           next : {"idle", "children", "delete", "tag"}, calls : 0 .. MaxCalls]
Idle(n) == [pc |-> "idle", op |-> None, id |-> None, ref |-> None, par |-> None,
            force |-> FALSE, prune |-> FALSE, refs |-> {}, next |-> "idle",
            hold |-> FALSE, calls |-> n]

Init ==
    /\ config \in Setups
    /\ up = TRUE /\ crashes = 0
    /\ images = config.start.images /\ content = config.start.images
    /\ used = config.start.images
    /\ parent = config.start.parent
    /\ children = [p \in Images |-> {id \in images : parent[id] = p}]
    /\ layers = {Chain[id] : id \in images} \ {None}
    /\ layerRefs = [ch \in Chains |-> Cardinality({id \in images : Chain[id] = ch})]
    /\ locked = FALSE
    /\ InitRefs(config.start.table)
    /\ mount = [c \in Containers |-> None] /\ registered = {} /\ running = {}
    /\ th = [g \in Threads |-> Idle(0)]

----------------------------------------------------------------------------
(* Calls                                                                   *)

Op(g) == th[g].op
Id(g) == th[g].id

At(g, label) == up /\ th[g].pc = label
Goto(g, label) == th' = [th EXCEPT ![g].pc = label]
Return(g) == th' = [th EXCEPT ![g] = Idle(th[g].calls)]
\* To a label if a condition holds; otherwise the call is over.
GotoIf(g, condition, label) == IF condition THEN Goto(g, label) ELSE Return(g)

\* Does a write succeed?
Outcomes(fault) == IF fault \in config.faults THEN BOOLEAN ELSE {TRUE}

\* A thread at the beginning of a call; Begin enters it.
Call(g, op, label) == [Idle(th[g].calls + 1) EXCEPT !.pc = label, !.op = op]
Begin(g, call) ==
    /\ At(g, "idle") /\ call.op \in config.ops /\ th[g].calls < MaxCalls
    /\ th' = [th EXCEPT ![g] = call]

----------------------------------------------------------------------------
(* ImageDelete                                                             *)

\* GetImageID finds an image by its configuration or by a reference.
ImageDelete(g) ==
    /\ \E force, prune \in BOOLEAN :
         \/ \E id \in content :
              Begin(g, [Call(g, "rmi", "refs") EXCEPT
                            !.id = id, !.force = force, !.prune = prune])
         \/ \E r \in Refs :
              /\ repositories[r] # None
              /\ Begin(g, [Call(g, "rmi", "refs") EXCEPT
                               !.id = repositories[r], !.ref = r,
                               !.force = force, !.prune = prune])
    /\ UNCHANGED <<imageVars, refVars, world>>

\* All references are in one repository and at most one is a tag.
isSingleReference(refs) ==
    LET tags == refs \ Canonical
        names == {NameOf[r] : r \in refs \cap Canonical}
    IN \/ Cardinality(refs) = 1
       \/ /\ Cardinality(tags) <= 1 /\ Cardinality(names) = 1
          /\ \A t \in tags : NameOf[t] \in names

\* By reference the reference goes first, by ID a single reference does.
RmRefs(g) ==
    /\ At(g, "refs")
    /\ LET refs == References(Id(g))
           single == isSingleReference(refs)
       IN IF th[g].ref # None
          THEN Goto(g, IF ~th[g].force /\ single THEN "inUse" ELSE "untag")
          ELSE th' = [th EXCEPT ![g].pc = "children",
                                ![g].refs = IF single THEN refs ELSE {}]
    /\ UNCHANGED <<imageVars, refVars, world>>

UsedBy(cs, id) == \E c \in cs : mount[c] = id

\* getContainerUsingImage
RmInUse(g) ==
    /\ At(g, "inUse")
    /\ GotoIf(g, ~UsedBy(registered, Id(g)), "untag")
    /\ UNCHANGED <<imageVars, refVars, world>>

\* removeImageRef: a reference that is gone, or a failed save, is an error;
\* otherwise the thread continues as after.
removeImageRef(g, ref, after) ==
    \/ /\ repositories[ref] = None
       /\ Return(g)
       /\ UNCHANGED refVars
    \/ /\ repositories[ref] # None
       /\ \E ok \in Outcomes("save") :
            /\ DeleteRef(ref, ok)
            /\ IF ok THEN th' = [th EXCEPT ![g] = after] ELSE Return(g)

RmUntag(g) ==
    /\ At(g, "untag")
    /\ removeImageRef(g, th[g].ref, [th[g] EXCEPT !.pc = "refsAfter"])
    /\ UNCHANGED <<imageVars, world>>

\* The last tag of a repository takes the repository's digests along; other
\* references end the removal.
RmRefsAfter(g) ==
    /\ At(g, "refsAfter")
    /\ LET ref == th[g].ref
           refs == References(Id(g))
           same == {r \in refs : NameOf[r] = NameOf[ref]}
           digests == IF ref \in Canonical \/ ~(same \subseteq Canonical)
                      THEN {} ELSE same
       IN th' = [th EXCEPT ![g].pc = "untagEach", ![g].refs = digests,
                           ![g].next = IF refs = digests THEN "children" ELSE "idle"]
    /\ UNCHANGED <<imageVars, refVars, world>>

\* The loops over references: the digests of the repository, the references
\* of a single one, and removeAllReferencesToImageID
RmUntagEach(g) ==
    /\ At(g, "untagEach")
    /\ \/ /\ th[g].refs = {}
          /\ GotoIf(g, th[g].next # "idle", th[g].next)
          /\ UNCHANGED refVars
       \/ \E ref \in th[g].refs :
            removeImageRef(g, ref, [th[g] EXCEPT !.refs = @ \ {ref}])
    /\ UNCHANGED <<imageVars, world>>

\* Before the single reference of an ID is removed, references are no conflict.
Mask(g) ==
    {"children", "running"}
    \cup (IF th[g].force THEN {} ELSE {"stopped"})
    \cup (IF th[g].force \/ th[g].refs # {} THEN {} ELSE {"references"})

InConflict(check, id) ==
    CASE check = "children" -> id \in images /\ children[id] # {}
      [] check = "running" -> UsedBy(registered \cap running, id)
      [] check = "references" -> References(id) # {}
      [] check = "stopped" -> UsedBy(registered \ running, id)

\* checkImageDeleteConflict: one look after the other, each at its own store.
\* After the last one the single reference goes, or the image.
RmCheck(g) ==
    /\ \E i \in 1 .. 4 :
         /\ At(g, Checks[i])
         /\ i = 1 => ~locked
         /\ IF Checks[i] \in Mask(g) /\ InConflict(Checks[i], Id(g)) THEN Return(g)
            ELSE IF i < 4 THEN Goto(g, Checks[i + 1])
            ELSE IF th[g].refs # {}
                 THEN th' = [th EXCEPT ![g].pc = "untagEach", ![g].next = "children"]
                 ELSE Goto(g, "parent")
    /\ UNCHANGED <<imageVars, refVars, world>>

RmParent(g) ==
    /\ At(g, "parent")
    /\ th' = [th EXCEPT ![g].pc = "allRefs", ![g].par = GetParent(Id(g))]
    /\ UNCHANGED <<imageVars, refVars, world>>

RmAllRefs(g) ==
    /\ At(g, "allRefs")
    /\ th' = [th EXCEPT ![g].pc = "untagEach", ![g].refs = References(Id(g)),
                        ![g].next = "delete"]
    /\ UNCHANGED <<imageVars, refVars, world>>

Unrecognized(id) == id \notin images

RmDelete(g) ==
    /\ At(g, "delete") /\ ~locked
    /\ IF Unrecognized(Id(g)) THEN Return(g) /\ UNCHANGED imageVars
       ELSE DeleteBegin(Id(g)) /\ Goto(g, "deleteFiles")
    /\ UNCHANGED <<refVars, world>>

RmDeleteFiles(g) ==
    /\ At(g, "deleteFiles")
    /\ \E metadataGone, contentGone \in Outcomes("delete") :
         DeleteFiles(Id(g), metadataGone, contentGone)
    /\ Goto(g, "deleteEnd")
    /\ UNCHANGED <<refVars, world>>

\* With prune the parent is next, never by force.
RmDeleteEnd(g) ==
    /\ At(g, "deleteEnd")
    /\ DeleteEnd(Id(g))
    /\ IF th[g].prune /\ th[g].par # None
       THEN th' = [th EXCEPT ![g].pc = "children", ![g].id = th[g].par,
                             ![g].force = FALSE]
       ELSE Return(g)
    /\ UNCHANGED <<refVars, world>>

----------------------------------------------------------------------------
(* Images are created, tagged and given parents                            *)

\* A reference to the layer is held until Create has returned: the layer of
\* a commit was registered, those of a pull were downloaded.
HoldLayer(id) ==
    /\ Retain(id)
    /\ layers' = layers \cup ({Chain[id]} \ {None})
    /\ UNCHANGED <<images, children, content, parent, locked>>

\* Commit of a container of image p.  The configuration has the time in it:
\* its ID is new.
Commit(g) ==
    /\ \E id \in Images \ used : \E p \in Bases[id] \cap content :
         /\ Begin(g, [Call(g, "commit", "set") EXCEPT
                          !.id = id, !.par = p, !.hold = TRUE])
         /\ HoldLayer(id)
         /\ used' = used \cup {id}
    /\ UNCHANGED <<refVars, config, up, crashes, mount, registered, running>>

\* Pull by tag.  With schema 2 an image that is here is only tagged.
Pull(g) ==
    /\ \E id \in Images, r \in Refs \ Canonical :
         /\ \E d \in Canonical : NameOf[d] = NameOf[r]
         /\ \/ /\ id \in content
               /\ Begin(g, [Call(g, "pull", "oldTag") EXCEPT !.id = id, !.ref = r])
               /\ UNCHANGED <<imageVars, used>>
            \/ /\ Begin(g, [Call(g, "pull", "set") EXCEPT
                                !.id = id, !.ref = r, !.hold = TRUE])
               /\ HoldLayer(id)
               /\ used' = used \cup {id}
    /\ UNCHANGED <<refVars, config, up, crashes, mount, registered, running>>

\* restoreCachedImage makes the image of a cached step again, from layers of
\* an image that it holds no reference to.
RestoreCached(g) ==
    /\ \E id \in Images : \E p \in Bases[id] \cap content :
         /\ Begin(g, [Call(g, "cached", "set") EXCEPT !.id = id, !.par = p])
         /\ used' = used \cup {id}
    /\ UNCHANGED <<imageVars, refVars, config, up, crashes, mount, registered,
                   running>>

\* GetCache hangs an image that it read before under another parent.
Reparent(g) ==
    /\ \E id \in used : \E p \in Bases[id] \cap content :
         Begin(g, [Call(g, "reparent", "setParent") EXCEPT !.id = id, !.par = p])
    /\ UNCHANGED <<imageVars, refVars, world>>

TagImage(g) ==
    /\ \E id \in content, r \in Refs \ Canonical :
         Begin(g, [Call(g, "tag", "tag") EXCEPT !.id = id, !.ref = r])
    /\ UNCHANGED <<imageVars, refVars, world>>

CreateSet(g) ==
    /\ At(g, "set")
    /\ SetContent(Id(g))
    /\ Goto(g, "insert")
    /\ UNCHANGED <<refVars, world>>

\* Where a thread goes when its image was created, or that failed
Created(g) == IF th[g].par # None THEN "setParent" ELSE "release"
Finish(g) == GotoIf(g, th[g].hold, "release")

CreateInsert(g) ==
    /\ At(g, "insert") /\ ~locked
    /\ \/ /\ Id(g) \in images
          /\ Goto(g, Created(g))
          /\ UNCHANGED imageVars
       \/ /\ Id(g) \notin images /\ LayerExists(Id(g))
          /\ Insert(Id(g))
          /\ Goto(g, Created(g))
       \/ /\ Id(g) \notin images /\ ~LayerExists(Id(g))
          /\ Finish(g)
          /\ UNCHANGED imageVars
    /\ UNCHANGED <<refVars, world>>

\* Then a commit may tag its image.
CreateSetParent(g) ==
    /\ At(g, "setParent") /\ ~locked
    /\ IF th[g].par \notin images THEN Finish(g) /\ UNCHANGED imageVars
       ELSE \E ok \in Outcomes("metadata") :
              /\ SetParent(Id(g), th[g].par, ok)
              /\ \/ Finish(g)
                 \/ /\ ok /\ Id(g) \in content /\ Op(g) = "commit"
                    /\ \E r \in Refs \ Canonical :
                         th' = [th EXCEPT ![g].pc = "tag", ![g].ref = r]
    /\ UNCHANGED <<refVars, world>>

\* A pull whose tag is there already adds the digest only.
PullOldTag(g) ==
    /\ At(g, "oldTag")
    /\ th' = [th EXCEPT ![g].pc = "addDigest",
                        ![g].next = IF repositories[th[g].ref] = Id(g) THEN "idle"
                                    ELSE "tag"]
    /\ UNCHANGED <<imageVars, refVars, world>>

\* addDigestReference: a digest that is there is left alone, unless it came
\* after the look-up; then AddDigest fails, and the pull.
PullAddDigest(g) ==
    /\ At(g, "addDigest")
    /\ \E d \in Canonical :
         /\ NameOf[d] = NameOf[th[g].ref]
         /\ \/ /\ Refused(d)
               /\ GotoIf(g, th[g].next # "idle", th[g].next) \/ Return(g)
               /\ UNCHANGED refVars
            \/ /\ ~Refused(d)
               /\ \E ok \in Outcomes("save") :
                    /\ addReference(d, Id(g), ok)
                    /\ GotoIf(g, ok /\ th[g].next # "idle", th[g].next)
    /\ UNCHANGED <<imageVars, world>>

AddTag(g) ==
    /\ At(g, "tag")
    /\ \E ok \in Outcomes("save") : addReference(th[g].ref, Id(g), ok)
    /\ Finish(g)
    /\ UNCHANGED <<imageVars, world>>

\* The creator gives up its layer; a pull goes on to its references.
CreateRelease(g) ==
    /\ At(g, "release")
    /\ Release(Id(g))
    /\ IF Op(g) = "pull"
       THEN th' = [th EXCEPT ![g].pc = "oldTag", ![g].hold = FALSE]
       ELSE Return(g)
    /\ UNCHANGED <<images, children, content, parent, locked, refVars, world>>

----------------------------------------------------------------------------
(* Containers, as users of images                                          *)

ContainerCreate(g) ==
    /\ \E id \in content : Begin(g, [Call(g, "container", "mount") EXCEPT !.id = id])
    /\ UNCHANGED <<imageVars, refVars, world>>

\* setRWLayer looks the image up again; the RW layer holds its layer.
SetRWLayer(g) ==
    /\ At(g, "mount")
    /\ \/ /\ Id(g) \in content /\ LayerExists(Id(g))
          /\ \E c \in Containers :
               /\ mount[c] = None
               /\ mount' = [mount EXCEPT ![c] = Id(g)]
          /\ Retain(Id(g))
          /\ Goto(g, "register")
       \/ /\ Id(g) \notin content \/ ~LayerExists(Id(g))
          /\ Return(g)
          /\ UNCHANGED <<mount, layerRefs>>
    /\ UNCHANGED <<images, children, content, parent, layers, locked, refVars,
                   config, up, crashes, used, registered, running>>

Register(g) ==
    /\ At(g, "register")
    /\ \E c \in Containers \ registered :
         /\ mount[c] = Id(g)
         /\ registered' = registered \cup {c}
    /\ Return(g)
    /\ UNCHANGED <<imageVars, refVars, config, up, crashes, used, mount, running>>

StartOrStop(c) ==
    /\ up /\ c \in registered
    /\ running' = IF c \in running THEN running \ {c} ELSE running \cup {c}
    /\ UNCHANGED <<imageVars, refVars, config, up, crashes, used, mount,
                   registered, th>>

RemoveContainer(c) ==
    /\ up /\ c \in registered \ running
    /\ Release(mount[c])
    /\ mount' = [mount EXCEPT ![c] = None]
    /\ registered' = registered \ {c}
    /\ UNCHANGED <<images, children, content, parent, locked, refVars, config,
                   up, crashes, used, running, th>>

----------------------------------------------------------------------------
\* The daemon ends and starts again from its files.
Crash ==
    /\ up /\ "crash" \in config.faults /\ crashes < MaxCrashes
    /\ crashes' = crashes + 1
    /\ up' = Restorable
    /\ LET mounts == [ch \in Chains |-> Cardinality({c \in Containers :
                              mount[c] # None /\ Chain[mount[c]] = ch})]
       IN restore(mounts)
    /\ reload
    /\ th' = [g \in Threads |-> Idle(th[g].calls)]
    /\ UNCHANGED <<config, used, mount, registered, running>>

Rmi(g) ==
    \/ ImageDelete(g) \/ RmRefs(g) \/ RmInUse(g) \/ RmUntag(g) \/ RmRefsAfter(g)
    \/ RmUntagEach(g) \/ RmCheck(g) \/ RmParent(g) \/ RmAllRefs(g)
    \/ RmDelete(g) \/ RmDeleteFiles(g) \/ RmDeleteEnd(g)

Creation(g) ==
    \/ Commit(g) \/ Pull(g) \/ RestoreCached(g) \/ Reparent(g) \/ TagImage(g)
    \/ CreateSet(g) \/ CreateInsert(g) \/ CreateSetParent(g)
    \/ PullOldTag(g) \/ PullAddDigest(g) \/ AddTag(g) \/ CreateRelease(g)
    \/ ContainerCreate(g) \/ SetRWLayer(g) \/ Register(g)

Next ==
    \/ \E g \in Threads : Rmi(g) \/ Creation(g)
    \/ \E c \in Containers : StartOrStop(c) \/ RemoveContainer(c)
    \/ Crash

Spec == Init /\ [][Next]_vars

----------------------------------------------------------------------------
\* The types of both stores, of the threads and of the containers.
TypeOK ==
    /\ ImagesTypeOK /\ RefsTypeOK
    /\ config \in Setups /\ up \in BOOLEAN /\ crashes \in 0 .. MaxCrashes
    /\ used \subseteq Images
    /\ mount \in [Containers -> Images \cup {None}]
    /\ registered \subseteq Containers /\ running \subseteq registered
    /\ th \in [Threads -> Thread]

\* The threads that hold a reference to the layer of their image: creators
\* and removals that have not released it yet
Holders == {g \in Threads : th[g].hold \/ th[g].pc \in {"deleteFiles", "deleteEnd"}}

\* Each known image, each container and each thread that is at it accounts for
\* one reference to a layer, and a layer that is referenced exists: two
\* removals of an image release its layer once, and whatever removals,
\* creations and restarts do, a container keeps its file system.
LayersBalanced ==
    up => \A ch \in Chains :
        LET imgs == {id \in images : Chain[id] = ch}
            cons == {c \in Containers : mount[c] # None /\ Chain[mount[c]] = ch}
            ths == {g \in Holders : Chain[Id(g)] = ch}
        IN /\ layerRefs[ch] = Cardinality(imgs) + Cardinality(cons) + Cardinality(ths)
           /\ layerRefs[ch] > 0 => ch \in layers

\* Is every configuration on disk that of a known image, or of one that is being
\* created, and the other way round?  Not when an image may be created while it
\* is deleted (pull, cached) or when its files may stay behind.
Recreated == config.ops \cap {"pull", "cached"} # {}
FilesFail == config.faults \cap {"metadata", "delete"} # {}

\* An image whose parent file names an image is a child of that image in
\* memory, so that the parent is known and cannot be removed without it: a
\* parent never disappears under its children, nor comes back without them.
ParentsAgree ==
    ~FilesFail /\ ~("crash" \in config.faults /\ Recreated) =>
        \A id \in images :
            GetParent(id) # None =>
                GetParent(id) \in images /\ id \in children[GetParent(id)]

\* The daemon can start again at any moment: Delete removes the
\* configuration before it lets go of the layer, Create writes it when the
\* layer is held.  (restoreCachedImage holds none.)
RestartSucceeds ==
    "delete" \notin config.faults /\ "cached" \notin config.ops => up /\ Restorable

\* While nobody creates or tags images, removals leave no reference to an
\* image that is gone, neither in memory nor, should the daemon crash between
\* two writes, in the files.
NoDanglingReference ==
    /\ config.ops \cap {"commit", "pull", "cached", "tag"} = {}
    /\ config.faults \cap {"save", "delete"} = {}
    => \A r \in Refs :
         /\ repositories[r] # None => repositories[r] \in images
         /\ jsonFile[r] # None => jsonFile[r] \in content
=============================================================================
