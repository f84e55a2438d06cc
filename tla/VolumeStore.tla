---------------------------- MODULE VolumeStore ----------------------------
(***************************************************************************)
(* volume/store/store.go and the daemon's operations that use it.  The     *)
(* store remembers which driver has the volume of a name and which         *)
(* containers refer to it.  Its operations hold the lock of the name, one  *)
(* of pkg/locker's (NamedMutex; Locker implements it); only Purge does     *)
(* not.  Drivers are asked without any other lock.                         *)
(*                                                                         *)
(* A thread runs an operation of the daemon, which is a sequence of        *)
(* operations of the store.  A step is a critical section of globalLock or *)
(* a call of a driver.  A container has at most one mount point.  Labels   *)
(* and options are left out.                                               *)
(***************************************************************************)
EXTENDS Naturals, FiniteSets

CONSTANTS
    Threads,
    Names,        \* volume names
    Drivers,      \* volume drivers
    Local,        \* volume.DefaultDriverName
    Containers,   \* container IDs: what refers to a volume
    Nil,
    Setups        \* the environments to look at, see Environment

\* What may happen: a driver or the database fails ("fail"); volumes come and go
\* behind the daemon's back ("external"); the daemon restarts ("restart"); docker
\* volume rm is used ("rm"), also with --force ("force"); a container mounts
\* another volume where --volumes-from put one ("override"); SELinux refuses to
\* relabel a volume ("relabel").
Environment == {"fail", "external", "restart", "rm", "force", "override", "relabel"}

StoreOps == {"CreateWithRef", "GetWithRef", "Get", "Remove", "Dereference", "Refs"}
Volumes == [driver : Drivers, name : Names]
Jobs == {"create", "from", "volume", "rm", "rm -f", "prune", "delete"}

ASSUME VolumeAssumption ==
    /\ Local \in Drivers
    /\ Nil \notin Threads \cup Names \cup Drivers \cup Volumes \cup Containers
    /\ Nil \notin StoreOps \cup Jobs
    /\ Setups \subseteq SUBSET Environment

VARIABLES
    owner,        \* locks: the thread that holds each name
    names,        \* the driver of the volume that the store has for each name
    refs,         \* the containers that refer to each name
    has,          \* the volumes that the drivers have
    mount,        \* per container: the volume of its mount point
    lazy,         \* containers whose m.Volume is nil: restored, or copied and not started
    restoring,    \* containers whose mount points a restarted daemon has to prepare
    th,           \* the threads
    setup         \* the environment, which does not change

storeVars == <<names, refs>>
mountVars == <<mount, lazy, restoring>>
vars == <<owner, storeVars, has, mountVars, th, setup>>

DriverOrNil == Drivers \cup {Nil}

PCs == {"idle", "lock", "check", "stale", "find", "make", "reset", "set", "get",
        "remove", "drop", "purge", "deref", "refs", "unlock", "next", "rmPurge"}

\* do: the operation of the store; job: the operation of the daemon it is for
ThreadRec == [pc : PCs, do : StoreOps \cup {Nil},
              job : Jobs \cup {Nil},
              name : Names \cup {Nil}, driver : DriverOrNil, ref : Containers \cup {Nil},
              ok : BOOLEAN]

IdleThread == [pc |-> "idle", do |-> Nil, job |-> Nil, name |-> Nil, driver |-> Nil,
               ref |-> Nil, ok |-> FALSE]

TypeOK ==
    /\ owner \in [Names -> Threads \cup {Nil}]
    /\ names \in [Names -> DriverOrNil]
    /\ refs \in [Names -> SUBSET Containers]
    /\ has \subseteq Volumes
    /\ mount \in [Containers -> Volumes \cup {Nil}]
    /\ lazy \subseteq Containers /\ restoring \subseteq lazy
    /\ th \in [Threads -> ThreadRec]
    /\ setup \subseteq Environment

Init ==
    /\ owner = [n \in Names |-> Nil]
    /\ names = [n \in Names |-> Nil] /\ refs = [n \in Names |-> {}]
    /\ has = {}
    /\ mount = [c \in Containers |-> Nil] /\ lazy = {} /\ restoring = {}
    /\ th = [t \in Threads |-> IdleThread]
    /\ setup \in Setups

Volume(d, n) == [driver |-> d, name |-> n]
Fails == "fail" \in setup

----------------------------------------------------------------------------
(* Operations of the store                                                 *)

\* Call the operation do of the store on a name, with a driver and a reference.
Call(t, do, job, n, d, r) ==
    th' = [th EXCEPT ![t] = [pc |-> "lock", do |-> do, job |-> job, name |-> n,
                             driver |-> d, ref |-> r, ok |-> FALSE]]

FirstStep == [CreateWithRef |-> "check", GetWithRef |-> "get", Get |-> "find",
              Remove |-> "remove", Dereference |-> "deref", Refs |-> "refs"]

\* Mutant of Lock: it does not wait for the lock.
LockAtOnce(t) ==
    /\ th[t].pc = "lock"
    /\ owner' = [owner EXCEPT ![th[t].name] = t]
    /\ th' = [th EXCEPT ![t].pc = FirstStep[th[t].do]]
    /\ UNCHANGED <<storeVars, has, mountVars, setup>>

\* s.locks.Lock(name)
Lock(t) ==
    /\ th[t].pc = "lock"
    /\ owner[th[t].name] = Nil
    /\ owner' = [owner EXCEPT ![th[t].name] = t]
    /\ th' = [th EXCEPT ![t].pc = FirstStep[th[t].do]]
    /\ UNCHANGED <<storeVars, has, mountVars, setup>>

GoOn(t, l) == th' = [th EXCEPT ![t].pc = l]
Fail(t) == GoOn(t, "unlock")
Found(t, d) == th' = [th EXCEPT ![t].pc = "set", ![t].driver = d]

\* checkConflict: the name is not known, or its driver cannot be reached, or it
\* has the volume, or it answers that it has not, which may be wrong.
CheckConflict(t) ==
    LET d == names[th[t].name] IN
    /\ th[t].pc = "check"
    /\ \/ d = Nil /\ GoOn(t, "find")
       \/ d # Nil /\ Fails /\ Fail(t)
       \/ /\ d # Nil /\ Volume(d, th[t].name) \in has
          /\ IF th[t].driver \notin {Nil, d} THEN Fail(t) ELSE Found(t, d)
       \/ d # Nil /\ (Volume(d, th[t].name) \notin has \/ Fails) /\ GoOn(t, "stale")
    /\ UNCHANGED <<owner, storeVars, has, mountVars, setup>>

\* Purge: forget the name.
Purge(n) ==
    /\ names' = [names EXCEPT ![n] = Nil]
    /\ refs' = [refs EXCEPT ![n] = {}]

\* Mutant of HasRef: nobody looks at the references.
HasRefNever(n) == FALSE

\* hasRef
HasRef(n) == refs[n] # {}

\* Mutant of PurgeStale: a lost volume is made again whoever refers to it.
PurgeStaleNever(t) ==
    /\ th[t].pc = "stale" /\ GoOn(t, "find")
    /\ UNCHANGED <<owner, storeVars, has, mountVars, setup>>

\* checkConflict: the driver has lost the volume; purge it unless it is referenced.
PurgeStale(t) ==
    /\ th[t].pc = "stale"
    /\ IF HasRef(th[t].name) THEN Fail(t) /\ UNCHANGED storeVars
       ELSE Purge(th[t].name) /\ GoOn(t, "find")
    /\ UNCHANGED <<owner, has, mountVars, setup>>

\* getVolume: the driver that the store knows, or the first that has the name.
\* create calls it only when no driver was asked for, and then uses the default.
FindVolume(t) ==
    LET n == th[t].name
        creates == th[t].do = "CreateWithRef"
        asked == IF creates THEN th[t].driver ELSE Nil
        candidates == {d \in Drivers : names[n] \in {Nil, d} /\ Volume(d, n) \in has}
        notFound == IF creates THEN th' = [th EXCEPT ![t].pc = "make", ![t].driver = Local]
                    ELSE Fail(t)
    IN  /\ th[t].pc = "find"
        /\ \/ asked # Nil /\ GoOn(t, "make")
           \/ asked = Nil /\ \E d \in candidates : Found(t, d)
           \/ asked = Nil /\ (candidates = {} \/ Fails) /\ notFound
        /\ UNCHANGED <<owner, storeVars, has, mountVars, setup>>

\* create: CreateDriver, Get and Create of the driver; when Get fails the volume
\* is created again, which drivers allow.
MakeVolume(t) ==
    LET v == Volume(th[t].driver, th[t].name) IN
    /\ th[t].pc = "make"
    /\ \/ Fails /\ Fail(t) /\ UNCHANGED has
       \/ v \in has /\ GoOn(t, "set") /\ UNCHANGED has
       \/ (v \notin has \/ Fails) /\ has' = has \cup {v} /\ GoOn(t, "reset")
    /\ UNCHANGED <<owner, storeVars, mountVars, setup>>

\* create: a new volume has no references; then its metadata is stored.
ResetRefs(t) ==
    /\ th[t].pc = "reset"
    /\ refs' = [refs EXCEPT ![th[t].name] = {}]
    /\ GoOn(t, "set") \/ (Fails /\ Fail(t))
    /\ UNCHANGED <<owner, names, has, mountVars, setup>>

\* GetWithRef: GetDriver and Get of the driver
GetVolume(t) ==
    LET v == Volume(th[t].driver, th[t].name) IN
    /\ th[t].pc = "get"
    /\ \/ v \in has /\ GoOn(t, "set")
       \/ (v \notin has \/ Fails) /\ Fail(t)
    /\ UNCHANGED <<owner, storeVars, has, mountVars, setup>>

\* setNamed
SetNamed(n, d, r) ==
    /\ names' = [names EXCEPT ![n] = d]
    /\ refs' = [refs EXCEPT ![n] = @ \cup ({r} \ {Nil})]

StoreVolume(t) ==
    /\ th[t].pc = "set"
    /\ SetNamed(th[t].name, th[t].driver, th[t].ref)
    /\ th' = [th EXCEPT ![t].pc = "unlock", ![t].ok = TRUE]
    /\ UNCHANGED <<owner, has, mountVars, setup>>

\* Remove: not if there are references.  RemoveDriver may fail.
RemoveCheck(t) ==
    /\ th[t].pc = "remove"
    /\ \/ HasRef(th[t].name) /\ Fail(t)
       \/ ~HasRef(th[t].name) /\ (GoOn(t, "drop") \/ (Fails /\ Fail(t)))
    /\ UNCHANGED <<owner, storeVars, has, mountVars, setup>>

\* Remove: the driver removes the volume.
RemoveDrop(t) ==
    /\ th[t].pc = "drop"
    /\ \/ has' = has \ {Volume(th[t].driver, th[t].name)} /\ GoOn(t, "purge")
       \/ Fails /\ Fail(t) /\ UNCHANGED has
    /\ UNCHANGED <<owner, storeVars, mountVars, setup>>

\* Remove: the name is purged.
RemovePurge(t) ==
    /\ th[t].pc = "purge"
    /\ Purge(th[t].name)
    /\ th' = [th EXCEPT ![t].pc = "unlock", ![t].ok = TRUE]
    /\ UNCHANGED <<owner, has, mountVars, setup>>

\* Mutant of Dropped: the reference stays.
DroppedNothing(t) == {}

\* delete(s.refs[name], ref)
Dropped(t) == {th[t].ref}

Dereference(t) ==
    /\ th[t].pc = "deref"
    /\ refs' = [refs EXCEPT ![th[t].name] = @ \ Dropped(t)]
    /\ th' = [th EXCEPT ![t].pc = "unlock", ![t].ok = TRUE]
    /\ UNCHANGED <<owner, names, has, mountVars, setup>>

\* Refs, as VolumesPrune uses it
Refs(t) ==
    /\ th[t].pc = "refs"
    /\ th' = [th EXCEPT ![t].pc = "unlock", ![t].ok = (refs[th[t].name] = {})]
    /\ UNCHANGED <<owner, storeVars, has, mountVars, setup>>

----------------------------------------------------------------------------
(* Operations of the daemon                                                *)

\* API requests are served once the mount points have been prepared.
MayBegin(t) == th[t].pc = "idle" /\ restoring = {}
Free(c) == \A t \in Threads : th[t].ref # c

\* registerMountPoints: a bind mount, or a volume of the image's configuration
ContainerCreate(t, c, n, d) ==
    /\ MayBegin(t) /\ Free(c)
    /\ mount[c] = Nil \/ ("override" \in setup /\ c \notin lazy)
    /\ Call(t, "CreateWithRef", "create", n, d, c)

\* registerMountPoints: --volumes-from the container f.  A mount point with a
\* Source is copied, and its volume is looked up when the container starts; one
\* without (a volume of the image's configuration) is looked up at once.
ContainerVolumesFrom(t, c, f) ==
    /\ MayBegin(t) /\ Free(c) /\ mount[c] = Nil
    /\ mount[f] # Nil
    /\ \/ /\ mount' = [mount EXCEPT ![c] = mount[f]] /\ lazy' = lazy \cup {c}
          /\ UNCHANGED th
       \/ /\ Call(t, "GetWithRef", "from", mount[f].name, mount[f].driver, c)
          /\ UNCHANGED <<mount, lazy>>

\* lazyInitializeVolume, when a container is started
ContainerStart(t, c) ==
    /\ MayBegin(t) /\ Free(c) /\ c \in lazy
    /\ Call(t, "GetWithRef", "from", mount[c].name, mount[c].driver, c)

\* removeMountPoints, or the deferred calls of registerMountPoints
ContainerRemove(t, c) ==
    /\ MayBegin(t) /\ Free(c) /\ mount[c] # Nil
    /\ IF c \in lazy THEN UNCHANGED th
       ELSE Call(t, "Dereference", "delete", mount[c].name, mount[c].driver, c)
    /\ mount' = [mount EXCEPT ![c] = Nil]
    /\ lazy' = lazy \ {c}

VolumeCreate(t, n, d) ==
    MayBegin(t) /\ Call(t, "CreateWithRef", "volume", n, d, Nil)

VolumeInspect(t, n) ==
    MayBegin(t) /\ Call(t, "Get", "volume", n, Nil, Nil)

\* docker volume rm, or docker volume rm --force
VolumeRm(t, n) ==
    /\ MayBegin(t)
    /\ \/ "rm" \in setup /\ Call(t, "Get", "rm", n, Nil, Nil)
       \/ "force" \in setup /\ Call(t, "Get", "rm -f", n, Nil, Nil)

\* VolumesPrune, for one of the volumes that the local driver lists
VolumesPrune(t, n) ==
    /\ MayBegin(t) /\ Volume(Local, n) \in has
    /\ Call(t, "Get", "prune", n, Local, Nil)

Begin(t) ==
    /\ \/ \E n \in Names, d \in DriverOrNil :
             \/ \E c \in Containers : ContainerCreate(t, c, n, d) /\ UNCHANGED <<mount, lazy>>
             \/ VolumeCreate(t, n, d) /\ UNCHANGED <<mount, lazy>>
       \/ \E c, f \in Containers : ContainerVolumesFrom(t, c, f)
       \/ \E c \in Containers : ContainerStart(t, c) /\ UNCHANGED <<mount, lazy>>
       \/ \E c \in Containers : ContainerRemove(t, c)
       \/ \E n \in Names :
             /\ VolumeInspect(t, n) \/ VolumeRm(t, n) \/ VolumesPrune(t, n)
             /\ UNCHANGED <<mount, lazy>>
    /\ UNCHANGED <<owner, storeVars, has, restoring, setup>>

\* What follows an operation of the store: VolumesPrune asks for references;
\* VolumesPrune, VolumeRm and removeMountPoints remove the volume; VolumeRm purges
\* the name once more, whatever happened if it is forced.
AsksRefs(me) == me.job = "prune" /\ me.do = "Get"

Removes(me) ==
    \/ me.job = "delete" /\ me.do = "Dereference"
    \/ me.job = "prune" /\ me.do = "Refs" /\ me.ok
    \/ me.job \in {"rm", "rm -f"} /\ me.do = "Get" /\ me.ok

PurgesAgain(me) ==
    me.job \in {"rm", "rm -f"} /\ ~Removes(me) /\ (me.ok \/ me.job = "rm -f")

\* The job goes on with the operation do; VolumesPrune has a local volume.
Continue(t, do) ==
    th' = [th EXCEPT ![t].pc = "next", ![t].do = do, ![t].ref = Nil, ![t].ok = FALSE,
                     ![t].driver = IF th[t].job = "prune" THEN Local ELSE @]

\* s.locks.Unlock(name), and what the daemon does next.  removeMountPoints keeps
\* volumes that have a name of their own, and all unless it was asked to.  When the
\* new volume cannot be relabelled there is no mount point, and nothing else.
Unlock(t) ==
    LET me == th[t]
        mayMount == me.job \in {"create", "from"} /\ me.ok
        refused == me.job = "create" /\ "relabel" \in setup
    IN  \E mounts \in {mayMount, mayMount /\ ~refused} :
        /\ me.pc = "unlock"
        /\ owner' = [owner EXCEPT ![me.name] = Nil]
        /\ \/ AsksRefs(me) /\ Continue(t, "Refs")
           \/ Removes(me) /\ Continue(t, "Remove")
           \/ PurgesAgain(me) /\ GoOn(t, "rmPurge")
           \/ /\ ~AsksRefs(me) /\ ~PurgesAgain(me) /\ (Removes(me) => me.job = "delete")
              /\ th' = [th EXCEPT ![t] = IdleThread]
        /\ mount' = IF mounts THEN [mount EXCEPT ![me.ref] = Volume(me.driver, me.name)]
                    ELSE mount
        /\ lazy' = IF mounts THEN lazy \ {me.ref} ELSE lazy
        /\ UNCHANGED <<storeVars, has, restoring, setup>>

NextCall(t) ==
    /\ th[t].pc = "next" /\ GoOn(t, "lock")
    /\ UNCHANGED <<owner, storeVars, has, mountVars, setup>>

\* VolumeRm calls Purge, which does not take the lock of the name.
VolumeRmPurge(t) ==
    /\ th[t].pc = "rmPurge"
    /\ Purge(th[t].name)
    /\ th' = [th EXCEPT ![t] = IdleThread]
    /\ UNCHANGED <<owner, has, mountVars, setup>>

----------------------------------------------------------------------------
\* A plugin's volumes change behind the daemon's back.
External ==
    /\ "external" \in setup
    /\ \E v \in Volumes : v.driver # Local /\ (has' = has \cup {v} \/ has' = has \ {v})
    /\ UNCHANGED <<owner, storeVars, mountVars, th, setup>>

\* The daemon restarts: New, with the containers' mount points from disk.
Restart ==
    /\ "restart" \in setup
    /\ owner' = [n \in Names |-> Nil]
    /\ names' = [n \in Names |-> Nil] /\ refs' = [n \in Names |-> {}]
    /\ lazy' = {c \in Containers : mount[c] # Nil} /\ restoring' = lazy'
    /\ th' = [t \in Threads |-> IdleThread]
    /\ UNCHANGED <<has, mount, setup>>

\* restore: prepareMountPoints calls GetWithRef, and an error is only logged.
PrepareMountPoints(c) ==
    LET v == mount[c] IN
    /\ c \in restoring
    /\ restoring' = restoring \ {c}
    /\ \/ v \in has /\ SetNamed(v.name, v.driver, c) /\ lazy' = lazy \ {c}
       \/ (v \notin has \/ Fails) /\ UNCHANGED <<storeVars, lazy>>
    /\ UNCHANGED <<owner, has, mount, th, setup>>

StoreStep(t) ==
    \/ Lock(t) \/ CheckConflict(t) \/ PurgeStale(t) \/ FindVolume(t) \/ MakeVolume(t)
    \/ ResetRefs(t) \/ GetVolume(t) \/ StoreVolume(t) \/ RemoveCheck(t) \/ RemoveDrop(t)
    \/ RemovePurge(t) \/ Dereference(t) \/ Refs(t) \/ Unlock(t) \/ NextCall(t)
    \/ VolumeRmPurge(t)

Next ==
    \/ \E t \in Threads : Begin(t) \/ StoreStep(t)
    \/ External \/ Restart
    \/ \E c \in Containers : PrepareMountPoints(c)

Spec == Init /\ [][Next]_vars

----------------------------------------------------------------------------
(* Properties                                                              *)

\* docker volume rm is not used: its second Purge does not take the lock.
NoVolumeRm == setup \cap {"rm", "force"} = {}

\* "This ensures there's no race between creating a volume and then storing a
\* reference": the store knows of every mount point that has its volume.
UsedIsReferenced ==
    NoVolumeRm => \A c \in Containers \ lazy : mount[c] # Nil => c \in refs[mount[c].name]

\* A volume in use is not removed by the daemon.
UsedExists ==
    NoVolumeRm /\ "external" \notin setup =>
        \A c \in Containers \ lazy : mount[c] # Nil => mount[c] \in has

\* daemon/delete.go, VolumeRm: "If the volume is referenced by a container it is not
\* removed".  Remove looks at the references and asks the driver later; also when
\* docker volume rm is used, nobody has got a reference in between.
ReferencedNotRemoved ==
    [][\A v \in has \ has' :
          v.driver = Local \/ "external" \notin setup => refs[v.name] = {}]_vars

\* registerMountPoints: "clean up the container mountpoints once return with
\* error".  References belong to containers that exist or are being created or
\* removed: one that stays would keep the volume until the next restart.
NoReferenceLeft ==
    \A n \in Names : \A c \in refs[n] :
        \/ mount[c] # Nil /\ mount[c].name = n
        \/ \E t \in Threads : th[t].ref = c /\ th[t].name = n

\* No reference is left behind by failing drivers, removals or restarts, unless a
\* mount point replaces another or cannot be relabelled.
RefsAreUsed == setup \cap {"override", "relabel"} = {} => NoReferenceLeft

\* docs/reference/commandline/volume_rm.md: "You cannot remove a volume that is in
\* use by a container."
VolumeInUseKept ==
    \A c \in Containers \ lazy : mount[c] # Nil => mount[c] \in has
=============================================================================
