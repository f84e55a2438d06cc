------------------------- MODULE VolumeStoreProofs -------------------------
(***************************************************************************)
(* Proofs about VolumeStore, for any number of threads, names, drivers and *)
(* containers and in every environment.                                    *)
(*                                                                         *)
(* The invariant has one part per thread, which says what the thread knows *)
(* of the name it has locked (Knows) and of the container it works for     *)
(* (Serves), and parts that relate the store to the mount points.  A       *)
(* thread's knowledge is stable because another thread that changes the    *)
(* same name would have to hold its lock (Locked), or is docker volume     *)
(* rm's second Purge, which only forgets.                                  *)
(***************************************************************************)
EXTENDS VolumeStore, TLAPS

----------------------------------------------------------------------------
(* The inductive invariant                                                 *)

\* Control points between Lock and Unlock
Critical == {"check", "stale", "find", "make", "reset", "set", "get", "remove", "drop",
             "purge", "deref", "refs", "unlock"}

\* A thread holds the lock of its name exactly between Lock and Unlock.
Locked == \A n \in Names, t \in Threads :
              owner[n] = t <=> th[t].name = n /\ th[t].pc \in Critical

\* The operation of the store that a thread is in, and what it is for.
Shape(me) ==
    /\ me.pc = "idle" <=> me.job = Nil
    /\ me.job = Nil => me.ref = Nil
    /\ me.job # Nil => me.name \in Names /\ me.do \in StoreOps
    /\ me.ok => me.pc \in {"unlock", "rmPurge"}
    /\ me.pc \in {"check", "stale", "make", "reset"} => me.do = "CreateWithRef"
    /\ me.pc = "find" => me.do \in {"CreateWithRef", "Get"}
    /\ me.pc \in {"make", "reset", "set", "get"} => me.driver \in Drivers
    /\ me.pc = "get" => me.do = "GetWithRef"
    /\ me.pc = "deref" => me.do = "Dereference"
    /\ me.pc \in {"remove", "drop", "purge"} => me.do = "Remove"
    /\ me.pc = "refs" => me.do = "Refs"
    /\ me.do = "GetWithRef" => me.job = "from" /\ me.driver \in Drivers
    /\ me.do = "Dereference" => me.job = "delete"
    /\ me.job \in {"create", "from"} =>
          /\ me.ref \in Containers
          /\ me.do = IF me.job = "create" THEN "CreateWithRef" ELSE "GetWithRef"
          /\ me.ok => me.driver \in Drivers
    /\ me.job = "delete" =>
          IF me.do = "Dereference"
          THEN me.ref \in Containers /\ me.pc \in {"lock", "deref", "unlock"}
          ELSE me.ref = Nil
    /\ me.ref # Nil => me.job \in {"create", "from", "delete"}
    /\ me.pc \in {"next", "rmPurge"} => me.ref = Nil
    /\ me.pc = "rmPurge" => me.job \in {"rm", "rm -f"}
    /\ me.job \in {"rm", "rm -f"} => ~NoVolumeRm

\* The operation is done and its caller is about to use the volume.
HasVolume(me) == me.pc = "unlock" /\ me.ok /\ me.job \in {"create", "from"}

\* What a thread knows of its name: create has found that there is nothing of the
\* name, remove that nobody refers to it, and a volume that is about to be
\* entered or mounted is there.
Knows(me) ==
    /\ me.pc \in {"find", "make", "reset"} /\ me.do = "CreateWithRef" =>
          names[me.name] = Nil /\ refs[me.name] = {}
    /\ me.pc \in {"drop", "purge"} => refs[me.name] = {}
    /\ "external" \notin setup /\ (me.pc \in {"reset", "set"} \/ HasVolume(me)) =>
          Volume(me.driver, me.name) \in has
    /\ NoVolumeRm /\ HasVolume(me) => me.ref \in refs[me.name]

\* What a thread knows of the container it works for.
Serves(me) ==
    /\ me.job = "delete" /\ me.ref # Nil => mount[me.ref] = Nil
    /\ "override" \notin setup /\ me.job \in {"create", "from"} =>
          mount[me.ref] = Nil \/ me.ref \in lazy

\* No two threads work for the same container.
OneServes == \A t, u \in Threads : t # u /\ th[t].ref # Nil => th[t].ref # th[u].ref

\* While mount points are being prepared nothing else happens.
Restoring == restoring # {} => \A t \in Threads : th[t].pc = "idle"

LazyMounted == \A c \in lazy : mount[c] # Nil

\* The store has references only for names that it knows.
Named == \A n \in Names : refs[n] # {} => names[n] # Nil

\* The thread t is the reason why the store has a reference of c to n: it has just
\* put it there, or is about to take it out.
Accounts(t, c, n) ==
    /\ th[t].ref = c /\ th[t].name = n
    /\ HasVolume(th[t]) \/ (th[t].job = "delete" /\ th[t].pc \in {"lock", "deref"})

\* No mount point replaces another and none is refused.
Tidy == setup \cap {"override", "relabel"} = {}

\* Stronger than RefsAreUsed: who has a reference, and that a mount point without
\* its volume has none.
Accounted ==
    Tidy =>
        \A n \in Names : \A c \in refs[n] :
            \/ c \notin lazy /\ mount[c] # Nil /\ mount[c].name = n
            \/ \E t \in Threads : Accounts(t, c, n)

IInv ==
    /\ TypeOK
    /\ \A t \in Threads : Shape(th[t]) /\ Knows(th[t]) /\ Serves(th[t])
    /\ Locked /\ OneServes /\ Restoring /\ LazyMounted /\ Named
    /\ UsedIsReferenced /\ UsedExists /\ Accounted

----------------------------------------------------------------------------
(* Steps inside a critical section                                         *)

\* The thread t goes on in the same operation.
Moves(t) ==
    /\ th'[t] \in ThreadRec /\ th' = [th EXCEPT ![t] = th'[t]]
    /\ th'[t].name = th[t].name /\ th'[t].ref = th[t].ref
    /\ th'[t].job = th[t].job /\ th'[t].do = th[t].do

\* The thread t, which holds the lock of its name m, goes on, and the store and the
\* drivers change for m only.  Nobody else notices.
LEMMA CriticalStep ==
    ASSUME IInv, NEW t \in Threads, NEW m \in Names, Moves(t),
           m = th[t].name, th[t].pc \in Critical \ {"unlock"},
           th'[t].pc \in Critical \ {"deref"}, Shape(th[t])', Knows(th[t])',
           UNCHANGED <<owner, mountVars, setup>>,
           names' \in [Names -> DriverOrNil], refs' \in [Names -> SUBSET Containers],
           has' \subseteq Volumes,
           \A n \in Names \ {m} : names'[n] = names[n] /\ refs'[n] = refs[n],
           \A v \in Volumes : v.name # m => (v \in has' <=> v \in has),
           has \subseteq has' \/ refs[m] = {},
           refs'[m] # {} => names'[m] # Nil,
           \A c \in refs[m] : c \in refs'[m] \/ (th[t].pc = "deref" /\ c = th[t].ref),
           \A c \in refs'[m] : c \in refs[m] \/ (HasVolume(th[t])' /\ c = th[t].ref),
           th[t].pc = "deref" => th[t].ref \notin refs'[m]
    PROVE  IInv'
<1>0. /\ TypeOK /\ \A u \in Threads \ {t} : th'[u] = th[u]
      /\ th'[t].name = m /\ th'[t].ref = th[t].ref
      /\ th'[t].job = th[t].job /\ th'[t].do = th[t].do
  BY DEF IInv, TypeOK, Moves
<1>1. TypeOK' BY DEF IInv, TypeOK, mountVars, Moves
<1>2. \A u \in Threads : Shape(th[u])'
  <2>1. ASSUME NEW u \in Threads \ {t} PROVE Shape(th[u])'
    <3>1. th'[u] = th[u] /\ Shape(th[u]) BY <1>0, <2>1 DEF IInv
    <3>2. NoVolumeRm' <=> NoVolumeRm BY DEF NoVolumeRm
    <3> QED BY <3>1, <3>2 DEF Shape
  <2> QED BY <2>1
<1>3. \A u \in Threads : Serves(th[u])'
  BY <1>0 DEF IInv, Serves, mountVars
<1>4. Locked' BY <1>0 DEF IInv, Locked
<1>5. \A u \in Threads \ {t} : th[u].pc \in Critical => th[u].name # m
  BY <1>0 DEF IInv, Locked
<1>6. \A u \in Threads : Knows(th[u])'
  <2>1. ASSUME NEW u \in Threads \ {t} PROVE Knows(th[u])'
    <3>1. th'[u] = th[u] /\ Knows(th[u]) /\ Shape(th[u]) /\ th[u] \in ThreadRec
      BY <1>0, <2>1 DEF IInv, TypeOK
    <3>2. CASE th[u].pc \notin Critical
      BY <3>1, <3>2 DEF Knows, Critical, HasVolume
    <3>3. CASE th[u].pc \in Critical
      <4>1. th[u].name # m BY <1>5, <3>3
      <4>2. th[u].name \in Names BY <3>1, <3>3 DEF Shape, Critical, ThreadRec
      <4>3. names'[th[u].name] = names[th[u].name] /\ refs'[th[u].name] = refs[th[u].name]
        BY <4>1, <4>2
      <4>4. th[u].driver \in Drivers =>
              (Volume(th[u].driver, th[u].name) \in has' <=>
               Volume(th[u].driver, th[u].name) \in has)
        BY <4>1, <4>2 DEF Volume, Volumes
      <4>5. th[u].pc \in {"reset", "set"} \/ HasVolume(th[u]) => th[u].driver \in Drivers
        BY <3>1 DEF Shape, HasVolume
      <4> QED BY <3>1, <4>3, <4>4, <4>5 DEF Knows, NoVolumeRm, HasVolume
    <3> QED BY <3>2, <3>3
  <2> QED BY <1>0, <2>1
<1>7. OneServes' /\ Restoring' /\ LazyMounted' /\ Named'
  <2>1. OneServes' BY <1>0 DEF IInv, OneServes
  <2>2. Restoring' BY <1>0 DEF IInv, Restoring, mountVars, Critical
  <2>3. LazyMounted' BY DEF IInv, LazyMounted, mountVars
  <2>4. Named' BY DEF IInv, Named
  <2> QED BY <2>1, <2>2, <2>3, <2>4
<1>8. UsedIsReferenced'
  <2>1. SUFFICES ASSUME NoVolumeRm, NEW c \in Containers \ lazy, mount[c] # Nil
                 PROVE  c \in refs'[mount[c].name]
    BY DEF UsedIsReferenced, mountVars, NoVolumeRm
  <2>2. mount[c].name \in Names /\ c \in refs[mount[c].name]
    BY <1>0, <2>1 DEF IInv, TypeOK, Volumes, UsedIsReferenced
  <2>3. th[t].pc = "deref" => mount[th[t].ref] = Nil
    <3>1. Shape(th[t]) /\ Serves(th[t]) BY DEF IInv
    <3>2. th[t].pc = "deref" => th[t].job = "delete" /\ th[t].ref # Nil
      BY <3>1, VolumeAssumption DEF Shape
    <3> QED BY <3>1, <3>2 DEF Serves
  <2> QED BY <2>1, <2>2, <2>3
<1>9. UsedExists'
  <2>1. SUFFICES ASSUME NoVolumeRm, "external" \notin setup, NEW c \in Containers \ lazy,
                        mount[c] # Nil
                 PROVE  mount[c] \in has'
    BY DEF UsedExists, mountVars, NoVolumeRm
  <2>2. mount[c] \in Volumes /\ mount[c] \in has /\ c \in refs[mount[c].name]
    BY <1>0, <2>1 DEF IInv, TypeOK, UsedExists, UsedIsReferenced
  <2> QED BY <2>2
<1>10. Accounted'
  <2>1. SUFFICES ASSUME Tidy, NEW n \in Names, NEW c \in refs'[n]
                 PROVE  \/ c \notin lazy /\ mount[c] # Nil /\ mount[c].name = n
                        \/ \E u \in Threads : Accounts(u, c, n)'
    BY DEF Accounted, Tidy, mountVars
  <2>2. CASE n = m /\ c \notin refs[m]
    BY <1>0, <2>2 DEF Accounts
  <2>3. CASE c \in refs[n]
    <3>1. \/ c \notin lazy /\ mount[c] # Nil /\ mount[c].name = n
          \/ \E u \in Threads : Accounts(u, c, n)
      BY <2>1, <2>3 DEF IInv, Accounted
    <3>2. ASSUME NEW u \in Threads, Accounts(u, c, n)
          PROVE  Accounts(u, c, n)'
      <4>1. u # t
        BY <1>0, <3>2 DEF Accounts, HasVolume, Critical
      <4> QED BY <1>0, <3>2, <4>1 DEF Accounts, HasVolume
    <3> QED BY <3>1, <3>2
  <2> QED BY <2>2, <2>3
<1> QED BY <1>1, <1>2, <1>3, <1>4, <1>6, <1>7, <1>8, <1>9, <1>10 DEF IInv

LEMMA GoOnMoves ==
    ASSUME TypeOK, NEW t \in Threads, NEW l \in PCs, GoOn(t, l)
    PROVE  /\ Moves(t) /\ th'[t].pc = l
           /\ th'[t].driver = th[t].driver /\ th'[t].ok = th[t].ok
BY DEF TypeOK, GoOn, Moves, ThreadRec

LEMMA FailMoves ==
    ASSUME TypeOK, NEW t \in Threads, Fail(t)
    PROVE  /\ Moves(t) /\ th'[t].pc = "unlock"
           /\ th'[t].driver = th[t].driver /\ th'[t].ok = th[t].ok
BY GoOnMoves DEF Fail, PCs

LEMMA FoundMoves ==
    ASSUME TypeOK, NEW t \in Threads, NEW d \in Drivers, Found(t, d)
    PROVE  Moves(t) /\ th'[t].pc = "set" /\ th'[t].driver = d /\ th'[t].ok = th[t].ok
<1>1. "set" \in PCs /\ d \in DriverOrNil BY DEF PCs, DriverOrNil
<1>2. th \in [Threads -> ThreadRec] BY DEF TypeOK
<1> QED BY <1>1, <1>2 DEF Found, Moves, ThreadRec

LEMMA EndMoves ==
    ASSUME TypeOK, NEW t \in Threads, NEW b \in BOOLEAN,
           th' = [th EXCEPT ![t].pc = "unlock", ![t].ok = b]
    PROVE  /\ Moves(t) /\ th'[t].pc = "unlock"
           /\ th'[t].driver = th[t].driver /\ th'[t].ok = b
BY DEF TypeOK, Moves, ThreadRec, PCs

\* A step that only looks, and does not come to a control point of which Knows
\* has anything to say but by what it has seen.
LEMMA LookStep ==
    ASSUME IInv, NEW t \in Threads, th[t].pc \in Critical \ {"unlock", "deref"}, Moves(t),
           th'[t].pc \in Critical \ {"deref"}, Shape(th[t])', Knows(th[t])',
           ~HasVolume(th[t])',
           UNCHANGED <<owner, storeVars, has, mountVars, setup>>
    PROVE  IInv'
<1> DEFINE m == th[t].name
<1>1. m \in Names /\ TypeOK BY DEF IInv, TypeOK, Shape, Critical, ThreadRec
<1>3. refs[m] # {} => names[m] # Nil BY <1>1 DEF IInv, Named
<1> HIDE DEF m
<1> QED BY <1>1, <1>3, CriticalStep DEF m, TypeOK, storeVars

\* What the invariant says of a thread in its critical section.
LEMMA Inside ==
    ASSUME IInv, NEW t \in Threads, th[t].pc \in Critical \ {"unlock"}
    PROVE  /\ TypeOK /\ th[t] \in ThreadRec /\ th[t].name \in Names
           /\ Shape(th[t]) /\ Knows(th[t]) /\ th[t].ok = FALSE /\ th[t].job # Nil
           /\ refs[th[t].name] # {} => names[th[t].name] # Nil
BY DEF IInv, TypeOK, ThreadRec, Shape, Critical, Named

LEMMA FailStep ==
    ASSUME IInv, NEW t \in Threads, th[t].pc \in Critical \ {"unlock", "deref"}, Fail(t),
           UNCHANGED <<owner, storeVars, has, mountVars, setup>>
    PROVE  IInv'
<1>1. /\ TypeOK /\ th[t] \in ThreadRec /\ th[t].name \in Names
      /\ Shape(th[t]) /\ Knows(th[t]) /\ th[t].ok = FALSE /\ th[t].job # Nil
  BY Inside
<1>2. Moves(t) /\ th'[t].pc = "unlock" /\ th'[t].driver = th[t].driver /\ th'[t].ok = FALSE
  BY <1>1, FailMoves
<1>3. NoVolumeRm' <=> NoVolumeRm BY DEF NoVolumeRm
<1>4. Shape(th[t])' BY <1>1, <1>2, <1>3 DEF Shape, Moves, Critical
<1>5. Knows(th[t])' /\ ~HasVolume(th[t])' BY <1>2 DEF Knows, HasVolume
<1> QED BY <1>2, <1>4, <1>5, LookStep DEF Critical

LEMMA CheckConflictStep ==
    ASSUME IInv, NEW t \in Threads, CheckConflict(t)
    PROVE  IInv'
<1> DEFINE d == names[th[t].name]
<1>0. th[t].pc = "check" /\ UNCHANGED <<owner, storeVars, has, mountVars, setup>>
  BY DEF CheckConflict
<1>1. th[t].pc \in Critical \ {"unlock", "deref"} BY <1>0 DEF Critical
<1>2. /\ TypeOK /\ th[t] \in ThreadRec /\ th[t].name \in Names
      /\ Shape(th[t]) /\ Knows(th[t]) /\ th[t].ok = FALSE /\ th[t].job # Nil
      /\ refs[th[t].name] # {} => names[th[t].name] # Nil
  BY <1>1, Inside
<1>3. NoVolumeRm' <=> NoVolumeRm BY <1>0 DEF NoVolumeRm
<1>4. CASE d = Nil /\ GoOn(t, "find")
  <2>1. Moves(t) /\ th'[t].pc = "find" /\ th'[t].driver = th[t].driver /\ th'[t].ok = FALSE
    BY <1>2, <1>4, GoOnMoves DEF PCs
  <2>2. Shape(th[t])' BY <1>0, <1>2, <1>3, <2>1 DEF Shape, Moves
  <2>3. Knows(th[t])' /\ ~HasVolume(th[t])'
    BY <1>0, <1>2, <1>4, <2>1 DEF Knows, HasVolume, Moves, storeVars
  <2> QED BY <1>0, <1>1, <2>1, <2>2, <2>3, LookStep DEF Critical
<1>5. CASE Fail(t) BY <1>0, <1>1, <1>5, FailStep
<1>6. ASSUME NEW e \in Drivers, Volume(e, th[t].name) \in has, Found(t, e)
      PROVE  IInv'
  <2>1. Moves(t) /\ th'[t].pc = "set" /\ th'[t].driver = e /\ th'[t].ok = FALSE
    BY <1>2, <1>6, FoundMoves
  <2>2. Shape(th[t])' BY <1>0, <1>2, <1>3, <2>1 DEF Shape, Moves
  <2>3. Knows(th[t])' /\ ~HasVolume(th[t])'
    BY <1>0, <1>2, <1>6, <2>1 DEF Knows, HasVolume, Moves
  <2> QED BY <1>0, <1>1, <2>1, <2>2, <2>3, LookStep DEF Critical
<1>7. CASE GoOn(t, "stale")
  <2>1. Moves(t) /\ th'[t].pc = "stale" /\ th'[t].driver = th[t].driver /\ th'[t].ok = FALSE
    BY <1>2, <1>7, GoOnMoves DEF PCs
  <2>2. Shape(th[t])' BY <1>0, <1>2, <1>3, <2>1 DEF Shape, Moves
  <2>3. Knows(th[t])' /\ ~HasVolume(th[t])'
    BY <1>0, <1>2, <2>1 DEF Knows, HasVolume
  <2> QED BY <1>0, <1>1, <2>1, <2>2, <2>3, LookStep DEF Critical
<1>8. d = Nil \/ d \in Drivers BY <1>2 DEF TypeOK, DriverOrNil
<1>9. \/ d = Nil /\ GoOn(t, "find")
      \/ Fail(t)
      \/ d # Nil /\ Volume(d, th[t].name) \in has /\ Found(t, d)
      \/ GoOn(t, "stale")
  BY DEF CheckConflict
<1> HIDE DEF d
<1> QED BY <1>4, <1>5, <1>6, <1>7, <1>8, <1>9

LEMMA PurgeStaleStep ==
    ASSUME IInv, NEW t \in Threads, PurgeStale(t)
    PROVE  IInv'
<1>0. th[t].pc = "stale" /\ UNCHANGED <<owner, has, mountVars, setup>>
  BY DEF PurgeStale
<1>1. th[t].pc \in Critical \ {"unlock", "deref"} BY <1>0 DEF Critical
<1>2. /\ TypeOK /\ th[t] \in ThreadRec /\ th[t].name \in Names
      /\ Shape(th[t]) /\ Knows(th[t]) /\ th[t].ok = FALSE /\ th[t].job # Nil
  BY <1>1, Inside
<1>3. NoVolumeRm' <=> NoVolumeRm BY <1>0 DEF NoVolumeRm
<1>4. CASE Fail(t) /\ UNCHANGED storeVars BY <1>0, <1>1, <1>4, FailStep
<1>5. CASE ~HasRef(th[t].name) /\ Purge(th[t].name) /\ GoOn(t, "find")
  <2>1. Moves(t) /\ th'[t].pc = "find" /\ th'[t].driver = th[t].driver /\ th'[t].ok = FALSE
    BY <1>2, <1>5, GoOnMoves DEF PCs
  <2>2. /\ names' \in [Names -> DriverOrNil] /\ refs' \in [Names -> SUBSET Containers]
        /\ names'[th[t].name] = Nil /\ refs'[th[t].name] = {} /\ refs[th[t].name] = {}
        /\ \A n \in Names \ {th[t].name} : names'[n] = names[n] /\ refs'[n] = refs[n]
    BY <1>2, <1>5 DEF Purge, HasRef, TypeOK, DriverOrNil
  <2>3. Shape(th[t])' BY <1>0, <1>2, <1>3, <2>1 DEF Shape, Moves
  <2>4. Knows(th[t])'
    BY <1>0, <1>2, <2>1, <2>2 DEF Knows, HasVolume, Moves
  <2>5. th'[t].pc \in Critical \ {"deref"} /\ has' \subseteq Volumes
    BY <1>0, <1>2, <2>1 DEF Critical, TypeOK
  <2> QED BY <1>0, <1>1, <1>2, <2>1, <2>2, <2>3, <2>4, <2>5, CriticalStep
<1> QED BY <1>4, <1>5 DEF PurgeStale

LEMMA FindVolumeStep ==
    ASSUME IInv, NEW t \in Threads, FindVolume(t)
    PROVE  IInv'
<1>0. th[t].pc = "find" /\ UNCHANGED <<owner, storeVars, has, mountVars, setup>>
  BY DEF FindVolume
<1>1. th[t].pc \in Critical \ {"unlock", "deref"} BY <1>0 DEF Critical
<1>2. /\ TypeOK /\ th[t] \in ThreadRec /\ th[t].name \in Names
      /\ Shape(th[t]) /\ Knows(th[t]) /\ th[t].ok = FALSE /\ th[t].job # Nil
  BY <1>1, Inside
<1>3. NoVolumeRm' <=> NoVolumeRm BY <1>0 DEF NoVolumeRm
<1>4. CASE th[t].do = "CreateWithRef" /\ th[t].driver # Nil /\ GoOn(t, "make")
  <2>1. Moves(t) /\ th'[t].pc = "make" /\ th'[t].driver = th[t].driver /\ th'[t].ok = FALSE
    BY <1>2, <1>4, GoOnMoves DEF PCs
  <2>2. th[t].driver \in Drivers BY <1>2, <1>4 DEF ThreadRec, DriverOrNil
  <2>3. Shape(th[t])' BY <1>0, <1>2, <1>3, <1>4, <2>1, <2>2 DEF Shape, Moves
  <2>4. Knows(th[t])' /\ ~HasVolume(th[t])'
    BY <1>0, <1>2, <2>1 DEF Knows, HasVolume, Moves, storeVars
  <2> QED BY <1>0, <1>1, <2>1, <2>3, <2>4, LookStep DEF Critical
<1>5. ASSUME NEW e \in Drivers, Volume(e, th[t].name) \in has, Found(t, e)
      PROVE  IInv'
  <2>1. Moves(t) /\ th'[t].pc = "set" /\ th'[t].driver = e /\ th'[t].ok = FALSE
    BY <1>2, <1>5, FoundMoves
  <2>2. Shape(th[t])' BY <1>0, <1>2, <1>3, <2>1 DEF Shape, Moves
  <2>3. Knows(th[t])' /\ ~HasVolume(th[t])'
    BY <1>0, <1>2, <1>5, <2>1 DEF Knows, HasVolume, Moves
  <2> QED BY <1>0, <1>1, <2>1, <2>2, <2>3, LookStep DEF Critical
<1>6. CASE /\ th[t].do = "CreateWithRef"
           /\ th' = [th EXCEPT ![t].pc = "make", ![t].driver = Local]
  <2>1. Moves(t) /\ th'[t].pc = "make" /\ th'[t].driver = Local /\ th'[t].ok = FALSE
    BY <1>2, <1>6, VolumeAssumption DEF TypeOK, Moves, ThreadRec, DriverOrNil, PCs
  <2>2. Shape(th[t])' BY <1>0, <1>2, <1>3, <1>6, <2>1, VolumeAssumption DEF Shape, Moves
  <2>3. Knows(th[t])' /\ ~HasVolume(th[t])'
    BY <1>0, <1>2, <2>1 DEF Knows, HasVolume, Moves, storeVars
  <2> QED BY <1>0, <1>1, <2>1, <2>2, <2>3, LookStep DEF Critical
<1>7. CASE Fail(t) BY <1>0, <1>1, <1>7, FailStep
<1> QED BY <1>4, <1>5, <1>6, <1>7 DEF FindVolume

LEMMA MakeVolumeStep ==
    ASSUME IInv, NEW t \in Threads, MakeVolume(t)
    PROVE  IInv'
<1> DEFINE v == Volume(th[t].driver, th[t].name)
<1>0. th[t].pc = "make" /\ UNCHANGED <<owner, storeVars, mountVars, setup>>
  BY DEF MakeVolume
<1>1. th[t].pc \in Critical \ {"unlock", "deref"} BY <1>0 DEF Critical
<1>2. /\ TypeOK /\ th[t] \in ThreadRec /\ th[t].name \in Names
      /\ Shape(th[t]) /\ Knows(th[t]) /\ th[t].ok = FALSE /\ th[t].job # Nil
      /\ refs[th[t].name] # {} => names[th[t].name] # Nil
  BY <1>1, Inside
<1>3. NoVolumeRm' <=> NoVolumeRm BY <1>0 DEF NoVolumeRm
<1>4. CASE Fail(t) /\ UNCHANGED has BY <1>0, <1>1, <1>4, FailStep
<1>5. CASE v \in has /\ GoOn(t, "set") /\ UNCHANGED has
  <2>1. Moves(t) /\ th'[t].pc = "set" /\ th'[t].driver = th[t].driver /\ th'[t].ok = FALSE
    BY <1>2, <1>5, GoOnMoves DEF PCs
  <2>2. Shape(th[t])' BY <1>0, <1>2, <1>3, <2>1 DEF Shape, Moves
  <2>3. Knows(th[t])' /\ ~HasVolume(th[t])'
    BY <1>0, <1>2, <1>5, <2>1 DEF Knows, HasVolume, Moves
  <2> QED BY <1>0, <1>1, <1>5, <2>1, <2>2, <2>3, LookStep DEF Critical
<1>6. CASE has' = has \cup {v} /\ GoOn(t, "reset")
  <2>1. Moves(t) /\ th'[t].pc = "reset" /\ th'[t].driver = th[t].driver /\ th'[t].ok = FALSE
    BY <1>2, <1>6, GoOnMoves DEF PCs
  <2>2. v \in Volumes /\ v.name = th[t].name
    BY <1>0, <1>2 DEF Shape, Volume, Volumes
  <2>3. /\ names' \in [Names -> DriverOrNil] /\ refs' \in [Names -> SUBSET Containers]
        /\ \A n \in Names \ {th[t].name} : names'[n] = names[n] /\ refs'[n] = refs[n]
        /\ has' \subseteq Volumes
        /\ \A w \in Volumes : w.name # th[t].name => (w \in has' <=> w \in has)
        /\ refs' = refs /\ names' = names /\ has \subseteq has'
    BY <1>0, <1>2, <1>6, <2>2 DEF TypeOK, storeVars
  <2>4. Shape(th[t])' BY <1>0, <1>2, <1>3, <2>1 DEF Shape, Moves
  <2>5. Knows(th[t])'
    BY <1>0, <1>2, <1>6, <2>1, <2>3 DEF Knows, HasVolume, Moves
  <2>6. th'[t].pc \in Critical \ {"deref"} BY <2>1 DEF Critical
  <2> QED BY <1>0, <1>1, <1>2, <2>1, <2>3, <2>4, <2>5, <2>6, CriticalStep
<1> QED BY <1>4, <1>5, <1>6 DEF MakeVolume

LEMMA ResetRefsStep ==
    ASSUME IInv, NEW t \in Threads, ResetRefs(t)
    PROVE  IInv'
<1>0. th[t].pc = "reset" /\ UNCHANGED <<owner, names, has, mountVars, setup>>
  BY DEF ResetRefs
<1>1. th[t].pc \in Critical \ {"unlock", "deref"} BY <1>0 DEF Critical
<1>2. /\ TypeOK /\ th[t] \in ThreadRec /\ th[t].name \in Names
      /\ Shape(th[t]) /\ Knows(th[t]) /\ th[t].ok = FALSE /\ th[t].job # Nil
      /\ refs[th[t].name] # {} => names[th[t].name] # Nil
  BY <1>1, Inside
<1>3. NoVolumeRm' <=> NoVolumeRm BY <1>0 DEF NoVolumeRm
<1>4. refs[th[t].name] = {} BY <1>0, <1>2 DEF Knows, Shape
<1>5. refs' = refs
  BY <1>2, <1>4 DEF ResetRefs, TypeOK
<1>6. CASE Fail(t) BY <1>0, <1>1, <1>5, <1>6, FailStep DEF storeVars
<1>7. CASE GoOn(t, "set")
  <2>1. Moves(t) /\ th'[t].pc = "set" /\ th'[t].driver = th[t].driver /\ th'[t].ok = FALSE
    BY <1>2, <1>7, GoOnMoves DEF PCs
  <2>2. Shape(th[t])' BY <1>0, <1>2, <1>3, <2>1 DEF Shape, Moves
  <2>3. Knows(th[t])' /\ ~HasVolume(th[t])'
    BY <1>0, <1>2, <2>1 DEF Knows, HasVolume, Moves
  <2> QED BY <1>0, <1>1, <1>5, <2>1, <2>2, <2>3, LookStep DEF Critical, storeVars
<1> QED BY <1>6, <1>7 DEF ResetRefs

LEMMA GetVolumeStep ==
    ASSUME IInv, NEW t \in Threads, GetVolume(t)
    PROVE  IInv'
<1>0. th[t].pc = "get" /\ UNCHANGED <<owner, storeVars, has, mountVars, setup>>
  BY DEF GetVolume
<1>1. th[t].pc \in Critical \ {"unlock", "deref"} BY <1>0 DEF Critical
<1>2. /\ TypeOK /\ th[t] \in ThreadRec /\ th[t].name \in Names
      /\ Shape(th[t]) /\ Knows(th[t]) /\ th[t].ok = FALSE /\ th[t].job # Nil
      /\ refs[th[t].name] # {} => names[th[t].name] # Nil
  BY <1>1, Inside
<1>3. NoVolumeRm' <=> NoVolumeRm BY <1>0 DEF NoVolumeRm
<1>4. CASE Fail(t) BY <1>0, <1>1, <1>4, FailStep
<1>5. CASE Volume(th[t].driver, th[t].name) \in has /\ GoOn(t, "set")
  <2>1. Moves(t) /\ th'[t].pc = "set" /\ th'[t].driver = th[t].driver /\ th'[t].ok = FALSE
    BY <1>2, <1>5, GoOnMoves DEF PCs
  <2>2. Shape(th[t])' BY <1>0, <1>2, <1>3, <2>1 DEF Shape, Moves
  <2>3. Knows(th[t])' /\ ~HasVolume(th[t])'
    BY <1>0, <1>2, <1>5, <2>1 DEF Knows, HasVolume, Moves
  <2> QED BY <1>0, <1>1, <2>1, <2>2, <2>3, LookStep DEF Critical
<1> QED BY <1>4, <1>5 DEF GetVolume

LEMMA StoreVolumeStep ==
    ASSUME IInv, NEW t \in Threads, StoreVolume(t)
    PROVE  IInv'
<1>0. th[t].pc = "set" /\ UNCHANGED <<owner, has, mountVars, setup>>
  BY DEF StoreVolume
<1>1. th[t].pc \in Critical \ {"unlock", "deref"} BY <1>0 DEF Critical
<1>2. /\ TypeOK /\ th[t] \in ThreadRec /\ th[t].name \in Names
      /\ Shape(th[t]) /\ Knows(th[t]) /\ th[t].ok = FALSE /\ th[t].job # Nil
      /\ refs[th[t].name] # {} => names[th[t].name] # Nil
  BY <1>1, Inside
<1>3. NoVolumeRm' <=> NoVolumeRm BY <1>0 DEF NoVolumeRm
<1>4. Moves(t) /\ th'[t].pc = "unlock" /\ th'[t].driver = th[t].driver /\ th'[t].ok = TRUE
  BY <1>2, EndMoves DEF StoreVolume
<1>5. th[t].driver \in Drivers /\ (th[t].ref # Nil => th[t].job \in {"create", "from"})
  BY <1>0, <1>2 DEF Shape
<1>6. /\ names' = [names EXCEPT ![th[t].name] = th[t].driver]
      /\ refs' = [refs EXCEPT ![th[t].name] = @ \cup ({th[t].ref} \ {Nil})]
  BY DEF StoreVolume, SetNamed
<1>7. /\ names' \in [Names -> DriverOrNil] /\ refs' \in [Names -> SUBSET Containers]
      /\ names'[th[t].name] = th[t].driver
      /\ refs'[th[t].name] = refs[th[t].name] \cup ({th[t].ref} \ {Nil})
      /\ \A n \in Names \ {th[t].name} : names'[n] = names[n] /\ refs'[n] = refs[n]
  <2>1. names' \in [Names -> DriverOrNil] /\ names'[th[t].name] = th[t].driver
    BY <1>2, <1>5, <1>6 DEF TypeOK, DriverOrNil
  <2>2. {th[t].ref} \ {Nil} \subseteq Containers BY <1>2 DEF ThreadRec
  <2>3. refs' \in [Names -> SUBSET Containers]
    BY <1>2, <1>6, <2>2 DEF TypeOK
  <2> QED BY <1>2, <1>6, <2>1, <2>3 DEF TypeOK
<1>8. Shape(th[t])' BY <1>0, <1>2, <1>3, <1>4, <1>5 DEF Shape, Moves
<1>9. HasVolume(th[t])' => th[t].ref \in Containers
  BY <1>2, <1>4 DEF HasVolume, Shape, Moves
<1>10. Knows(th[t])'
  BY <1>0, <1>2, <1>3, <1>4, <1>7, <1>9, VolumeAssumption DEF Knows, Moves
<1>11. /\ th'[t].pc \in Critical \ {"deref"} /\ has' \subseteq Volumes
       /\ names'[th[t].name] # Nil
  BY <1>0, <1>2, <1>4, <1>5, <1>7, VolumeAssumption DEF Critical, TypeOK
<1>12. th[t].ref # Nil => HasVolume(th[t])'
  BY <1>4, <1>5 DEF HasVolume, Moves
<1>13. \A c \in refs'[th[t].name] :
          c \in refs[th[t].name] \/ (HasVolume(th[t])' /\ c = th[t].ref)
  BY <1>7, <1>12
<1> QED BY <1>0, <1>1, <1>2, <1>4, <1>7, <1>8, <1>10, <1>11, <1>13, CriticalStep

LEMMA RemoveCheckStep ==
    ASSUME IInv, NEW t \in Threads, RemoveCheck(t)
    PROVE  IInv'
<1>0. th[t].pc = "remove" /\ UNCHANGED <<owner, storeVars, has, mountVars, setup>>
  BY DEF RemoveCheck
<1>1. th[t].pc \in Critical \ {"unlock", "deref"} BY <1>0 DEF Critical
<1>2. /\ TypeOK /\ th[t] \in ThreadRec /\ th[t].name \in Names
      /\ Shape(th[t]) /\ Knows(th[t]) /\ th[t].ok = FALSE /\ th[t].job # Nil
      /\ refs[th[t].name] # {} => names[th[t].name] # Nil
  BY <1>1, Inside
<1>3. NoVolumeRm' <=> NoVolumeRm BY <1>0 DEF NoVolumeRm
<1>4. CASE Fail(t) BY <1>0, <1>1, <1>4, FailStep
<1>5. CASE ~HasRef(th[t].name) /\ GoOn(t, "drop")
  <2>1. Moves(t) /\ th'[t].pc = "drop" /\ th'[t].driver = th[t].driver /\ th'[t].ok = FALSE
    BY <1>2, <1>5, GoOnMoves DEF PCs
  <2>2. Shape(th[t])' BY <1>0, <1>2, <1>3, <2>1 DEF Shape, Moves
  <2>3. Knows(th[t])' /\ ~HasVolume(th[t])'
    BY <1>0, <1>2, <1>5, <2>1 DEF Knows, HasVolume, Moves, HasRef, storeVars
  <2> QED BY <1>0, <1>1, <2>1, <2>2, <2>3, LookStep DEF Critical
<1> QED BY <1>4, <1>5 DEF RemoveCheck

LEMMA RemoveDropStep ==
    ASSUME IInv, NEW t \in Threads, RemoveDrop(t)
    PROVE  IInv'
<1>0. th[t].pc = "drop" /\ UNCHANGED <<owner, storeVars, mountVars, setup>>
  BY DEF RemoveDrop
<1>1. th[t].pc \in Critical \ {"unlock", "deref"} BY <1>0 DEF Critical
<1>2. /\ TypeOK /\ th[t] \in ThreadRec /\ th[t].name \in Names
      /\ Shape(th[t]) /\ Knows(th[t]) /\ th[t].ok = FALSE /\ th[t].job # Nil
      /\ refs[th[t].name] # {} => names[th[t].name] # Nil
  BY <1>1, Inside
<1>3. NoVolumeRm' <=> NoVolumeRm BY <1>0 DEF NoVolumeRm
<1>4. CASE Fail(t) /\ UNCHANGED has BY <1>0, <1>1, <1>4, FailStep
<1>5. CASE has' = has \ {Volume(th[t].driver, th[t].name)} /\ GoOn(t, "purge")
  <2>1. Moves(t) /\ th'[t].pc = "purge" /\ th'[t].driver = th[t].driver /\ th'[t].ok = FALSE
    BY <1>2, <1>5, GoOnMoves DEF PCs
  <2>2. Volume(th[t].driver, th[t].name).name = th[t].name BY DEF Volume
  <2>3. /\ names' \in [Names -> DriverOrNil] /\ refs' \in [Names -> SUBSET Containers]
        /\ \A n \in Names \ {th[t].name} : names'[n] = names[n] /\ refs'[n] = refs[n]
        /\ has' \subseteq Volumes
        /\ \A w \in Volumes : w.name # th[t].name => (w \in has' <=> w \in has)
        /\ refs' = refs /\ names' = names /\ refs[th[t].name] = {}
    BY <1>0, <1>2, <1>5, <2>2 DEF TypeOK, storeVars, Knows
  <2>4. Shape(th[t])' BY <1>0, <1>2, <1>3, <2>1 DEF Shape, Moves
  <2>5. Knows(th[t])'
    BY <1>0, <1>2, <2>1, <2>3 DEF Knows, HasVolume, Moves
  <2>6. th'[t].pc \in Critical \ {"deref"} BY <2>1 DEF Critical
  <2> QED BY <1>0, <1>1, <1>2, <2>1, <2>3, <2>4, <2>5, <2>6, CriticalStep
<1> QED BY <1>4, <1>5 DEF RemoveDrop

LEMMA RemovePurgeStep ==
    ASSUME IInv, NEW t \in Threads, RemovePurge(t)
    PROVE  IInv'
<1>0. th[t].pc = "purge" /\ UNCHANGED <<owner, has, mountVars, setup>>
  BY DEF RemovePurge
<1>1. th[t].pc \in Critical \ {"unlock", "deref"} BY <1>0 DEF Critical
<1>2. /\ TypeOK /\ th[t] \in ThreadRec /\ th[t].name \in Names
      /\ Shape(th[t]) /\ Knows(th[t]) /\ th[t].ok = FALSE /\ th[t].job # Nil
      /\ refs[th[t].name] # {} => names[th[t].name] # Nil
  BY <1>1, Inside
<1>3. NoVolumeRm' <=> NoVolumeRm BY <1>0 DEF NoVolumeRm
<1>4. Moves(t) /\ th'[t].pc = "unlock" /\ th'[t].driver = th[t].driver /\ th'[t].ok = TRUE
  BY <1>2, EndMoves DEF RemovePurge
<1>5. /\ names' \in [Names -> DriverOrNil] /\ refs' \in [Names -> SUBSET Containers]
      /\ names'[th[t].name] = Nil /\ refs'[th[t].name] = {} /\ refs[th[t].name] = {}
      /\ \A n \in Names \ {th[t].name} : names'[n] = names[n] /\ refs'[n] = refs[n]
  BY <1>0, <1>2 DEF RemovePurge, Purge, TypeOK, DriverOrNil, Knows
<1>6. Shape(th[t])' BY <1>0, <1>2, <1>3, <1>4 DEF Shape, Moves
<1>7. Knows(th[t])'
  BY <1>0, <1>2, <1>4, <1>5 DEF Knows, HasVolume, Moves, Shape
<1>8. th'[t].pc \in Critical \ {"deref"} /\ has' \subseteq Volumes
  BY <1>0, <1>2, <1>4 DEF Critical, TypeOK
<1> QED BY <1>0, <1>1, <1>2, <1>4, <1>5, <1>6, <1>7, <1>8, CriticalStep

LEMMA DereferenceStep ==
    ASSUME IInv, NEW t \in Threads, Dereference(t)
    PROVE  IInv'
<1>0. th[t].pc = "deref" /\ UNCHANGED <<owner, names, has, mountVars, setup>>
  BY DEF Dereference
<1>1. th[t].pc \in Critical \ {"unlock"} BY <1>0 DEF Critical
<1>2. /\ TypeOK /\ th[t] \in ThreadRec /\ th[t].name \in Names
      /\ Shape(th[t]) /\ Knows(th[t]) /\ th[t].ok = FALSE /\ th[t].job # Nil
      /\ refs[th[t].name] # {} => names[th[t].name] # Nil
  BY <1>1, Inside
<1>3. NoVolumeRm' <=> NoVolumeRm BY <1>0 DEF NoVolumeRm
<1>4. Moves(t) /\ th'[t].pc = "unlock" /\ th'[t].driver = th[t].driver /\ th'[t].ok = TRUE
  BY <1>2, EndMoves DEF Dereference
<1>5. /\ refs' \in [Names -> SUBSET Containers] /\ names' \in [Names -> DriverOrNil]
      /\ refs'[th[t].name] = refs[th[t].name] \ {th[t].ref} /\ names' = names
      /\ \A n \in Names \ {th[t].name} : names'[n] = names[n] /\ refs'[n] = refs[n]
  BY <1>0, <1>2 DEF Dereference, Dropped, TypeOK
<1>6. Shape(th[t])' BY <1>0, <1>2, <1>3, <1>4 DEF Shape, Moves
<1>7. Knows(th[t])'
  BY <1>0, <1>2, <1>4, <1>5 DEF Knows, HasVolume, Moves, Shape
<1>8. th'[t].pc \in Critical \ {"deref"} /\ has' \subseteq Volumes
  BY <1>0, <1>2, <1>4 DEF Critical, TypeOK
<1> QED BY <1>0, <1>1, <1>2, <1>4, <1>5, <1>6, <1>7, <1>8, CriticalStep

LEMMA RefsStep ==
    ASSUME IInv, NEW t \in Threads, Refs(t)
    PROVE  IInv'
<1>0. th[t].pc = "refs" /\ UNCHANGED <<owner, storeVars, has, mountVars, setup>>
  BY DEF Refs
<1>1. th[t].pc \in Critical \ {"unlock", "deref"} BY <1>0 DEF Critical
<1>2. /\ TypeOK /\ th[t] \in ThreadRec /\ th[t].name \in Names
      /\ Shape(th[t]) /\ Knows(th[t]) /\ th[t].ok = FALSE /\ th[t].job # Nil
      /\ refs[th[t].name] # {} => names[th[t].name] # Nil
  BY <1>1, Inside
<1>3. NoVolumeRm' <=> NoVolumeRm BY <1>0 DEF NoVolumeRm
<1>4. th'[t].ok \in BOOLEAN /\ Moves(t) /\ th'[t].pc = "unlock" /\ th'[t].driver = th[t].driver
  BY <1>2, EndMoves DEF Refs
<1>5. Shape(th[t])' BY <1>0, <1>2, <1>3, <1>4 DEF Shape, Moves
<1>6. Knows(th[t])' /\ ~HasVolume(th[t])'
  BY <1>0, <1>2, <1>4 DEF Knows, HasVolume, Moves, Shape
<1> QED BY <1>0, <1>1, <1>4, <1>5, <1>6, LookStep DEF Critical

----------------------------------------------------------------------------
(* Steps outside a critical section                                        *)

\* A step of t that changes neither the store nor the volumes.
LEMMA QuietStep ==
    ASSUME IInv, NEW t \in Threads,
           th'[t] \in ThreadRec, th' = [th EXCEPT ![t] = th'[t]],
           Shape(th[t])', Knows(th[t])', Serves(th[t])', Locked',
           owner' \in [Names -> Threads \cup {Nil}],
           \A u \in Threads \ {t} : th'[t].ref # Nil => th[u].ref # th'[t].ref,
           restoring # {} => th'[t].pc = "idle",
           Tidy => \A n \in Names : \A c \in refs[n] : Accounts(t, c, n) => Accounts(t, c, n)',
           UNCHANGED <<storeVars, has, mountVars, setup>>
    PROVE  IInv'
<1>0. /\ TypeOK /\ \A u \in Threads \ {t} : th'[u] = th[u]
      /\ names' = names /\ refs' = refs /\ has' = has /\ setup' = setup
      /\ mount' = mount /\ lazy' = lazy /\ restoring' = restoring
  BY DEF IInv, TypeOK, mountVars, storeVars
<1>1. TypeOK' BY <1>0 DEF TypeOK
<1>2. \A u \in Threads : Shape(th[u])'
  <2>1. ASSUME NEW u \in Threads \ {t} PROVE Shape(th[u])'
    <3>1. th'[u] = th[u] /\ Shape(th[u]) BY <1>0, <2>1 DEF IInv
    <3>2. NoVolumeRm' <=> NoVolumeRm BY <1>0 DEF NoVolumeRm
    <3> QED BY <3>1, <3>2 DEF Shape
  <2> QED BY <2>1
<1>3. \A u \in Threads : Serves(th[u])' BY <1>0 DEF IInv, Serves
<1>4. \A u \in Threads : Knows(th[u])'
  <2>1. ASSUME NEW u \in Threads \ {t} PROVE Knows(th[u])'
    <3>1. th'[u] = th[u] /\ Knows(th[u]) BY <1>0, <2>1 DEF IInv
    <3>2. NoVolumeRm' <=> NoVolumeRm BY <1>0 DEF NoVolumeRm
    <3> QED BY <1>0, <3>1, <3>2 DEF Knows, HasVolume
  <2> QED BY <2>1
<1>5. OneServes'
  BY <1>0 DEF IInv, OneServes
<1>6. Restoring' BY <1>0 DEF IInv, Restoring
<1>7. LazyMounted' BY <1>0 DEF IInv, LazyMounted
<1>8. Named' BY <1>0 DEF IInv, Named
<1>9. UsedIsReferenced' BY <1>0 DEF IInv, UsedIsReferenced, NoVolumeRm
<1>10. UsedExists' BY <1>0 DEF IInv, UsedExists, NoVolumeRm
<1>11. Accounted'
  <2>1. SUFFICES ASSUME Tidy, NEW n \in Names, NEW c \in refs[n]
                 PROVE  \/ c \notin lazy /\ mount[c] # Nil /\ mount[c].name = n
                        \/ \E u \in Threads : Accounts(u, c, n)'
    BY <1>0 DEF Accounted, Tidy
  <2>2. \/ c \notin lazy /\ mount[c] # Nil /\ mount[c].name = n
        \/ \E u \in Threads : Accounts(u, c, n)
    BY <2>1 DEF IInv, Accounted
  <2>3. \A u \in Threads \ {t} : Accounts(u, c, n) => Accounts(u, c, n)'
    BY <1>0 DEF Accounts, HasVolume
  <2> QED BY <2>1, <2>2, <2>3
<1> QED BY <1>1, <1>2, <1>3, <1>4, <1>5, <1>6, <1>7, <1>8, <1>9, <1>10, <1>11 DEF IInv

LEMMA FirstSteps ==
    /\ FirstStep["CreateWithRef"] = "check" /\ FirstStep["GetWithRef"] = "get"
    /\ FirstStep["Get"] = "find" /\ FirstStep["Remove"] = "remove"
    /\ FirstStep["Dereference"] = "deref" /\ FirstStep["Refs"] = "refs"
BY DEF FirstStep

LEMMA LockStep ==
    ASSUME IInv, NEW t \in Threads, Lock(t)
    PROVE  IInv'
<1>0. /\ th[t].pc = "lock" /\ owner[th[t].name] = Nil
      /\ owner' = [owner EXCEPT ![th[t].name] = t]
      /\ UNCHANGED <<storeVars, has, mountVars, setup>>
  BY DEF Lock
<1>1. /\ TypeOK /\ th[t] \in ThreadRec /\ Shape(th[t]) /\ Serves(th[t])
  BY DEF IInv, TypeOK
<1>2. th[t].job # Nil /\ th[t].name \in Names /\ th[t].do \in StoreOps /\ th[t].ok = FALSE
  BY <1>0, <1>1 DEF Shape, ThreadRec
<1>3. PICK l \in {"check", "get", "find", "remove", "deref", "refs"} :
        /\ l = FirstStep[th[t].do]
        /\ l = "check" => th[t].do = "CreateWithRef"
        /\ l = "get" => th[t].do = "GetWithRef"
        /\ l = "find" => th[t].do = "Get"
        /\ l = "remove" => th[t].do = "Remove"
        /\ l = "deref" <=> th[t].do = "Dereference"
        /\ l = "refs" => th[t].do = "Refs"
  BY <1>2, FirstSteps DEF StoreOps
<1>4. GoOn(t, l) BY <1>3 DEF Lock, GoOn
<1>5. Moves(t) /\ th'[t].pc = l /\ th'[t].driver = th[t].driver /\ th'[t].ok = FALSE
  BY <1>1, <1>2, <1>4, GoOnMoves DEF PCs
<1>6. NoVolumeRm' <=> NoVolumeRm BY <1>0 DEF NoVolumeRm
<1>7. Shape(th[t])' BY <1>0, <1>1, <1>2, <1>3, <1>5, <1>6 DEF Shape, Moves
<1>8. Knows(th[t])' BY <1>2, <1>3, <1>5 DEF Knows, HasVolume, Moves
<1>9. Serves(th[t])' BY <1>0, <1>1, <1>5 DEF Serves, Moves, mountVars
<1>10. \A u \in Threads \ {t} : th'[u] = th[u] BY <1>1, <1>5 DEF Moves, TypeOK
<1>11. Locked'
  <2>1. SUFFICES ASSUME NEW n \in Names, NEW u \in Threads
                 PROVE  owner'[n] = u <=> th'[u].name = n /\ th'[u].pc \in Critical
    BY DEF Locked
  <2>2. owner[n] = u <=> th[u].name = n /\ th[u].pc \in Critical BY DEF IInv, Locked
  <2>3. u # Nil BY VolumeAssumption
  <2>4. CASE u = t
    BY <1>0, <1>1, <1>2, <1>3, <1>5, <2>2, <2>4 DEF TypeOK, Moves, Critical
  <2>5. CASE u # t
    BY <1>0, <1>1, <1>2, <1>10, <2>2, <2>3, <2>5 DEF TypeOK
  <2> QED BY <2>4, <2>5
<1>12. \A u \in Threads \ {t} : th'[t].ref # Nil => th[u].ref # th'[t].ref
  BY <1>5 DEF IInv, OneServes, Moves
<1>13. restoring = {} BY <1>0 DEF IInv, Restoring
<1>14. \A n \in Names : \A c \in refs[n] : Accounts(t, c, n) => Accounts(t, c, n)'
  <2>1. SUFFICES ASSUME NEW n \in Names, NEW c \in refs[n], Accounts(t, c, n)
                 PROVE  Accounts(t, c, n)'
    OBVIOUS
  <2>2. c # Nil BY <1>1, VolumeAssumption DEF TypeOK
  <2>3. th[t].job = "delete" BY <1>0, <2>1 DEF Accounts, HasVolume
  <2>4. th[t].do = "Dereference" BY <1>1, <2>1, <2>2, <2>3 DEF Shape, Accounts
  <2> QED BY <1>3, <1>5, <2>1, <2>3, <2>4 DEF Accounts, Moves
<1>15. owner' \in [Names -> Threads \cup {Nil}] BY <1>0, <1>1 DEF TypeOK
<1> QED BY <1>0, <1>5, <1>7, <1>8, <1>9, <1>11, <1>12, <1>13, <1>14, <1>15, QuietStep DEF Moves

LEMMA NextCallStep ==
    ASSUME IInv, NEW t \in Threads, NextCall(t)
    PROVE  IInv'
<1>0. /\ th[t].pc = "next" /\ GoOn(t, "lock")
      /\ UNCHANGED <<owner, storeVars, has, mountVars, setup>>
  BY DEF NextCall
<1>1. /\ TypeOK /\ th[t] \in ThreadRec /\ Shape(th[t]) /\ Serves(th[t])
  BY DEF IInv, TypeOK
<1>2. Moves(t) /\ th'[t].pc = "lock" /\ th'[t].driver = th[t].driver /\ th'[t].ok = th[t].ok
  BY <1>0, <1>1, GoOnMoves DEF PCs
<1>3. NoVolumeRm' <=> NoVolumeRm BY <1>0 DEF NoVolumeRm
<1>4. Shape(th[t])' BY <1>0, <1>1, <1>2, <1>3, VolumeAssumption DEF Shape, Moves
<1>5. Knows(th[t])' BY <1>2 DEF Knows, HasVolume
<1>6. Serves(th[t])' BY <1>0, <1>1, <1>2 DEF Serves, Moves, mountVars
<1>7. \A u \in Threads \ {t} : th'[u] = th[u] BY <1>1, <1>2 DEF Moves, TypeOK
<1>8. Locked' BY <1>0, <1>2, <1>7 DEF IInv, Locked, Critical
<1>9. th'[t].ref = Nil BY <1>0, <1>1, <1>2 DEF Shape, Moves
<1>10. restoring = {} BY <1>0 DEF IInv, Restoring
<1>11. \A n \in Names : \A c \in refs[n] : Accounts(t, c, n) => Accounts(t, c, n)'
  BY <1>0 DEF Accounts, HasVolume
<1>12. owner' \in [Names -> Threads \cup {Nil}] BY <1>0, <1>1 DEF TypeOK
<1> QED BY <1>0, <1>2, <1>4, <1>5, <1>6, <1>8, <1>9, <1>10, <1>11, <1>12, QuietStep DEF Moves

\* The daemon calls the store for the container r, or for none.
LEMMA Calls ==
    ASSUME IInv, NEW t \in Threads, MayBegin(t), NEW do \in StoreOps, NEW job \in Jobs,
           NEW n \in Names, NEW d \in DriverOrNil, NEW r \in Containers \cup {Nil},
           Call(t, do, job, n, d, r), UNCHANGED owner
    PROVE  /\ TypeOK /\ th'[t] \in ThreadRec /\ th' = [th EXCEPT ![t] = th'[t]]
           /\ \A u \in Threads \ {t} : th'[u] = th[u]
           /\ th[t].pc = "idle" /\ restoring = {}
           /\ th'[t].pc = "lock" /\ th'[t].do = do /\ th'[t].job = job /\ th'[t].name = n
           /\ th'[t].driver = d /\ th'[t].ref = r /\ th'[t].ok = FALSE
           /\ Knows(th[t])' /\ Locked' /\ owner' \in [Names -> Threads \cup {Nil}]
<1>1. TypeOK BY DEF IInv
<1>2. /\ th'[t] \in ThreadRec /\ th' = [th EXCEPT ![t] = th'[t]]
      /\ \A u \in Threads \ {t} : th'[u] = th[u]
      /\ th[t].pc = "idle" /\ restoring = {}
      /\ th'[t].pc = "lock" /\ th'[t].do = do /\ th'[t].job = job /\ th'[t].name = n
      /\ th'[t].driver = d /\ th'[t].ref = r /\ th'[t].ok = FALSE
  BY <1>1 DEF TypeOK, Call, MayBegin, ThreadRec, PCs
<1>3. Knows(th[t])' BY <1>2 DEF Knows, HasVolume
<1>4. Locked' BY <1>2 DEF IInv, Locked, Critical
<1> QED BY <1>1, <1>2, <1>3, <1>4 DEF TypeOK

LEMMA CallStep ==
    ASSUME IInv, NEW t \in Threads, MayBegin(t), NEW do \in StoreOps, NEW job \in Jobs,
           NEW n \in Names, NEW d \in DriverOrNil, NEW r \in Containers \cup {Nil},
           Call(t, do, job, n, d, r), r # Nil => Free(r),
           do = "GetWithRef" => job = "from" /\ d \in Drivers,
           do # "Dereference" /\ job # "delete",
           IF job \in {"create", "from"}
           THEN /\ r # Nil /\ do = (IF job = "create" THEN "CreateWithRef" ELSE "GetWithRef")
                /\ "override" \notin setup => mount[r] = Nil \/ r \in lazy
           ELSE r = Nil,
           job \in {"rm", "rm -f"} => ~NoVolumeRm,
           UNCHANGED <<owner, storeVars, has, mountVars, setup>>
    PROVE  IInv'
<1>1. /\ TypeOK /\ th'[t] \in ThreadRec /\ th' = [th EXCEPT ![t] = th'[t]]
      /\ \A u \in Threads \ {t} : th'[u] = th[u]
      /\ th[t].pc = "idle" /\ restoring = {}
      /\ th'[t].pc = "lock" /\ th'[t].do = do /\ th'[t].job = job /\ th'[t].name = n
      /\ th'[t].driver = d /\ th'[t].ref = r /\ th'[t].ok = FALSE
      /\ Knows(th[t])' /\ Locked' /\ owner' \in [Names -> Threads \cup {Nil}]
  BY Calls
<1>2. NoVolumeRm' <=> NoVolumeRm BY DEF NoVolumeRm
<1>3. job # Nil BY VolumeAssumption
<1>4. Shape(th[t])' BY <1>1, <1>2, <1>3 DEF Shape
<1>5. Serves(th[t])' BY <1>1 DEF Serves, mountVars
<1>6. \A u \in Threads \ {t} : th'[t].ref # Nil => th[u].ref # th'[t].ref
  BY <1>1 DEF Free
<1>7. \A m \in Names : \A c \in refs[m] : Accounts(t, c, m) => Accounts(t, c, m)'
  BY <1>1 DEF Accounts, HasVolume
<1> QED BY <1>1, <1>4, <1>5, <1>6, <1>7, QuietStep

\* A container has no mount point any more, and no thread works for it.
LEMMA ContainerRemoveStep ==
    ASSUME IInv, NEW t \in Threads, NEW c \in Containers, ContainerRemove(t, c),
           UNCHANGED <<owner, storeVars, has, restoring, setup>>
    PROVE  IInv'
<1>0. /\ MayBegin(t) /\ Free(c) /\ mount[c] # Nil /\ restoring = {}
      /\ names' = names /\ refs' = refs
  BY DEF ContainerRemove, MayBegin, storeVars
<1>1. TypeOK BY DEF IInv
<1>2. NoVolumeRm' <=> NoVolumeRm BY DEF NoVolumeRm
<1>3. /\ mount' \in [Containers -> Volumes \cup {Nil}] /\ mount'[c] = Nil
      /\ \A x \in Containers \ {c} : mount'[x] = mount[x]
      /\ lazy' = lazy \ {c}
  BY <1>1 DEF ContainerRemove, TypeOK
<1>4. mount[c].name \in Names /\ mount[c].driver \in DriverOrNil
  BY <1>0, <1>1 DEF TypeOK, Volumes, DriverOrNil
<1>5. CASE c \notin lazy
  <2>1. /\ th'[t] \in ThreadRec /\ th' = [th EXCEPT ![t] = th'[t]]
        /\ \A u \in Threads \ {t} : th'[u] = th[u]
        /\ th[t].pc = "idle"
        /\ th'[t].pc = "lock" /\ th'[t].do = "Dereference" /\ th'[t].job = "delete"
        /\ th'[t].name = mount[c].name
        /\ th'[t].driver = mount[c].driver /\ th'[t].ref = c /\ th'[t].ok = FALSE
        /\ Knows(th[t])' /\ Locked'
    <3>1. PICK n \in Names, d \in DriverOrNil : n = mount[c].name /\ d = mount[c].driver
      BY <1>4
    <3>2. Call(t, "Dereference", "delete", n, d, c) BY <1>5, <3>1 DEF ContainerRemove
    <3>3. "Dereference" \in StoreOps /\ "delete" \in Jobs BY DEF StoreOps, Jobs
    <3>4. MayBegin(t) /\ c \in Containers \cup {Nil} BY <1>0
    <3>5. /\ th'[t] \in ThreadRec /\ th' = [th EXCEPT ![t] = th'[t]]
          /\ \A u \in Threads \ {t} : th'[u] = th[u]
          /\ th[t].pc = "idle"
          /\ th'[t].pc = "lock" /\ th'[t].do = "Dereference" /\ th'[t].job = "delete"
          /\ th'[t].name = n /\ th'[t].driver = d /\ th'[t].ref = c /\ th'[t].ok = FALSE
          /\ Knows(th[t])' /\ Locked'
      BY <3>2, <3>3, <3>4, Calls
    <3> QED BY <3>1, <3>5
  <2>2. TypeOK' BY <1>0, <1>1, <1>3, <2>1 DEF TypeOK
  <2>3. \A u \in Threads : Shape(th[u])'
    <3>1. "delete" # Nil /\ c # Nil BY VolumeAssumption DEF Jobs
    <3>2. Shape(th[t])' BY <1>2, <1>4, <2>1, <3>1 DEF Shape, StoreOps
    <3>3. ASSUME NEW u \in Threads \ {t} PROVE Shape(th[u])'
      <4>1. th'[u] = th[u] /\ Shape(th[u]) BY <2>1, <3>3 DEF IInv
      <4> QED BY <1>2, <4>1 DEF Shape
    <3> QED BY <3>2, <3>3
  <2>4. \A u \in Threads : Knows(th[u])'
    <3>1. ASSUME NEW u \in Threads \ {t} PROVE Knows(th[u])'
      <4>1. th'[u] = th[u] /\ Knows(th[u]) BY <2>1, <3>1 DEF IInv
      <4> QED BY <1>0, <1>2, <4>1 DEF Knows, HasVolume
    <3> QED BY <2>1, <3>1
  <2>5. \A u \in Threads : Serves(th[u])'
    <3>1. Serves(th[t])' BY <1>3, <2>1 DEF Serves
    <3>2. ASSUME NEW u \in Threads \ {t} PROVE Serves(th[u])'
      <4>1. th'[u] = th[u] /\ Serves(th[u]) /\ th[u].ref # c BY <1>0, <2>1, <3>2 DEF IInv, Free
      <4>2. /\ th[u].ref \in Containers \cup {Nil}
            /\ th[u].job \in {"create", "from"} => th[u].ref \in Containers
        BY DEF IInv, TypeOK, ThreadRec, Shape
      <4> QED BY <1>3, <4>1, <4>2 DEF Serves
    <3> QED BY <3>1, <3>2
  <2>6. OneServes' BY <1>0, <2>1 DEF IInv, OneServes, Free
  <2>7. Restoring' /\ LazyMounted' /\ Named'
    BY <1>0, <1>1, <1>3 DEF IInv, Restoring, LazyMounted, Named, TypeOK
  <2>8. UsedIsReferenced'
    BY <1>0, <1>2, <1>3, <1>5 DEF IInv, UsedIsReferenced
  <2>9. UsedExists' BY <1>2, <1>3, <1>5 DEF IInv, UsedExists
  <2>10. Accounted'
    <3>1. SUFFICES ASSUME Tidy, NEW n \in Names, NEW x \in refs[n]
                   PROVE  \/ x \notin lazy' /\ mount'[x] # Nil /\ mount'[x].name = n
                          \/ \E u \in Threads : Accounts(u, x, n)'
      BY <1>0 DEF Accounted, Tidy
    <3>2. \/ x \notin lazy /\ mount[x] # Nil /\ mount[x].name = n
          \/ \E u \in Threads : Accounts(u, x, n)
      BY <3>1 DEF IInv, Accounted
    <3>3. ASSUME NEW u \in Threads, Accounts(u, x, n) PROVE Accounts(u, x, n)'
      <4>1. u # t BY <2>1, <3>3 DEF Accounts, HasVolume
      <4> QED BY <2>1, <3>3, <4>1 DEF Accounts, HasVolume
    <3>4. x \in Containers BY <1>1 DEF TypeOK
    <3>5. CASE x = c /\ mount[c].name = n
      BY <2>1, <3>5 DEF Accounts
    <3>6. CASE x # c BY <1>3, <3>2, <3>3, <3>4, <3>6
    <3> QED BY <3>2, <3>3, <3>5, <3>6
  <2> QED BY <2>1, <2>2, <2>3, <2>4, <2>5, <2>6, <2>7, <2>8, <2>9, <2>10 DEF IInv
<1>6. CASE c \in lazy
  <2>1. th' = th BY <1>6 DEF ContainerRemove
  <2>2. TypeOK' BY <1>0, <1>1, <1>3, <2>1 DEF TypeOK
  <2>3. \A u \in Threads : Shape(th[u])' /\ Knows(th[u])'
    <3>1. SUFFICES ASSUME NEW u \in Threads PROVE Shape(th[u])' /\ Knows(th[u])'
      OBVIOUS
    <3>2. Shape(th[u]) /\ Knows(th[u]) /\ th'[u] = th[u] BY <2>1 DEF IInv
    <3>3. Shape(th[u])' BY <1>2, <3>2 DEF Shape
    <3>4. Knows(th[u])' BY <1>0, <1>2, <3>2 DEF Knows, HasVolume
    <3> QED BY <3>3, <3>4
  <2>4. \A u \in Threads : Serves(th[u])'
    <3>1. SUFFICES ASSUME NEW u \in Threads PROVE Serves(th[u])'
      OBVIOUS
    <3>2. Serves(th[u]) /\ th[u].ref # c BY <1>0 DEF IInv, Free
    <3>3. /\ th[u].ref \in Containers \cup {Nil}
          /\ th[u].job \in {"create", "from"} => th[u].ref \in Containers
      BY DEF IInv, TypeOK, ThreadRec, Shape
    <3> QED BY <1>3, <2>1, <3>2, <3>3 DEF Serves
  <2>5. Locked' /\ OneServes' BY <2>1 DEF IInv, Locked, OneServes
  <2>6. Restoring' /\ LazyMounted' /\ Named'
    BY <1>0, <1>1, <1>3 DEF IInv, Restoring, LazyMounted, Named, TypeOK
  <2>7. UsedIsReferenced'
    BY <1>0, <1>2, <1>3 DEF IInv, UsedIsReferenced
  <2>8. UsedExists' BY <1>2, <1>3 DEF IInv, UsedExists
  <2>9. Accounted'
    <3>1. SUFFICES ASSUME Tidy, NEW n \in Names, NEW x \in refs[n]
                   PROVE  \/ x \notin lazy' /\ mount'[x] # Nil /\ mount'[x].name = n
                          \/ \E u \in Threads : Accounts(u, x, n)'
      BY <1>0 DEF Accounted, Tidy
    <3>2. \/ x \notin lazy /\ mount[x] # Nil /\ mount[x].name = n
          \/ \E u \in Threads : Accounts(u, x, n)
      BY <3>1 DEF IInv, Accounted
    <3>3. x \in Containers BY <1>1 DEF TypeOK
    <3> QED BY <1>3, <1>6, <2>1, <3>2, <3>3 DEF Accounts, HasVolume
  <2> QED BY <2>2, <2>3, <2>4, <2>5, <2>6, <2>7, <2>8, <2>9 DEF IInv
<1> QED BY <1>5, <1>6

\* A container gets a copy of a mount point, without its volume.
LEMMA CopyStep ==
    ASSUME IInv, NEW c \in Containers, NEW f \in Containers,
           Free(c), mount[c] = Nil, mount[f] # Nil, restoring = {},
           mount' = [mount EXCEPT ![c] = mount[f]], lazy' = lazy \cup {c},
           UNCHANGED <<owner, storeVars, has, restoring, th, setup>>
    PROVE  IInv'
<1>0. names' = names /\ refs' = refs /\ th' = th /\ restoring' = {} BY DEF storeVars
<1>1. TypeOK BY DEF IInv
<1>2. NoVolumeRm' <=> NoVolumeRm BY DEF NoVolumeRm
<1>3. /\ mount' \in [Containers -> Volumes \cup {Nil}] /\ mount'[c] # Nil
      /\ \A x \in Containers \ {c} : mount'[x] = mount[x]
  BY <1>1 DEF TypeOK
<1>4. TypeOK' BY <1>0, <1>1, <1>3 DEF TypeOK
<1>5. \A u \in Threads : Shape(th[u])' /\ Knows(th[u])'
  <2>1. SUFFICES ASSUME NEW u \in Threads PROVE Shape(th[u])' /\ Knows(th[u])'
    OBVIOUS
  <2>2. Shape(th[u]) /\ Knows(th[u]) /\ th'[u] = th[u] BY <1>0 DEF IInv
  <2>3. Shape(th[u])' BY <1>2, <2>2 DEF Shape
  <2>4. Knows(th[u])' BY <1>0, <1>2, <2>2 DEF Knows, HasVolume
  <2> QED BY <2>3, <2>4
<1>6. \A u \in Threads : Serves(th[u])'
  <2>1. SUFFICES ASSUME NEW u \in Threads PROVE Serves(th[u])'
    OBVIOUS
  <2>2. Serves(th[u]) /\ th[u].ref # c BY DEF IInv, Free
  <2>3. /\ th[u].ref \in Containers \cup {Nil}
        /\ th[u].job \in {"create", "from"} => th[u].ref \in Containers
    BY DEF IInv, TypeOK, ThreadRec, Shape
  <2> QED BY <1>0, <1>3, <2>2, <2>3 DEF Serves
<1>7. Locked' /\ OneServes' BY <1>0 DEF IInv, Locked, OneServes
<1>8. Restoring' /\ LazyMounted' /\ Named'
  BY <1>0, <1>1, <1>3 DEF IInv, Restoring, LazyMounted, Named, TypeOK
<1>9. UsedIsReferenced' BY <1>0, <1>2, <1>3 DEF IInv, UsedIsReferenced
<1>10. UsedExists' BY <1>2, <1>3 DEF IInv, UsedExists
<1>11. Accounted'
  <2>1. SUFFICES ASSUME Tidy, NEW n \in Names, NEW x \in refs[n]
                 PROVE  \/ x \notin lazy' /\ mount'[x] # Nil /\ mount'[x].name = n
                        \/ \E u \in Threads : Accounts(u, x, n)'
    BY <1>0 DEF Accounted, Tidy
  <2>2. \/ x \notin lazy /\ mount[x] # Nil /\ mount[x].name = n
        \/ \E u \in Threads : Accounts(u, x, n)
    BY <2>1 DEF IInv, Accounted
  <2>3. x \in Containers BY <1>1 DEF TypeOK
  <2>4. CASE \E u \in Threads : Accounts(u, x, n)
    BY <1>0, <2>4 DEF Accounts, HasVolume
  <2>5. CASE x \notin lazy /\ mount[x] # Nil /\ mount[x].name = n
    <3>1. x # c BY <2>5
    <3> QED BY <1>3, <2>3, <2>5, <3>1
  <2> QED BY <2>2, <2>4, <2>5
<1> QED BY <1>4, <1>5, <1>6, <1>7, <1>8, <1>9, <1>10, <1>11 DEF IInv

LEMMA BeginStep ==
    ASSUME IInv, NEW t \in Threads, Begin(t)
    PROVE  IInv'
<1>0. UNCHANGED <<owner, storeVars, has, restoring, setup>> BY DEF Begin
<1>1. TypeOK BY DEF IInv
<1>2. ASSUME NEW n \in Names, NEW d \in DriverOrNil, NEW c \in Containers,
             ContainerCreate(t, c, n, d), UNCHANGED <<mount, lazy>>
      PROVE  IInv'
  BY <1>0, <1>2, CallStep, VolumeAssumption DEF ContainerCreate, StoreOps, Jobs, mountVars
<1>3. ASSUME NEW n \in Names, NEW d \in DriverOrNil,
             VolumeCreate(t, n, d), UNCHANGED <<mount, lazy>>
      PROVE  IInv'
  BY <1>0, <1>3, CallStep DEF VolumeCreate, StoreOps, Jobs, mountVars
<1>4. ASSUME NEW c \in Containers, NEW f \in Containers,
             ContainerVolumesFrom(t, c, f)
      PROVE  IInv'
  <2>1. mount[f].name \in Names /\ mount[f].driver \in Drivers
    BY <1>1, <1>4 DEF TypeOK, Volumes, ContainerVolumesFrom
  <2>2. CASE UNCHANGED th
    <3>1. Free(c) /\ mount[c] = Nil /\ mount[f] # Nil /\ MayBegin(t)
      BY <1>4 DEF ContainerVolumesFrom
    <3>2. th'[t].pc = "idle" BY <2>2, <3>1 DEF MayBegin
    <3>3. ~Call(t, "GetWithRef", "from", mount[f].name, mount[f].driver, c)
      BY <1>1, <3>2 DEF Call, TypeOK
    <3>4. mount' = [mount EXCEPT ![c] = mount[f]] /\ lazy' = lazy \cup {c}
      BY <1>4, <3>3 DEF ContainerVolumesFrom
    <3> QED BY <1>0, <2>2, <3>1, <3>4, CopyStep DEF MayBegin
  <2>3. CASE /\ Call(t, "GetWithRef", "from", mount[f].name, mount[f].driver, c)
             /\ UNCHANGED <<mount, lazy>>
    BY <1>0, <1>4, <2>1, <2>3, CallStep, VolumeAssumption
       DEF ContainerVolumesFrom, StoreOps, Jobs, mountVars, DriverOrNil
  <2> QED BY <1>4, <2>2, <2>3 DEF ContainerVolumesFrom
<1>5. ASSUME NEW c \in Containers, ContainerStart(t, c), UNCHANGED <<mount, lazy>>
      PROVE  IInv'
  <2>1. mount[c] # Nil BY <1>5 DEF IInv, LazyMounted, ContainerStart
  <2>2. mount[c].name \in Names /\ mount[c].driver \in Drivers
    BY <1>1, <2>1 DEF TypeOK, Volumes
  <2> QED BY <1>0, <1>5, <2>2, CallStep, VolumeAssumption
          DEF ContainerStart, StoreOps, Jobs, mountVars, DriverOrNil
<1>6. ASSUME NEW c \in Containers, ContainerRemove(t, c)
      PROVE  IInv'
  BY <1>0, <1>6, ContainerRemoveStep
<1>7. Nil \in DriverOrNil /\ Local \in DriverOrNil BY VolumeAssumption DEF DriverOrNil
<1>8. ASSUME NEW n \in Names, VolumeInspect(t, n), UNCHANGED <<mount, lazy>>
      PROVE  IInv'
  BY <1>0, <1>7, <1>8, CallStep DEF VolumeInspect, StoreOps, Jobs, mountVars
<1>9. ASSUME NEW n \in Names, VolumeRm(t, n), UNCHANGED <<mount, lazy>>
      PROVE  IInv'
  <2>1. ~NoVolumeRm BY <1>9 DEF VolumeRm, NoVolumeRm
  <2>2. CASE Call(t, "Get", "rm", n, Nil, Nil)
    BY <1>0, <1>7, <1>9, <2>1, <2>2, CallStep DEF VolumeRm, StoreOps, Jobs, mountVars
  <2>3. CASE Call(t, "Get", "rm -f", n, Nil, Nil)
    BY <1>0, <1>7, <1>9, <2>1, <2>3, CallStep DEF VolumeRm, StoreOps, Jobs, mountVars
  <2> QED BY <1>9, <2>2, <2>3 DEF VolumeRm
<1>10. ASSUME NEW n \in Names, VolumesPrune(t, n), UNCHANGED <<mount, lazy>>
       PROVE  IInv'
  BY <1>0, <1>7, <1>10, CallStep DEF VolumesPrune, StoreOps, Jobs, mountVars
<1> QED BY <1>2, <1>3, <1>4, <1>5, <1>6, <1>8, <1>9, <1>10 DEF Begin

LEMMA Idles ==
    ASSUME NEW t \in Threads, th'[t] = IdleThread
    PROVE  /\ th'[t].pc = "idle" /\ th'[t].ref = Nil /\ IdleThread \in ThreadRec
           /\ Shape(th[t])' /\ Knows(th[t])' /\ Serves(th[t])'
<1>1. Nil \notin Jobs /\ Nil \notin StoreOps BY VolumeAssumption
<1>2. /\ th'[t].pc = "idle" /\ th'[t].do = Nil /\ th'[t].job = Nil /\ th'[t].ref = Nil
      /\ th'[t].ok = FALSE
  BY DEF IdleThread
<1>3. IdleThread \in ThreadRec BY DEF IdleThread, ThreadRec, PCs, DriverOrNil
<1>4. /\ th'[t].job \notin {"create", "from", "rm", "rm -f", "delete"}
      /\ th'[t].do # "GetWithRef" /\ th'[t].do # "Dereference"
  BY <1>1, <1>2 DEF Jobs, StoreOps
<1>5. Shape(th[t])' BY <1>2, <1>4 DEF Shape
<1>6. Knows(th[t])' BY <1>2 DEF Knows, HasVolume
<1>7. Serves(th[t])' BY <1>4 DEF Serves
<1> QED BY <1>2, <1>3, <1>5, <1>6, <1>7

\* The container that t works for has its volume now.
LEMMA MountStep ==
    ASSUME IInv, NEW t \in Threads, HasVolume(th[t]), Unlock(t),
           mount' = [mount EXCEPT ![th[t].ref] = Volume(th[t].driver, th[t].name)],
           lazy' = lazy \ {th[t].ref}
    PROVE  IInv'
<1> DEFINE me == th[t]
<1>1. TypeOK /\ me \in ThreadRec /\ Shape(me) /\ Knows(me) /\ Serves(me) BY DEF IInv, TypeOK
<1>2. /\ me.pc = "unlock" /\ me.ok = TRUE /\ me.job \in {"create", "from"}
      /\ me.ref \in Containers /\ me.name \in Names /\ me.driver \in Drivers
  BY <1>1, VolumeAssumption DEF HasVolume, Shape, Jobs, ThreadRec
<1>3. ~AsksRefs(me) /\ ~Removes(me) /\ ~PurgesAgain(me)
  BY <1>2 DEF AsksRefs, Removes, PurgesAgain
<1>4. /\ th' = [th EXCEPT ![t] = IdleThread] /\ owner' = [owner EXCEPT ![me.name] = Nil]
      /\ mount' = [mount EXCEPT ![me.ref] = Volume(me.driver, me.name)]
      /\ lazy' = lazy \ {me.ref}
      /\ names' = names /\ refs' = refs /\ has' = has /\ restoring' = restoring /\ setup' = setup
  BY <1>2, <1>3 DEF Unlock, storeVars
<1>5. /\ th'[t] = IdleThread /\ \A u \in Threads \ {t} : th'[u] = th[u]
      /\ mount'[me.ref] = Volume(me.driver, me.name)
      /\ \A x \in Containers \ {me.ref} : mount'[x] = mount[x]
  BY <1>1, <1>2, <1>4 DEF TypeOK
<1>6. Volume(me.driver, me.name) \in Volumes /\ Volume(me.driver, me.name).name = me.name
  BY <1>2 DEF Volume, Volumes
<1>7. Volume(me.driver, me.name) # Nil BY <1>6, VolumeAssumption
<1>8. restoring = {} BY <1>2 DEF IInv, Restoring
<1>9. NoVolumeRm' <=> NoVolumeRm BY <1>4 DEF NoVolumeRm
<1>10. /\ IdleThread \in ThreadRec /\ th'[t].pc = "idle" /\ th'[t].ref = Nil
       /\ Shape(th[t])' /\ Knows(th[t])' /\ Serves(th[t])'
  BY <1>5, Idles
<1> HIDE DEF me
<1>11. TypeOK'
  <2>1. mount' \in [Containers -> Volumes \cup {Nil}]
    BY <1>1, <1>2, <1>4, <1>6 DEF TypeOK
  <2>2. th' \in [Threads -> ThreadRec] /\ owner' \in [Names -> Threads \cup {Nil}]
    BY <1>1, <1>2, <1>4, <1>10 DEF TypeOK
  <2>3. lazy' \subseteq Containers /\ restoring' \subseteq lazy'
    BY <1>1, <1>4, <1>8 DEF TypeOK
  <2> QED BY <1>1, <1>4, <2>1, <2>2, <2>3 DEF TypeOK
<1>12. \A u \in Threads : Shape(th[u])'
  <2>2. ASSUME NEW u \in Threads \ {t} PROVE Shape(th[u])'
    <3>1. th'[u] = th[u] /\ Shape(th[u]) BY <1>5, <2>2 DEF IInv
    <3> QED BY <1>9, <3>1 DEF Shape
  <2> QED BY <1>10, <2>2
<1>13. \A u \in Threads : Knows(th[u])'
  <2>2. ASSUME NEW u \in Threads \ {t} PROVE Knows(th[u])'
    <3>1. th'[u] = th[u] /\ Knows(th[u]) BY <1>5, <2>2 DEF IInv
    <3> QED BY <1>4, <1>9, <3>1 DEF Knows, HasVolume
  <2> QED BY <1>10, <2>2
<1>14. me.ref # Nil BY <1>2, VolumeAssumption
<1>15. \A u \in Threads : Serves(th[u])'
  <2>2. ASSUME NEW u \in Threads \ {t} PROVE Serves(th[u])'
    <3>1. th'[u] = th[u] /\ Serves(th[u]) BY <1>5, <2>2 DEF IInv
    <3>2. th[u].ref # me.ref BY <1>14 DEF IInv, OneServes, me
    <3>3. /\ th[u].ref \in Containers \cup {Nil}
          /\ th[u].job \in {"create", "from"} => th[u].ref \in Containers
      BY DEF IInv, TypeOK, ThreadRec, Shape
    <3> QED BY <1>4, <1>5, <3>1, <3>2, <3>3 DEF Serves
  <2> QED BY <1>10, <2>2
<1>16. Locked'
  <2>1. SUFFICES ASSUME NEW n \in Names, NEW u \in Threads
                 PROVE  owner'[n] = u <=> th'[u].name = n /\ th'[u].pc \in Critical
    BY DEF Locked
  <2>2. owner[n] = u <=> th[u].name = n /\ th[u].pc \in Critical BY DEF IInv, Locked
  <2>3. owner[me.name] = t BY <1>2 DEF IInv, Locked, Critical, me
  <2>4. u # Nil BY VolumeAssumption
  <2>5. CASE u = t
    BY <1>1, <1>2, <1>4, <1>5, <2>2, <2>4, <2>5 DEF TypeOK, IdleThread, Critical, me
  <2>6. CASE u # t
    BY <1>1, <1>2, <1>4, <1>5, <2>2, <2>3, <2>4, <2>6 DEF TypeOK
  <2> QED BY <2>5, <2>6
<1>17. OneServes' BY <1>5 DEF IInv, OneServes, IdleThread
<1>18. Restoring' BY <1>4, <1>8 DEF Restoring
<1>19. LazyMounted' BY <1>1, <1>4, <1>5 DEF IInv, LazyMounted, TypeOK
<1>20. Named' BY <1>4 DEF IInv, Named
<1>21. UsedIsReferenced'
  <2>1. NoVolumeRm => me.ref \in refs[me.name] BY <1>1 DEF Knows, me
  <2> QED BY <1>4, <1>5, <1>6, <1>9, <2>1 DEF IInv, UsedIsReferenced
<1>22. UsedExists'
  <2>1. "external" \notin setup => Volume(me.driver, me.name) \in has BY <1>1 DEF Knows, me
  <2> QED BY <1>4, <1>5, <1>6, <1>9, <2>1 DEF IInv, UsedExists
<1>23. Accounted'
  <2>1. SUFFICES ASSUME Tidy, NEW n \in Names, NEW x \in refs[n]
                 PROVE  \/ x \notin lazy' /\ mount'[x] # Nil /\ mount'[x].name = n
                        \/ \E u \in Threads : Accounts(u, x, n)'
    BY <1>4 DEF Accounted, Tidy
  <2>2. \/ x \notin lazy /\ mount[x] # Nil /\ mount[x].name = n
        \/ \E u \in Threads : Accounts(u, x, n)
    BY <2>1 DEF IInv, Accounted
  <2>3. x \in Containers BY <1>1 DEF TypeOK
  <2>4. CASE x \notin lazy /\ mount[x] # Nil /\ mount[x].name = n
    <3>1. x # me.ref BY <1>1, <1>2, <2>1, <2>4 DEF Serves, Tidy, me
    <3> QED BY <1>4, <1>5, <2>3, <2>4, <3>1
  <2>5. ASSUME NEW u \in Threads \ {t}, Accounts(u, x, n) PROVE Accounts(u, x, n)'
    BY <1>5, <2>5 DEF Accounts, HasVolume
  <2>6. CASE Accounts(t, x, n)
    <3>1. x = me.ref /\ n = me.name BY <2>6 DEF Accounts, me
    <3> QED BY <1>4, <1>5, <1>6, <1>7, <3>1
  <2> QED BY <2>2, <2>4, <2>5, <2>6
<1> QED BY <1>11, <1>12, <1>13, <1>15, <1>16, <1>17, <1>18, <1>19, <1>20, <1>21, <1>22, <1>23
    DEF IInv

LEMMA UnlockStep ==
    ASSUME IInv, NEW t \in Threads, Unlock(t)
    PROVE  IInv'
<1>0. th[t].pc = "unlock" /\ UNCHANGED <<storeVars, has, restoring, setup>> BY DEF Unlock
<1>1. TypeOK /\ th[t] \in ThreadRec /\ Shape(th[t]) /\ Serves(th[t]) BY DEF IInv, TypeOK
<1>2. SUFFICES ASSUME UNCHANGED <<mount, lazy>>, Tidy => ~HasVolume(th[t]) PROVE IInv'
  <2>1. \/ /\ HasVolume(th[t])
           /\ mount' = [mount EXCEPT ![th[t].ref] = Volume(th[t].driver, th[t].name)]
           /\ lazy' = lazy \ {th[t].ref}
        \/ UNCHANGED <<mount, lazy>> /\ (Tidy => ~HasVolume(th[t]))
    BY <1>0 DEF Unlock, HasVolume, Tidy
  <2> QED BY <1>2, <2>1, MountStep
<1>3. UNCHANGED mountVars BY <1>0, <1>2 DEF mountVars
<1>4. th[t].name \in Names /\ th[t].job # Nil BY <1>0, <1>1 DEF Shape, ThreadRec
<1>5. owner' = [owner EXCEPT ![th[t].name] = Nil] BY DEF Unlock
<1>6. Tidy => \A n \in Names : \A c \in refs[n] : ~Accounts(t, c, n)
  BY <1>0, <1>2 DEF Accounts
<1>7. NoVolumeRm' <=> NoVolumeRm BY <1>0 DEF NoVolumeRm
<1>8. SUFFICES /\ th'[t] \in ThreadRec /\ th' = [th EXCEPT ![t] = th'[t]]
               /\ th'[t].pc \in {"next", "rmPurge", "idle"} /\ th'[t].ref = Nil
               /\ Shape(th[t])' /\ Serves(th[t])'
  <2>1. \A u \in Threads \ {t} : th'[u] = th[u] BY <1>1, <1>8 DEF TypeOK
  <2>2. Locked'
    <3>1. SUFFICES ASSUME NEW n \in Names, NEW u \in Threads
                   PROVE  owner'[n] = u <=> th'[u].name = n /\ th'[u].pc \in Critical
      BY DEF Locked
    <3>2. owner[n] = u <=> th[u].name = n /\ th[u].pc \in Critical BY DEF IInv, Locked
    <3>3. owner[th[t].name] = t BY <1>0, <1>4 DEF IInv, Locked, Critical
    <3>4. u # Nil BY VolumeAssumption
    <3>5. CASE u = t
      BY <1>1, <1>4, <1>5, <1>8, <3>2, <3>4, <3>5 DEF TypeOK, Critical
    <3>6. CASE u # t
      BY <1>1, <1>4, <1>5, <2>1, <3>2, <3>3, <3>4, <3>6 DEF TypeOK
    <3> QED BY <3>5, <3>6
  <2>3. Knows(th[t])' BY <1>8 DEF Knows, HasVolume
  <2>4. restoring = {} BY <1>0 DEF IInv, Restoring
  <2>5. owner' \in [Names -> Threads \cup {Nil}] BY <1>1, <1>5 DEF TypeOK
  <2> QED BY <1>0, <1>3, <1>6, <1>8, <2>2, <2>3, <2>4, <2>5, QuietStep
<1>9. ASSUME NEW do \in {"Refs", "Remove"}, Continue(t, do),
             th[t].job \in {"prune", "delete", "rm", "rm -f"}, do = "Refs" => th[t].job = "prune"
      PROVE  /\ th'[t] \in ThreadRec /\ th' = [th EXCEPT ![t] = th'[t]]
             /\ th'[t].pc \in {"next", "rmPurge", "idle"} /\ th'[t].ref = Nil
             /\ Shape(th[t])' /\ Serves(th[t])'
  <2>1. PICK d \in DriverOrNil :
          th' = [th EXCEPT ![t] = [th[t] EXCEPT !.pc = "next", !.do = do, !.ref = Nil,
                                                !.ok = FALSE, !.driver = d]]
    <3>1. (IF th[t].job = "prune" THEN Local ELSE th[t].driver) \in DriverOrNil
      BY <1>1, VolumeAssumption DEF ThreadRec, DriverOrNil
    <3> QED BY <1>1, <1>9, <3>1 DEF Continue, TypeOK
  <2>2. /\ th'[t] \in ThreadRec /\ th'[t].pc = "next" /\ th'[t].do = do /\ th'[t].ref = Nil
        /\ th'[t].ok = FALSE /\ th'[t].job = th[t].job /\ th'[t].name = th[t].name
        /\ th' = [th EXCEPT ![t] = th'[t]]
    BY <1>1, <2>1 DEF TypeOK, ThreadRec, PCs, StoreOps
  <2>3. Shape(th[t])' BY <1>1, <1>4, <1>7, <1>9, <2>2 DEF Shape, StoreOps
  <2>4. Serves(th[t])' BY <1>9, <2>2 DEF Serves
  <2> QED BY <2>2, <2>3, <2>4
<1>10. CASE AsksRefs(th[t]) /\ Continue(t, "Refs")
  BY <1>9, <1>10 DEF AsksRefs
<1>11. CASE Removes(th[t]) /\ Continue(t, "Remove")
  BY <1>9, <1>11 DEF Removes
<1>12. CASE PurgesAgain(th[t]) /\ GoOn(t, "rmPurge")
  <2>1. Moves(t) /\ th'[t].pc = "rmPurge" /\ th'[t].driver = th[t].driver /\ th'[t].ok = th[t].ok
    BY <1>1, <1>12, GoOnMoves DEF PCs
  <2>2. th[t].job \in {"rm", "rm -f"} BY <1>12 DEF PurgesAgain
  <2>3. th[t].ref = Nil BY <1>1, <2>2 DEF Shape
  <2>4. Shape(th[t])' BY <1>0, <1>1, <1>4, <1>7, <2>1, <2>2, <2>3 DEF Shape, Moves
  <2>5. Serves(th[t])' BY <2>1, <2>2 DEF Serves, Moves
  <2> QED BY <2>1, <2>3, <2>4, <2>5 DEF Moves
<1>13. CASE th' = [th EXCEPT ![t] = IdleThread]
  <2>1. th'[t] = IdleThread BY <1>1, <1>13 DEF TypeOK
  <2> QED BY <1>13, <2>1, Idles
<1> QED BY <1>10, <1>11, <1>12, <1>13 DEF Unlock

LEMMA VolumeRmPurgeStep ==
    ASSUME IInv, NEW t \in Threads, VolumeRmPurge(t)
    PROVE  IInv'
<1>0. /\ th[t].pc = "rmPurge" /\ th' = [th EXCEPT ![t] = IdleThread]
      /\ UNCHANGED <<owner, has, mountVars, setup>>
  BY DEF VolumeRmPurge
<1>1. TypeOK /\ th[t] \in ThreadRec /\ Shape(th[t]) BY DEF IInv, TypeOK
<1>2. ~NoVolumeRm' /\ ~NoVolumeRm /\ th[t].name \in Names /\ th[t].job # Nil
  <2>1. th[t].job # Nil BY <1>0, <1>1 DEF Shape
  <2> QED BY <1>0, <1>1, <2>1 DEF Shape, NoVolumeRm
<1>3. /\ names' \in [Names -> DriverOrNil] /\ refs' \in [Names -> SUBSET Containers]
      /\ names'[th[t].name] = Nil /\ refs'[th[t].name] = {}
      /\ \A n \in Names \ {th[t].name} : names'[n] = names[n] /\ refs'[n] = refs[n]
  BY <1>1, <1>2 DEF VolumeRmPurge, Purge, TypeOK, DriverOrNil
<1>4. th'[t] = IdleThread /\ \A u \in Threads \ {t} : th'[u] = th[u] BY <1>0, <1>1 DEF TypeOK
<1>5. /\ IdleThread \in ThreadRec /\ th'[t].pc = "idle" /\ th'[t].ref = Nil
      /\ Shape(th[t])' /\ Knows(th[t])' /\ Serves(th[t])'
  BY <1>4, Idles
<1>6. TypeOK' BY <1>0, <1>1, <1>3, <1>5 DEF TypeOK, mountVars
<1>7. \A u \in Threads : Shape(th[u])' /\ Knows(th[u])' /\ Serves(th[u])'
  <2>1. ASSUME NEW u \in Threads \ {t} PROVE Shape(th[u])' /\ Knows(th[u])' /\ Serves(th[u])'
    <3>1. th'[u] = th[u] /\ Shape(th[u]) /\ Knows(th[u]) /\ Serves(th[u]) /\ th[u] \in ThreadRec
      BY <1>1, <1>4, <2>1 DEF IInv, TypeOK
    <3>2. Shape(th[u])' BY <1>2, <3>1 DEF Shape
    <3>3. th[u].pc \in Critical => th[u].name \in Names
      BY <3>1 DEF Shape, Critical, ThreadRec
    <3>4. Knows(th[u])'
      BY <1>0, <1>2, <1>3, <3>1, <3>3 DEF Knows, HasVolume, Critical
    <3>5. Serves(th[u])' BY <1>0, <3>1 DEF Serves, mountVars
    <3> QED BY <3>2, <3>4, <3>5
  <2> QED BY <1>5, <2>1
<1>8. Locked' BY <1>0, <1>4, <1>5 DEF IInv, Locked, Critical
<1>9. OneServes' BY <1>4, <1>5 DEF IInv, OneServes
<1>10. Restoring' /\ LazyMounted' BY <1>0, <1>4, <1>5 DEF IInv, Restoring, LazyMounted, mountVars
<1>11. Named' BY <1>3 DEF IInv, Named
<1>12. UsedIsReferenced' /\ UsedExists' BY <1>2 DEF UsedIsReferenced, UsedExists
<1>13. Accounted'
  <2>1. SUFFICES ASSUME Tidy, NEW n \in Names, NEW x \in refs'[n]
                 PROVE  \/ x \notin lazy /\ mount[x] # Nil /\ mount[x].name = n
                        \/ \E u \in Threads : Accounts(u, x, n)'
    BY <1>0 DEF Accounted, Tidy, mountVars
  <2>2. x \in refs[n] BY <1>3
  <2>3. \/ x \notin lazy /\ mount[x] # Nil /\ mount[x].name = n
        \/ \E u \in Threads : Accounts(u, x, n)
    BY <2>1, <2>2 DEF IInv, Accounted
  <2>4. ~Accounts(t, x, n) BY <1>0 DEF Accounts, HasVolume
  <2>5. \A u \in Threads \ {t} : Accounts(u, x, n) => Accounts(u, x, n)'
    BY <1>4 DEF Accounts, HasVolume
  <2> QED BY <2>3, <2>4, <2>5
<1> QED BY <1>6, <1>7, <1>8, <1>9, <1>10, <1>11, <1>12, <1>13 DEF IInv

----------------------------------------------------------------------------
(* The environment                                                         *)

LEMMA ExternalStep ==
    ASSUME IInv, External
    PROVE  IInv'
<1>0. /\ "external" \in setup /\ "external" \in setup' /\ has' \subseteq Volumes
      /\ owner' = owner /\ names' = names /\ refs' = refs /\ th' = th /\ setup' = setup
      /\ mount' = mount /\ lazy' = lazy /\ restoring' = restoring
  BY DEF External, IInv, TypeOK, storeVars, mountVars
<1>1. NoVolumeRm' <=> NoVolumeRm BY <1>0 DEF NoVolumeRm
<1>2. TypeOK' BY <1>0 DEF IInv, TypeOK
<1>3. \A u \in Threads : Shape(th[u])' /\ Knows(th[u])' /\ Serves(th[u])'
  <2>1. SUFFICES ASSUME NEW u \in Threads
                 PROVE  Shape(th[u])' /\ Knows(th[u])' /\ Serves(th[u])'
    OBVIOUS
  <2>2. th'[u] = th[u] /\ Shape(th[u]) /\ Knows(th[u]) /\ Serves(th[u]) BY <1>0 DEF IInv
  <2>3. Shape(th[u])' BY <1>1, <2>2 DEF Shape
  <2>4. Knows(th[u])' BY <1>0, <1>1, <2>2 DEF Knows, HasVolume
  <2>5. Serves(th[u])' BY <1>0, <2>2 DEF Serves
  <2> QED BY <2>3, <2>4, <2>5
<1>4. Locked' /\ OneServes' /\ Restoring' /\ LazyMounted' /\ Named'
  BY <1>0 DEF IInv, Locked, OneServes, Restoring, LazyMounted, Named
<1>5. UsedIsReferenced' /\ UsedExists'
  BY <1>0, <1>1 DEF IInv, UsedIsReferenced, UsedExists
<1>6. Accounted' BY <1>0 DEF IInv, Accounted, Accounts, HasVolume, Tidy
<1> QED BY <1>2, <1>3, <1>4, <1>5, <1>6 DEF IInv

LEMMA RestartStep ==
    ASSUME IInv, Restart
    PROVE  IInv'
<1>0. /\ owner' = [n \in Names |-> Nil]
      /\ names' = [n \in Names |-> Nil] /\ refs' = [n \in Names |-> {}]
      /\ lazy' = {c \in Containers : mount[c] # Nil} /\ restoring' = lazy'
      /\ th' = [t \in Threads |-> IdleThread]
      /\ has' = has /\ mount' = mount /\ setup' = setup
  BY DEF Restart
<1>1. \A u \in Threads : th'[u] = IdleThread BY <1>0
<1>2. \A u \in Threads : /\ th'[u].pc = "idle" /\ th'[u].ref = Nil /\ IdleThread \in ThreadRec
                         /\ Shape(th[u])' /\ Knows(th[u])' /\ Serves(th[u])'
  BY <1>1, Idles
<1>3. TypeOK' BY <1>0, <1>2 DEF IInv, TypeOK, DriverOrNil
<1>4. Locked'
  <2>1. SUFFICES ASSUME NEW n \in Names, NEW u \in Threads
                 PROVE  owner'[n] # u /\ th'[u].pc \notin Critical
    BY DEF Locked
  <2> QED BY <1>0, <1>2, VolumeAssumption DEF Critical
<1>5. OneServes' /\ Restoring' /\ LazyMounted' /\ Named'
  BY <1>0, <1>2 DEF OneServes, Restoring, LazyMounted, Named
<1>6. UsedIsReferenced' /\ UsedExists' BY <1>0 DEF UsedIsReferenced, UsedExists
<1>7. Accounted' BY <1>0 DEF Accounted
<1> QED BY <1>2, <1>3, <1>4, <1>5, <1>6, <1>7 DEF IInv

LEMMA PrepareMountPointsStep ==
    ASSUME IInv, NEW c \in Containers, PrepareMountPoints(c)
    PROVE  IInv'
<1> DEFINE v == mount[c]
<1>0. /\ c \in restoring /\ restoring' = restoring \ {c}
      /\ owner' = owner /\ has' = has /\ mount' = mount /\ th' = th /\ setup' = setup
  BY DEF PrepareMountPoints
<1>1. TypeOK BY DEF IInv
<1>2. \A u \in Threads : th[u].pc = "idle" BY <1>0 DEF IInv, Restoring
<1>3. c \in lazy /\ v # Nil /\ v \in Volumes /\ v.name \in Names /\ v.driver \in Drivers
  BY <1>0, <1>1 DEF IInv, TypeOK, LazyMounted, Volumes
<1>4. NoVolumeRm' <=> NoVolumeRm BY <1>0 DEF NoVolumeRm
<1>5. \/ /\ v \in has /\ lazy' = lazy \ {c}
         /\ names' = [names EXCEPT ![v.name] = v.driver]
         /\ refs' = [refs EXCEPT ![v.name] = @ \cup ({c} \ {Nil})]
      \/ names' = names /\ refs' = refs /\ lazy' = lazy
  BY DEF PrepareMountPoints, SetNamed, storeVars
<1> HIDE DEF v
<1>6. /\ names' \in [Names -> DriverOrNil] /\ refs' \in [Names -> SUBSET Containers]
      /\ \A n \in Names : refs[n] \subseteq refs'[n] /\ (names[n] # Nil => names'[n] # Nil)
      /\ \A n \in Names : \A x \in refs'[n] : x \in refs[n] \/ (x = c /\ n = v.name /\ lazy' = lazy \ {c}
                                                             /\ names'[n] # Nil)
  <2>1. v.driver # Nil /\ c # Nil BY <1>3, VolumeAssumption
  <2> QED BY <1>1, <1>3, <1>5, <2>1 DEF TypeOK, DriverOrNil
<1>7. TypeOK' BY <1>0, <1>1, <1>5, <1>6 DEF TypeOK
<1>8. \A u \in Threads : Shape(th[u])' /\ Knows(th[u])' /\ Serves(th[u])'
  <2>1. SUFFICES ASSUME NEW u \in Threads
                 PROVE  Shape(th[u])' /\ Knows(th[u])' /\ Serves(th[u])'
    OBVIOUS
  <2>2. th'[u] = th[u] /\ Shape(th[u]) /\ th[u].pc = "idle" BY <1>0, <1>2 DEF IInv
  <2>3. Shape(th[u])' BY <1>4, <2>2 DEF Shape
  <2>4. Knows(th[u])' BY <2>2 DEF Knows, HasVolume
  <2>5. th[u].job \notin {"create", "from", "delete"}
    BY <2>2, VolumeAssumption DEF Shape, Jobs
  <2>6. Serves(th[u])' BY <2>2, <2>5 DEF Serves
  <2> QED BY <2>3, <2>4, <2>6
<1>9. Locked' /\ OneServes' /\ Restoring' /\ LazyMounted'
  BY <1>0, <1>2, <1>5 DEF IInv, Locked, OneServes, Restoring, LazyMounted
<1>10. Named' BY <1>6 DEF IInv, Named
<1>11. UsedIsReferenced'
  <2>1. SUFFICES ASSUME NoVolumeRm, NEW x \in Containers \ lazy', mount[x] # Nil
                 PROVE  x \in refs'[mount[x].name]
    BY <1>0, <1>4 DEF UsedIsReferenced
  <2>2. mount[x].name \in Names BY <1>1, <2>1 DEF TypeOK, Volumes
  <2>3. CASE x \notin lazy
    BY <1>6, <2>1, <2>2, <2>3 DEF IInv, UsedIsReferenced
  <2>4. CASE x \in lazy
    <3>1. x = c /\ refs' = [refs EXCEPT ![v.name] = @ \cup ({c} \ {Nil})] BY <1>5, <2>1, <2>4
    <3>2. x # Nil BY VolumeAssumption
    <3> QED BY <1>1, <1>3, <3>1, <3>2 DEF TypeOK, v
  <2> QED BY <2>3, <2>4
<1>12. UsedExists'
  BY <1>0, <1>4, <1>5 DEF IInv, UsedExists, v
<1>13. Accounted'
  <2>1. SUFFICES ASSUME Tidy, NEW n \in Names, NEW x \in refs'[n]
                 PROVE  x \notin lazy' /\ mount[x] # Nil /\ mount[x].name = n
    BY <1>0 DEF Accounted, Tidy
  <2>2. CASE x \in refs[n]
    <3>1. \/ x \notin lazy /\ mount[x] # Nil /\ mount[x].name = n
          \/ \E u \in Threads : Accounts(u, x, n)
      BY <2>1, <2>2 DEF IInv, Accounted
    <3>2. \A u \in Threads : ~Accounts(u, x, n) BY <1>2 DEF Accounts, HasVolume
    <3> QED BY <1>5, <3>1, <3>2
  <2>3. CASE x \notin refs[n]
    <3>1. x = c /\ n = v.name /\ lazy' = lazy \ {c} BY <1>6, <2>3
    <3> QED BY <1>3, <3>1 DEF v
  <2> QED BY <2>2, <2>3
<1> QED BY <1>7, <1>8, <1>9, <1>10, <1>11, <1>12, <1>13 DEF IInv

----------------------------------------------------------------------------
(* The theorems                                                            *)

LEMMA InitInv == Init => IInv
<1> SUFFICES ASSUME Init PROVE IInv
  OBVIOUS
<1>1. \A t \in Threads : th[t] = IdleThread BY DEF Init
<1>2. Nil \notin Jobs /\ Nil \notin StoreOps BY VolumeAssumption
<1>3. \A t \in Threads : Shape(th[t]) /\ Knows(th[t]) /\ Serves(th[t])
  <2>1. SUFFICES ASSUME NEW t \in Threads PROVE Shape(th[t]) /\ Knows(th[t]) /\ Serves(th[t])
    OBVIOUS
  <2>2. /\ th[t].pc = "idle" /\ th[t].do = Nil /\ th[t].job = Nil /\ th[t].ref = Nil
        /\ th[t].ok = FALSE
    BY <1>1 DEF IdleThread
  <2>3. /\ th[t].job \notin {"create", "from", "rm", "rm -f", "delete"}
        /\ th[t].do # "GetWithRef" /\ th[t].do # "Dereference"
    BY <1>2, <2>2 DEF Jobs, StoreOps
  <2>4. Shape(th[t]) BY <2>2, <2>3 DEF Shape
  <2>5. Knows(th[t]) BY <2>2 DEF Knows, HasVolume
  <2>6. Serves(th[t]) BY <2>3 DEF Serves
  <2> QED BY <2>4, <2>5, <2>6
<1>4. IdleThread \in ThreadRec BY DEF IdleThread, ThreadRec, PCs, DriverOrNil
<1>5. TypeOK BY <1>4, VolumeAssumption DEF Init, TypeOK, DriverOrNil
<1>6. Locked
  <2>1. SUFFICES ASSUME NEW n \in Names, NEW u \in Threads
                 PROVE  owner[n] # u /\ th[u].pc \notin Critical
    BY DEF Locked
  <2> QED BY <1>1, VolumeAssumption DEF Init, Critical, IdleThread
<1>7. OneServes /\ Restoring /\ LazyMounted /\ Named
  BY <1>1 DEF Init, OneServes, Restoring, LazyMounted, Named, IdleThread
<1>8. UsedIsReferenced /\ UsedExists BY DEF Init, UsedIsReferenced, UsedExists
<1>9. Accounted BY DEF Init, Accounted
<1> QED BY <1>3, <1>5, <1>6, <1>7, <1>8, <1>9 DEF IInv

LEMMA NextInv == IInv /\ [Next]_vars => IInv'
<1> SUFFICES ASSUME IInv, [Next]_vars PROVE IInv'
  OBVIOUS
<1>1. ASSUME NEW t \in Threads, StoreStep(t) PROVE IInv'
  BY <1>1, LockStep, CheckConflictStep, PurgeStaleStep, FindVolumeStep, MakeVolumeStep,
     ResetRefsStep, GetVolumeStep, StoreVolumeStep, RemoveCheckStep, RemoveDropStep,
     RemovePurgeStep, DereferenceStep, RefsStep, UnlockStep, NextCallStep, VolumeRmPurgeStep
     DEF StoreStep
<1>2. ASSUME NEW t \in Threads, Begin(t) PROVE IInv' BY <1>2, BeginStep
<1>3. CASE External BY <1>3, ExternalStep
<1>4. CASE Restart BY <1>4, RestartStep
<1>5. ASSUME NEW c \in Containers, PrepareMountPoints(c) PROVE IInv'
  BY <1>5, PrepareMountPointsStep
<1>6. CASE UNCHANGED vars
  <2>1. /\ owner' = owner /\ names' = names /\ refs' = refs /\ th' = th /\ setup' = setup
        /\ mount' = mount /\ lazy' = lazy /\ restoring' = restoring /\ has' = has
    BY <1>6 DEF vars, storeVars, mountVars
  <2>2. NoVolumeRm' <=> NoVolumeRm BY <2>1 DEF NoVolumeRm
  <2>3. TypeOK' BY <2>1 DEF IInv, TypeOK
  <2>4. ASSUME NEW u \in Threads PROVE Shape(th[u])'
    <3>1. Shape(th[u]) /\ th'[u] = th[u] BY <2>1 DEF IInv
    <3> QED BY <2>2, <3>1 DEF Shape
  <2>5. ASSUME NEW u \in Threads PROVE Knows(th[u])'
    <3>1. Knows(th[u]) BY DEF IInv
    <3> QED BY <2>1, <2>2, <3>1 DEF Knows, HasVolume
  <2>6. \A u \in Threads : Serves(th[u])' BY <2>1 DEF IInv, Serves
  <2>7. Locked' /\ OneServes' /\ Restoring' /\ LazyMounted' /\ Named'
    BY <2>1 DEF IInv, Locked, OneServes, Restoring, LazyMounted, Named
  <2>8. UsedIsReferenced' /\ UsedExists'
    BY <2>1, <2>2 DEF IInv, UsedIsReferenced, UsedExists
  <2>9. Accounted' BY <2>1 DEF IInv, Accounted, Accounts, HasVolume, Tidy
  <2> QED BY <2>3, <2>4, <2>5, <2>6, <2>7, <2>8, <2>9 DEF IInv
<1> QED BY <1>1, <1>2, <1>3, <1>4, <1>5, <1>6 DEF Next

\* The inductive invariant holds in every reachable state: every operation of the
\* store and of the daemon, a driver's changes and a restart preserve it.
THEOREM VolumeInvariant == Spec => []IInv
BY InitInv, NextInv, PTL DEF Spec

\* setNamed has recorded every container whose mount point has its volume, however
\* creates, starts, removes and prunes interleave: store.go does not lose the
\* reference of a volume that is used.
THEOREM UsedVolumesAreReferenced == Spec => []UsedIsReferenced
<1>1. IInv => UsedIsReferenced BY DEF IInv
<1> QED BY <1>1, VolumeInvariant, PTL

\* Remove of store.go never lets a driver remove the volume of a mount point.
THEOREM UsedVolumesExist == Spec => []UsedExists
<1>1. IInv => UsedExists BY DEF IInv
<1> QED BY <1>1, VolumeInvariant, PTL

\* The reference that Dereference or a failed create leaves behind belongs to a
\* container that has the mount point or is being created or removed.
THEOREM ReferencesAreUsed == Spec => []RefsAreUsed
<1>1. IInv => RefsAreUsed
  BY DEF IInv, Accounted, Accounts, RefsAreUsed, NoReferenceLeft, Tidy
<1> QED BY <1>1, VolumeInvariant, PTL

\* store.go's Remove asks a driver to remove a volume only while the store has no
\* reference to its name, whatever docker volume rm, creates and starts do between
\* its check of the references and the call of the driver.
THEOREM ReferencedVolumesStay == Spec => ReferencedNotRemoved
<1>1. IInv /\ [Next]_vars =>
        [\A v \in has \ has' :
            v.driver = Local \/ "external" \notin setup => refs[v.name] = {}]_vars
  <2> SUFFICES ASSUME IInv, [Next]_vars, NEW v \in has \ has',
                      v.driver = Local \/ "external" \notin setup
               PROVE  refs[v.name] = {}
    OBVIOUS
  <2>1. CASE \E t \in Threads : RemoveDrop(t)
    <3>1. PICK t \in Threads : RemoveDrop(t) BY <2>1
    <3>2. th[t].pc = "drop" /\ v = Volume(th[t].driver, th[t].name)
      BY <3>1 DEF RemoveDrop
    <3>3. Knows(th[t]) BY DEF IInv
    <3> QED BY <3>2, <3>3 DEF Knows, Volume
  <2>2. CASE External
    <3>1. "external" \in setup BY <2>2 DEF External
    <3>2. v.driver # Local BY <2>2 DEF External
    <3> QED BY <3>1, <3>2
  <2>3. ASSUME NEW t \in Threads, MakeVolume(t) PROVE has \subseteq has'
    BY <2>3 DEF MakeVolume
  <2>4. ASSUME NEW t \in Threads, StoreStep(t), ~RemoveDrop(t), ~MakeVolume(t)
        PROVE  has' = has
    BY <2>4 DEF StoreStep, Lock, CheckConflict, PurgeStale, FindVolume, ResetRefs,
       GetVolume, StoreVolume, RemoveCheck, RemovePurge, Dereference, Refs, Unlock,
       NextCall, VolumeRmPurge
  <2>5. CASE UNCHANGED vars BY <2>5 DEF vars
  <2>6. ASSUME NEW t \in Threads, Begin(t) PROVE has' = has BY <2>6 DEF Begin
  <2>7. CASE Restart BY <2>7 DEF Restart
  <2>8. ASSUME NEW c \in Containers, PrepareMountPoints(c) PROVE has' = has
    BY <2>8 DEF PrepareMountPoints
  <2> QED BY <2>1, <2>2, <2>3, <2>4, <2>5, <2>6, <2>7, <2>8 DEF Next
<1> QED BY <1>1, VolumeInvariant, PTL DEF Spec, ReferencedNotRemoved
=============================================================================
