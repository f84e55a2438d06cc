--------------------------- MODULE ReferenceStore ---------------------------
(***************************************************************************)
(* reference/store.go: the daemon's table of tags and digests.  Every      *)
(* operation holds the store's mutex, so it is one step.  The table is     *)
(* kept twice in memory, by reference and by image, and once in            *)
(* repositories.json.  A write of the file may fail (ok = FALSE), which    *)
(* the caller is told; memory keeps the change.                            *)
(*                                                                         *)
(* Every caller of AddTag and AddDigest passes force = true.               *)
(***************************************************************************)
EXTENDS ImageIDs

CONSTANTS
    Refs,         \* references: repository with a tag or a digest
    NameOf,       \* the repository of a reference
    Canonical     \* the references by digest

ASSUME ReferenceAssumption ==
    /\ None \notin Images \cup Refs
    /\ Canonical \subseteq Refs
    /\ DOMAIN NameOf = Refs

VARIABLES
    repositories,         \* image of a reference, or None
    referencesByIDCache,  \* references of an image
    jsonFile              \* repositories.json
refVars == <<repositories, referencesByIDCache, jsonFile>>

RefsTypeOK ==
    /\ repositories \in [Refs -> Images \cup {None}]
    /\ referencesByIDCache \in [Images -> SUBSET Refs]
    /\ jsonFile \in [Refs -> Images \cup {None}]

\* The references of every image in a table
Index(table) == [id \in Images |-> {r \in Refs : table[r] = id}]

InitRefs(table) ==
    /\ repositories = table
    /\ referencesByIDCache = Index(table)
    /\ jsonFile = table

References(id) == referencesByIDCache[id]

save(ok) == jsonFile' = IF ok THEN repositories' ELSE jsonFile

\* Mutant of Forgotten: the entry of the old image is left in the cache
ForgottenNever(ref) == referencesByIDCache

\* The cache without a reference's current entry
Forgotten(ref) ==
    IF repositories[ref] = None THEN referencesByIDCache
    ELSE [referencesByIDCache EXCEPT ![repositories[ref]] = @ \ {ref}]

\* addReference refuses to overwrite a digest.
Refused(ref) == repositories[ref] # None /\ ref \in Canonical

addReference(ref, id, ok) ==
    /\ repositories' = [repositories EXCEPT ![ref] = id]
    /\ referencesByIDCache' = [Forgotten(ref) EXCEPT ![id] = @ \cup {ref}]
    /\ save(ok)

\* Mutant of DeleteRef: the file is left for the next change to write
DeleteRefUnsaved(ref, ok) ==
    /\ repositories' = [repositories EXCEPT ![ref] = None]
    /\ referencesByIDCache' = Forgotten(ref)
    /\ save(FALSE)

\* Delete of a reference that exists
DeleteRef(ref, ok) ==
    /\ repositories' = [repositories EXCEPT ![ref] = None]
    /\ referencesByIDCache' = Forgotten(ref)
    /\ save(ok)

\* A new daemon reads the file.
reload ==
    /\ repositories' = jsonFile
    /\ referencesByIDCache' = Index(jsonFile)
    /\ UNCHANGED jsonFile

\* Both indexes in memory say the same, through overwritten tags, failed
\* saves and restarts: ImageDelete decides by one and tags by the other.
IndexesAgree ==
    \A id \in Images, r \in Refs :
        r \in referencesByIDCache[id] <=> repositories[r] = id
=============================================================================
