----------------------------- MODULE ImageStore -----------------------------
(***************************************************************************)
(* image/store.go over image/fs.go.  In memory the store has the images it *)
(* knows and their children; on disk an image has a configuration and,     *)
(* next to it, the ID of its parent.  The store's mutex (locked) covers    *)
(* Delete, SetParent and the second half of Create; a configuration is     *)
(* written and read without it.                                            *)
(*                                                                         *)
(* An image holds a reference to its top layer.  The layer store is        *)
(* reduced to the layers that exist and the number of references to each:  *)
(* a layer exists until the last reference goes (LayerStore).              *)
(***************************************************************************)
EXTENDS ImageIDs, Naturals, FiniteSets

CONSTANTS
    Chains,    \* chain IDs of layers
    Chain      \* the top layer of an image, None for an image without layers

ASSUME ImageAssumption ==
    /\ None \notin Images \cup Chains
    /\ Chain \in [Images -> Chains \cup {None}]

VARIABLES
    images,     \* keys of the map of known images
    children,   \* imageMeta.children
    content,    \* images whose configuration is on disk
    parent,     \* the "parent" file of an image, None without one
    layers,     \* layers that exist
    layerRefs,  \* references to a layer in the layer store
    locked      \* the store's mutex is held between two steps
imageVars == <<images, children, content, parent, layers, layerRefs, locked>>

ImagesTypeOK ==
    /\ images \subseteq Images /\ content \subseteq Images
    /\ children \in [Images -> SUBSET Images]
    /\ parent \in [Images -> Images \cup {None}]
    /\ layers \subseteq Chains /\ layerRefs \in [Chains -> Nat]
    /\ locked \in BOOLEAN

\* GetMetadata fails without a configuration.
GetParent(id) == IF id \in content THEN parent[id] ELSE None

LayerExists(id) == Chain[id] \in layers \cup {None}

\* One more reference to the layer of an image
Retain(id) ==
    layerRefs' = [ch \in Chains |-> IF ch = Chain[id] THEN layerRefs[ch] + 1
                                    ELSE layerRefs[ch]]

\* One reference less; the last one takes the layer along.
Release(id) ==
    /\ layerRefs' = [ch \in Chains |-> IF ch = Chain[id] THEN layerRefs[ch] - 1
                                       ELSE layerRefs[ch]]
    /\ layers' = {ch \in layers : ch # Chain[id] \/ layerRefs[ch] > 1}

\* Create, first half: fs.Set, before the store's mutex is taken
SetContent(id) ==
    /\ content' = content \cup {id}
    /\ UNCHANGED <<images, children, parent, layers, layerRefs, locked>>

\* Mutant of Insert: the reference of the creator is taken over
InsertUnheld(id) ==
    /\ images' = images \cup {id}
    /\ children' = [children EXCEPT ![id] = {}]
    /\ UNCHANGED <<content, parent, layers, layerRefs, locked>>

\* Create, second half, for an image that is not known and whose layer exists
Insert(id) ==
    /\ images' = images \cup {id}
    /\ children' = [children EXCEPT ![id] = {}]
    /\ Retain(id)
    /\ UNCHANGED <<content, parent, layers, locked>>

\* children without a child that moves from a parent or disappears
ChildRemoved(id) ==
    LET p == GetParent(id)
    IN IF p \in images THEN [children EXCEPT ![p] = @ \ {id}] ELSE children

\* SetParent for a known parent.  The child is entered first; the file is
\* written last, which fails without a configuration or when the disk does.
SetParent(id, p, ok) ==
    /\ children' = [ChildRemoved(id) EXCEPT ![p] = @ \cup {id}]
    /\ parent' = IF id \in content /\ ok THEN [parent EXCEPT ![id] = p] ELSE parent
    /\ UNCHANGED <<images, content, layers, layerRefs, locked>>

\* Mutant of DeleteBegin: the children keep their parent
DeleteBeginAlone(id) ==
    /\ images' = images \ {id}
    /\ children' = [ChildRemoved(id) EXCEPT ![id] = {}]
    /\ locked' = TRUE
    /\ UNCHANGED <<content, parent, layers, layerRefs>>

\* Delete, up to its own files: the children lose their parent.
DeleteBegin(id) ==
    /\ images' = images \ {id}
    /\ children' = [ChildRemoved(id) EXCEPT ![id] = {}]
    /\ parent' = [i \in Images |-> IF i \in children[id] THEN None ELSE parent[i]]
    /\ locked' = TRUE
    /\ UNCHANGED <<content, layers, layerRefs>>

\* Mutant of DeleteFiles: the configuration stays
DeleteMetadataOnly(id, metadataGone, contentGone) ==
    /\ parent' = [parent EXCEPT ![id] = None]
    /\ UNCHANGED <<images, children, content, layers, layerRefs, locked>>

\* Delete, fs.Delete: the metadata goes, then the configuration.  Either
\* may fail, and nobody looks at the error.
DeleteFiles(id, metadataGone, contentGone) ==
    /\ parent' = IF metadataGone THEN [parent EXCEPT ![id] = None] ELSE parent
    /\ content' = IF metadataGone /\ contentGone THEN content \ {id} ELSE content
    /\ UNCHANGED <<images, children, layers, layerRefs, locked>>

\* Delete, the end: the layer is released and the mutex unlocked.
DeleteEnd(id) ==
    /\ Release(id)
    /\ locked' = FALSE
    /\ UNCHANGED <<images, children, content, parent>>

\* A new daemon enters every image on disk and retains its layer; more[ch] are
\* the references of others.
restore(more) ==
    /\ images' = content
    /\ children' = [p \in Images |-> {id \in content : p \in content /\ parent[id] = p}]
    /\ layerRefs' = [ch \in Chains |->
                        more[ch] + Cardinality({id \in content : Chain[id] = ch})]
    /\ locked' = FALSE
    /\ UNCHANGED <<content, parent, layers>>

\* restore fails, and with it the start of the daemon, when an image on disk
\* has no layer.
Restorable == \A id \in content : LayerExists(id)
=============================================================================
