SPECIFICATION Spec
CONSTANTS
    t1 = t1
    t2 = t2
    base = base
    middle = middle
    top = top
    m1 = m1
    r1 = r1
    r2 = r2
    r3 = r3
    Nil = Nil
    Absent = Absent
    Threads = {t1, t2}
    Chains = {base, middle, top}
    Parent <- ChainParent
    Names = {m1}
    Refs = {r1, r2, r3}
    MaxDepth = 2
    FaultSets <- Environments
    MaxCrashes = 2
SYMMETRY StoreSymmetry
INVARIANTS NoPanic RefCounts RetainedPresent ReferencedIsDurable MountIsDurable
PROPERTIES ContentKept
