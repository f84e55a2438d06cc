SPECIFICATION Spec
CONSTANTS
    base = base
    other = other
    top = top
    l1 = l1
    l2 = l2
    a1 = a1
    ad = ad
    b1 = b1
    g1 = g1
    g2 = g2
    k1 = k1
    None = None
    Images = {base, other, top}
    Chains = {l1, l2}
    Chain <- ChainOf
    Refs = {a1, ad, b1}
    NameOf <- Names
    Canonical = {ad}
    Threads = {g1, g2}
    Containers = {k1}
    Bases <- BasesOf
    Setups <- ImageSetups
    MaxCalls = 1
    MaxCrashes = 1
INVARIANTS IndexesAgree LayersBalanced ParentsAgree RestartSucceeds NoDanglingReference
CHECK_DEADLOCK FALSE
