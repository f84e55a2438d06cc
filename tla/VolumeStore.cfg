SPECIFICATION Spec
CONSTANTS
    t1 = t1
    t2 = t2
    n1 = n1
    n2 = n2
    local = local
    plugin = plugin
    c1 = c1
    c2 = c2
    Nil = Nil
    Threads = {t1, t2}
    Names = {n1}
    Drivers = {local, plugin}
    Local = local
    Containers = {c1, c2}
    Setups <- PassSetups
INVARIANTS UsedIsReferenced UsedExists RefsAreUsed
PROPERTIES ReferencedNotRemoved
