SPECIFICATION FairSpec
CONSTANTS
    t1 = t1
    t2 = t2
    t3 = t3
    n1 = n1
    n2 = n2
    o1 = o1
    o2 = o2
    o3 = o3
    Threads = {t1, t2, t3}
    Names = {n1, n2}
    Objects = {o1, o2, o3}
    Nil = Nil
PROPERTIES IsNamedMutex Progress
