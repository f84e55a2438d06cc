------------------------------ MODULE MCLocker ------------------------------
EXTENDS Locker
CONSTANTS t1, t2, t3, n1, n2, o1, o2, o3
=============================================================================
