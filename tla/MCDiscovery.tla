---- MODULE MCDiscovery ----
EXTENDS Discovery
CONSTANTS p1, p2, t1, t2, s1, s2
====
