---- MODULE MCWorkspace ----
EXTENDS Workspace, TLC
CONSTANTS u1, u2, p1, p2, p3, w1, w2, w3, w4, t1, t2, t3, s1, s2

MCSize(t) == 2

\* Nothing tells two database sessions apart, nor two texts of one size.
Symmetric == Permutations(Sessions) \cup Permutations(Texts)
====
