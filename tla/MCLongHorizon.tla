---- MODULE MCLongHorizon ----
EXTENDS LongHorizon, TLC
CONSTANTS w1, w2, a1, a2, r1, r2, v1
First == {1}
Second == {2}
Symmetric == Permutations(Workers)
====
