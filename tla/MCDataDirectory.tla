-------------------------- MODULE MCDataDirectory --------------------------
(* Small instances of DataDirectory: the model values of its sets.          *)
EXTENDS DataDirectory

CONSTANTS p1, p2, c1, c2, m1, m2, id1, id2
=============================================================================
