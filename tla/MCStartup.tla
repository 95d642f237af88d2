----------------------------- MODULE MCStartup -----------------------------
(* Small instances of Startup: the model values of its sets.                *)
EXTENDS Startup

CONSTANTS p1, p2, c1, m1, m2, id1, id2
=============================================================================
