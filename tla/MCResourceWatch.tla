--------------------------- MODULE MCResourceWatch ---------------------------
(* Two objects of one kind and a bounded number of changes to them.        *)
EXTENDS ResourceWatch

CONSTANTS k1, k2

MCKeys == {k1, k2}
=============================================================================
