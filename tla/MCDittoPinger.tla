--------------------------- MODULE MCDittoPinger ---------------------------
(* DittoPinger for TLC.                                                    *)
EXTENDS DittoPinger, TLC

Perms == Permutations(Families)
=============================================================================
