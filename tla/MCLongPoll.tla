----------------------------- MODULE MCLongPoll -----------------------------
(* LongPoll for TLC: pollers and callers are interchangeable.              *)
EXTENDS LongPoll, TLC

Perms == Permutations(Pollers) \cup Permutations(Callers)
=============================================================================
