-------------------------- MODULE MCSessionHandler --------------------------
(* SessionHandler for TLC: requests, updates, readers and ackers are each  *)
(* interchangeable.  With it go the assumptions on what requests and       *)
(* answers consist of.                                                     *)
EXTENDS SessionHandler, Rpc

Perms == Permutations(Requests) \cup Permutations(Readers) \cup Permutations(Ackers)
=============================================================================
