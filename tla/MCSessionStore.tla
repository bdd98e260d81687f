---------------------------- MODULE MCSessionStore ----------------------------
(* SessionStore for TLC: the flushers are interchangeable.                 *)
EXTENDS SessionStore, TLC
Symmetry == Permutations(Flusher)
=============================================================================
