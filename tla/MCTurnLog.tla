----------------------------- MODULE MCTurnLog -----------------------------
(* TurnLog for TLC: the tasks are interchangeable, and so are the          *)
(* sessions, since no step and no property tells two of them apart.        *)
EXTENDS TurnLog, TLC

Symmetry == Permutations(Flusher) \cup Permutations(Session)
=============================================================================
