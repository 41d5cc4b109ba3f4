--------------------------- MODULE MCSessionStore ---------------------------
(* SessionStore for model checking: sessions and sweeps are interchangeable. *)
EXTENDS SessionStore, TLC

Symmetry == Permutations(Sessions) \cup Permutations(Sweepers)
=============================================================================
