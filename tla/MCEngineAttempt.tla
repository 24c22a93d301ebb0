--------------------------- MODULE MCEngineAttempt ---------------------------
EXTENDS EngineAttempt, TLC

(* Attempt ids are random and nothing orders them; so are targets.          *)
Symmetry == Permutations(Attempts) \cup Permutations(Targets)

=============================================================================
