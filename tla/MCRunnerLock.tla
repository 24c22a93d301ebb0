---------------------------- MODULE MCRunnerLock ----------------------------
(* RunnerLock on a few processes, which are interchangeable.                *)
EXTENDS RunnerLock, TLC

ProcessSymmetry == Permutations(Pid)

=============================================================================
