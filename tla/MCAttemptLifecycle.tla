------------------------- MODULE MCAttemptLifecycle -------------------------
EXTENDS AttemptLifecycle, TLC

Symmetry == Permutations(Executors) \union Permutations(Verifiers)
=============================================================================
