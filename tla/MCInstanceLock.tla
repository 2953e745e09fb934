--------------------------- MODULE MCInstanceLock ---------------------------
EXTENDS InstanceLock, TLC

\* Processes differ in nothing but their identity.
Symmetry == Permutations(Processes)
=============================================================================
