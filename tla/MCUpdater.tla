------------------------------- MODULE MCUpdater -------------------------------
EXTENDS Updater, TLC
Symmetry == Permutations(Helpers)
================================================================================
