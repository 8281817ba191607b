------------------------------ MODULE MCUndoRedo ------------------------------
EXTENDS UndoRedo, TLC

symmetry == Permutations(Resources)
===============================================================================
