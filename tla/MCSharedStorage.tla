---------------------------- MODULE MCSharedStorage ----------------------------
(***************************************************************************)
(* Instances of SharedStorage for TLC.                                     *)
(***************************************************************************)
EXTENDS SharedStorage, TLC

CONSTANTS w1, w2, k1, a, none, missing, corrupt

MCWindows == {w1, w2}
MCKeys == {k1}
MCValues == {a}
=================================================================================
