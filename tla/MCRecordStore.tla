---------------------------- MODULE MCRecordStore ----------------------------
(* RecordStore on a small instance.                                     *)
EXTENDS RecordStore, TLC

Symmetry == Permutations(Account)
=============================================================================
