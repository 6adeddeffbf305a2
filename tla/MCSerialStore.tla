---------------------------- MODULE MCSerialStore ----------------------------
(***************************************************************************)
(* Small instances of SerialStore.  Clients are interchangeable.           *)
(***************************************************************************)
EXTENDS SerialStore, TLC

Symmetry == Permutations(Client)
=============================================================================
