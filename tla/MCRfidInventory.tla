---------------------------- MODULE MCRfidInventory ----------------------------
(***************************************************************************)
(* Small instances of RfidInventory for TLC.  The tags are interchangeable.*)
(***************************************************************************)
EXTENDS RfidInventory, TLC

TagSymmetry == Permutations(Tags)
================================================================================
