----------------------------- MODULE MCRfidReaders -----------------------------
(***************************************************************************)
(* Small instances of RfidReaders for TLC.  The tags are interchangeable,  *)
(* and so are the readers.                                                 *)
(***************************************************************************)
EXTENDS RfidReaders, TLC

Symmetry == Permutations(Tags) \cup Permutations(Readers)
================================================================================
