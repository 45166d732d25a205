------------------------------ MODULE MCLinkLayer ------------------------------
(***************************************************************************)
(* Small instances of LinkLayer for TLC: RFID traffic with a reception     *)
(* that fails; two senders and nothing that fails; and a sender beside a   *)
(* routing protocol, with drop_front_, a failed reception and a reset.     *)
(***************************************************************************)
EXTENDS LinkLayer

Bound(b, others) == [n \in Nodes |-> IF n = Reader THEN b ELSE others]

AllSetups ==
  {[rfid |-> TRUE, limit |-> 3, drop_front |-> FALSE, requests |-> 2,
    sent |-> Bound(3, 2), routing |-> 0, faults |-> 1, resets |-> 0],
   [rfid |-> FALSE, limit |-> 4, drop_front |-> FALSE, requests |-> 2,
    sent |-> Bound(2, 1), routing |-> 0, faults |-> 0, resets |-> 0],
   [rfid |-> FALSE, limit |-> 3, drop_front |-> TRUE, requests |-> 1,
    sent |-> Bound(2, 0), routing |-> 1, faults |-> 1, resets |-> 1]}
================================================================================
