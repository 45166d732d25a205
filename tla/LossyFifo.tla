------------------------------- MODULE LossyFifo -------------------------------
(***************************************************************************)
(* What RfidInventory assumes of the link, and what the layers below the   *)
(* agents promise: a channel delivers its packets in the order they were   *)
(* sent and none of them twice, but may lose any of them at any time.      *)
(* Packets are numbered as they are sent, so that the oldest of a set of   *)
(* packets is the one with the least number.                               *)
(***************************************************************************)
EXTENDS Naturals

CONSTANT Channels

VARIABLES
  sent,       \* the number of the packet a channel was given last
  transit,    \* the numbers of the packets under way
  got         \* the number of the packet delivered last

vars == <<sent, transit, got>>

Init ==
  /\ sent = [c \in Channels |-> 0]
  /\ transit = [c \in Channels |-> {}]
  /\ got = [c \in Channels |-> 0]

\* Channel c accepts at most one packet, and may lose some.
Accept(c) ==
  /\ sent'[c] >= sent[c]
  /\ transit'[c] \subseteq transit[c] \cup ({sent'[c]} \ {sent[c]})
  /\ got'[c] = got[c]

\* Channel c delivers a packet, after which it delivers none that is older.
Deliver(c) ==
  \E k \in transit[c] :
    /\ got'[c] = k
    /\ transit'[c] \subseteq {j \in transit[c] : j > k}
    /\ sent'[c] = sent[c]

\* A broadcast is a packet on several channels, so a step is one of all.
Next == \A c \in Channels : Accept(c) \/ Deliver(c)

Spec == Init /\ [][Next]_vars
================================================================================
