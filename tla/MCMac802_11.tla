------------------------------ MODULE MCMac802_11 ------------------------------
(***************************************************************************)
(* Small instances of Mac802_11 for TLC.                                   *)
(***************************************************************************)
EXTENDS Mac802_11

CONSTANTS a, b, c

Between(S) == {p \in S \X S : p[1] # p[2]}

\* b hears a and c, which do not hear each other.
Chain == Between({a, b}) \cup Between({b, c})

\* The values of ns-default.tcl at 1 Mb/s, except for the contention window
\* and the retry limits.  Sizes 1 and 3 are below and above RTSThreshold.
Base ==
  [links |-> Between({a, b}), captures |-> {}, traffic |-> [n \in Nodes |-> <<>>],
   errors |-> 2, wrap |-> 8, bugFix_timer |-> TRUE, RTSThreshold |-> 2,
   ShortRetryLimit |-> 2, LongRetryLimit |-> 2, CWMin |-> 1, CWMax |-> 3,
   SlotTime |-> 20, SIFS |-> 10, ack_plcp |-> 304,
   propagation |-> 1, MaxPropagation |-> 2,
   rts |-> 352, cts |-> 304, ack |-> 304, data |-> <<400, 600, 800>>]

To(n, s) == [ra |-> n, size |-> s]

Sending(x, y, z) ==
  [n \in Nodes |-> CASE n = a -> x [] n = b -> y [] n = c -> z]

Small(n) == To(n, 1)
Large(n) == To(n, 3)

\* Two nodes send each other packets without RTS; numbers soon wrap.
Pair == [Base EXCEPT !.wrap = 3,
           !.traffic = Sending(<<Small(b), Small(b), Small(b)>>, <<Small(a)>>, <<>>)]

\* The same with the rates of cenarios/sbrc2013: a packet is shorter than
\* its ACK, and a broadcast needs longer than 2^16 us.
SlowAck == [Base EXCEPT !.ack = 12500, !.data = <<10000, 11000, 70000>>,
              !.RTSThreshold = 9,
              !.traffic = Sending(<<Small(b), To(MAC_BROADCAST, 3)>>, <<Small(a)>>, <<>>)]

\* Two nodes send each other packets with RTS.
PairRts == [Base EXCEPT !.errors = 1,
             !.traffic = Sending(<<Large(b), Large(b)>>, <<Large(a)>>, <<>>)]

\* Nodes that do not hear each other send to the third, with RTS and without.
Hidden == [Base EXCEPT !.links = Chain, !.errors = 1,
            !.traffic = Sending(<<Large(b)>>, <<>>, <<Large(b)>>)]
HiddenSmall == [Base EXCEPT !.links = Chain, !.errors = 1,
                  !.traffic = Sending(<<Small(b)>>, <<Small(MAC_BROADCAST)>>, <<Small(b)>>)]
Louder == [Hidden EXCEPT !.captures = {<<b, a, c>>},
             !.traffic = Sending(<<Large(b)>>, <<>>, <<Small(b)>>)]

\* One sender, with as many errors as it takes to give up two packets.
Retry == [Base EXCEPT !.errors = 4,
           !.traffic = Sending(<<Large(b), Large(b)>>, <<>>, <<>>)]

AllSetups == {Pair, SlowAck, PairRts, Hidden, HiddenSmall, Louder, Retry}

\* The node between two others that send to it has a packet of its own.
Middle == [Hidden EXCEPT !.errors = 2,
             !.traffic = Sending(<<Large(b)>>, <<Large(a)>>, <<Large(b)>>)]

MiddleSetup == {Middle}
================================================================================
