------------------------------- MODULE RfidTag --------------------------------
(***************************************************************************)
(* Agent/RfidTag: what a passive tag does with a reader's packet.  A tag   *)
(* never starts communication, so RfidTagAgent::recv is all its behaviour. *)
(* Each service of recv is the set of outcomes it can have, because the    *)
(* slot a tag draws is random; an outcome is the tag's new state and the   *)
(* command of the packet it sends back, "NONE" when it stays silent.       *)
(*                                                                         *)
(* memory_ is not a field: recv stores hdr->qValue_ in it just before      *)
(* updateSlot() or updateSlot2() reads it, and nothing else does.          *)
(***************************************************************************)
EXTENDS RfidPacket

TagRecords ==
  [state : TagStates, slot : Int, memory2 : Int, served : BOOLEAN]

Outcomes == [tag : TagRecords, reply : TagCommands \cup {"NONE"}]

\* RfidTagAgent(): served says that id_, the last reader obeyed, is this one.
TagInit == [state |-> "T_READY", slot |-> 0, memory2 |-> -1, served |-> FALSE]

Acknowledged(tg) == tg.state = "T_ACKNOWLEDGED"

(***************************************************************************)
(* updateSlot(): trunc of a float drawn from (0, 2^Q - 1).  The top slot   *)
(* 2^Q - 1 comes from rounding the draw to a float.  For Q <= 0 the        *)
(* interval lies in (-1, 0], which truncates to slot 0.                    *)
(***************************************************************************)
DrawSlot(q) == IF q <= 0 THEN {0} ELSE 0 .. (2^q - 1)

\* updateSlot2(): a float drawn between 1 and Q, rounded to the nearest int.
DrawSlot2(q) == IF q >= 1 THEN 1 .. q ELSE q .. 1

Silent(tg) == [tag |-> tg, reply |-> "NONE"]

\* The tag holds slot s: it answers with cmd when s is the slot polled now.
Poll(tg, s, polled, cmd) ==
  IF s = polled
    THEN [tag |-> [tg EXCEPT !.slot = s, !.state = "T_REPLY"], reply |-> cmd]
    ELSE Silent([tg EXCEPT !.slot = s, !.state = "T_ARBITRATE"])

-------------------------------------------------------------------------------
(***************************************************************************)
(* SERVICE_STANDARD, the Q algorithm: slot 0 answers at once.              *)
(***************************************************************************)
Redraws(tg, hdr) ==
  \/ /\ hdr.command = "RC_QUERY"
     /\ ~Acknowledged(tg) \/ hdr.mechanism = 0 \/ ~tg.served
  \/ hdr.command = "RC_QUERYADJUST" /\ ~Acknowledged(tg)

RecvStandard(t, tg, hdr) ==
  LET obeying == [tg EXCEPT !.served = TRUE]
  IN IF Redraws(tg, hdr)
       THEN {Poll(obeying, s, 0, hdr.command) : s \in DrawSlot(hdr.qValue)}
     ELSE IF hdr.command = "RC_QUERYREPLY" /\ hdr.tagEPC = t
       THEN {[tag |-> [obeying EXCEPT !.state = "T_ACKNOWLEDGED", !.slot = @ - 1],
              reply |-> "TC_REPLY"]}
     ELSE IF /\ hdr.command = "RC_QUERYREPLY"
             /\ hdr.tagEPC = Broadcast
             /\ tg.slot > 0
       THEN {IF Acknowledged(tg) THEN Silent(obeying)
                                 ELSE Poll(obeying, tg.slot - 1, 0, hdr.command)}
     ELSE {Silent(tg)}

(***************************************************************************)
(* SERVICE_EBTSA, the estimation: a query makes even an acknowledged tag   *)
(* draw again.                                                             *)
(***************************************************************************)
RecvEbtsa(tg, hdr) ==
  IF hdr.command = "RC_EST"
    THEN {Poll(tg, s, 0, "TR_EST_REPLY") : s \in DrawSlot(hdr.qValue)}
  ELSE IF hdr.command = "RC_EST_FINISH"
    THEN {Silent([tg EXCEPT !.state = "T_READY"])}
  ELSE {Silent(tg)}

(***************************************************************************)
(* SERVICE_EDFSA, framed ALOHA: slots count from 1.  A query with          *)
(* reply_ > 0 opens a sub-frame for the tags that collided in that slot,   *)
(* or that memory2_ says already belong to its sub-frames.                 *)
(***************************************************************************)
Addressed(tg, hdr) ==
  hdr.reply = 0 \/ hdr.reply = tg.slot \/ hdr.reply = tg.memory2

RecvEdfsa(tg, hdr) ==
  IF Acknowledged(tg) THEN {Silent(tg)}
  ELSE IF hdr.command = "RC_QUERY" /\ Addressed(tg, hdr)
    THEN LET joined == IF hdr.reply > 0 THEN [tg EXCEPT !.memory2 = hdr.reply]
                                        ELSE tg
         IN {Poll(joined, s, hdr.slotNumber, "TC_REPLY") :
               s \in DrawSlot2(hdr.qValue)}
  ELSE IF /\ hdr.command = "RC_SING"
          /\ hdr.reply = 0 \/ hdr.reply = tg.memory2
          /\ hdr.slotNumber = tg.slot
    THEN {[tag |-> [tg EXCEPT !.state = "T_REPLY"], reply |-> "TC_REPLY"]}
  ELSE IF hdr.command = "RC_QUERYREPLY"
    THEN {Silent([tg EXCEPT !.state = "T_ACKNOWLEDGED"])}
  ELSE {Silent(tg)}

\* RfidTagAgent::recv, for a packet that came from a reader.
TagRecv(t, tg, hdr) ==
  CASE hdr.service = "STANDARD" -> RecvStandard(t, tg, hdr)
    [] hdr.service = "EBTSA" -> RecvEbtsa(tg, hdr)
    [] hdr.service = "EDFSA" -> RecvEdfsa(tg, hdr)
===============================================================================
