---------------------------- MODULE RfidTermination ----------------------------
(***************************************************************************)
(* Does an inventory end?  The slots are drawn at random, so it ends with  *)
(* probability one rather than always: what is fair is stated here, apart  *)
(* from the model.                                                         *)
(***************************************************************************)
EXTENDS RfidInventory

HoldsQuery(t) ==
  \E i \in 1 .. Len(down[t]) :
    down[t][i].command \in {"RC_QUERY", "RC_QUERYADJUST"}

\* Slots with a real chance to be drawn: updateSlot() reaches its top slot
\* only through the rounding of the draw to a float.
LikelySlot(hdr, s) ==
  hdr.service = "STANDARD" /\ hdr.qValue > 0 => s < 2^hdr.qValue - 1

\* Tag t is the last to draw its slot in a frame, and its draw makes one tag
\* be read: in the Q algorithm one tag alone holds the slot 0 polled now, in
\* DFSA no other tag that is still to be read holds the slot of t.
LuckyDraw(t) ==
  /\ down[t] # <<>>
  /\ Head(down[t]).command \in {"RC_QUERY", "RC_QUERYADJUST"}
  /\ \A u \in Tags \ {t} : ~HoldsQuery(u)
  /\ TagReceives(t)
  /\ LikelySlot(Head(down[t]), tag'[t].slot)
  /\ LET unread == {u \in Tags : ~Acknowledged(tag'[u])}
     IN IF Head(down[t]).service = "STANDARD"
          THEN \E u \in unread : {w \in unread : tag'[w].slot = 0} = {u}
          ELSE \A u \in unread \ {t} : tag'[u].slot # tag'[t].slot

(***************************************************************************)
(* The scheduler of ns-2 dispatches every event it holds: packets arrive   *)
(* and timers expire.  Draws are independent: if time and again a tag may  *)
(* be lucky, it sometimes is.                                              *)
(***************************************************************************)
Fairness ==
  /\ WF_vars(RsTimeout) /\ WF_vars(ColTimeout)
  /\ \A t \in Tags :
       /\ WF_vars(TagReceives(t)) /\ WF_vars(ReaderReceives(t))
       /\ SF_vars(LuckyDraw(t))

FairSpec == Spec /\ Fairness

(***************************************************************************)
(* A reader that takes an inventory comes to its end: the loops of         *)
(* start_sing(), start_edfsa() and calculate_next_Q(), in which a frame    *)
(* with a collision is followed by another frame, are left.                *)
(***************************************************************************)
Terminates == Running ~> ~Running
================================================================================
