--------------------------- MODULE MCRfidTermination ---------------------------
(***************************************************************************)
(* RfidTermination for DFSA and for the Q algorithm, each an instance of   *)
(* its own; algorithm never changes.                                       *)
(***************************************************************************)
EXTENDS Naturals

CONSTANTS Tags, Broadcast, NoTag

VARIABLES algorithm, rd, tag, down, up, sessions, lost, late, answered, disturbed

vars == <<algorithm, rd, tag, down, up, sessions, lost, late, answered, disturbed>>

Dfsa == INSTANCE RfidTermination WITH
          Service <- "EDFSA", Mechanisms <- {0}, EstMethods <- {0, 2},
          InitialQ <- 2, InitialQfp <- 40, C <- 3, Unit <- 10, MaxQ <- 15, WrapQ <- 4,
          EstConstant <- 3, Multiplier <- 67, InitialFrame <- 3, Backlog <- 2,
          MaxRatio <- 3, MaxSessions <- 1, Overlap <- FALSE, MaxLost <- 1, MaxLate <- 1

Q == INSTANCE RfidTermination WITH
       Service <- "STANDARD", Mechanisms <- {0, 1}, EstMethods <- {1},
       InitialQ <- 2, InitialQfp <- 20, C <- 3, Unit <- 10, MaxQ <- 3, WrapQ <- 4,
       EstConstant <- 3, Multiplier <- 67, InitialFrame <- 3, Backlog <- 2,
       MaxRatio <- 3, MaxSessions <- 1, Overlap <- FALSE, MaxLost <- 1, MaxLate <- 0

\* A step of the instance that algorithm names
Of(dfsa, q) ==
  /\ UNCHANGED algorithm
  /\ \/ algorithm = "DFSA" /\ dfsa
     \/ algorithm = "Q" /\ q

Init ==
  \/ algorithm = "DFSA" /\ Dfsa!Init
  \/ algorithm = "Q" /\ Q!Init

\* The fairness of RfidTermination, for the algorithm at hand
FairSpec ==
  /\ Init /\ [][Of(Dfsa!Next, Q!Next)]_vars
  /\ WF_vars(Of(Dfsa!RsTimeout, Q!RsTimeout))
  /\ WF_vars(Of(Dfsa!ColTimeout, Q!ColTimeout))
  /\ \A t \in Tags :
       /\ WF_vars(Of(Dfsa!TagReceives(t), Q!TagReceives(t)))
       /\ WF_vars(Of(Dfsa!ReaderReceives(t), Q!ReaderReceives(t)))
       /\ SF_vars(Of(Dfsa!LuckyDraw(t), Q!LuckyDraw(t)))

(***************************************************************************)
(* A reader that takes an inventory comes to its end: the loops of         *)
(* start_sing(), start_edfsa() and calculate_next_Q(), in which a frame    *)
(* with a collision is followed by another frame, are left.                *)
(***************************************************************************)
Terminates == Dfsa!Running ~> ~Dfsa!Running
===============================================================================
