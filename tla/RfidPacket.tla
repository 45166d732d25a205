------------------------------ MODULE RfidPacket ------------------------------
(***************************************************************************)
(* The header hdr_rfidPacket that readers and tags exchange, and the       *)
(* enumerations that give its fields a meaning.  Fields that only feed the *)
(* trace file (slotCounter_, colCounter_, sucCounter_, idlCounter_,        *)
(* session_, trace_, rng16_) and the deprecated singularization_ are left  *)
(* out; tipo_ is the direction of the link a packet travels on.            *)
(***************************************************************************)
EXTENDS Integers

CONSTANTS
  Tags,        \* the tags, each standing for its tagEPC_ and its address
  Broadcast,   \* IP_BROADCAST
  NoTag        \* the value of a tag field nobody has written yet

ASSUME BroadcastAssumption == Broadcast \notin Tags
ASSUME NoTagAssumption == NoTag \notin Tags /\ NoTag # Broadcast

\* enum SERVICE
Services == {"STANDARD", "EBTSA", "EDFSA"}

\* enum READER_COMMAND: what a reader orders, and what a tag answers with
ReaderCommands ==
  {"RC_QUERY", "RC_QUERYADJUST", "RC_QUERYREPLY", "RC_SING", "RC_EST",
   "RC_EST_FINISH"}
TagCommands ==
  {"RC_QUERY", "RC_QUERYADJUST", "RC_QUERYREPLY", "TC_REPLY", "TR_EST_REPLY"}

\* "NONE" marks the absence of a packet.
Headers ==
  [command : ReaderCommands \cup {"NONE"}, service : Services,
   qValue : Int, tagEPC : Tags \cup {Broadcast, NoTag},
   slotNumber : Int, reply : Int, mechanism : {0, 1}]

Replies == [command : TagCommands, service : Services]

\* enum TAG_STATE, the states the code uses
TagStates == {"T_READY", "T_ARBITRATE", "T_REPLY", "T_ACKNOWLEDGED"}
===============================================================================
