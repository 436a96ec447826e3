------------------------------ MODULE SFUStatus ------------------------------
(***************************************************************************)
(* What an SFUStatus message of the ISGLB says: the receive routine (module *)
(* ISGLBService) and the senders of the streams (module SFUStatusSender)   *)
(* speak of the same nodes and statuses.                                   *)
(***************************************************************************)
CONSTANTS
  Nids,         \* node ids that SFUStatus messages carry
  Statuses      \* contents of an SFUStatus apart from its nid

=============================================================================
