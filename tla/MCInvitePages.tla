--------------------------- MODULE MCInvitePages ----------------------------
(***************************************************************************)
(* Instances of InvitePages for TLC.                                       *)
(***************************************************************************)
EXTENDS InvitePages
=============================================================================
