------------------------------- MODULE MCOutbox -------------------------------
(***************************************************************************)
(* A small instance of NotificationOutbox for TLC.                         *)
(***************************************************************************)
EXTENDS NotificationOutbox

CONSTANTS buyer

MCRecipientOf == [e \in Events |-> buyer]
=============================================================================
