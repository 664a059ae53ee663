-------------------------------- MODULE MCPhone --------------------------------
(***************************************************************************)
(* A small instance of PhoneLinking for TLC: ann may try two phones, bob   *)
(* one of them.                                                            *)
(***************************************************************************)
EXTENDS PhoneLinking

CONSTANTS a1, a2, b1, ann, bob, p1, p2

MCOwnerOf == [a \in Attempts |-> IF a = b1 THEN bob ELSE ann]
MCPhoneOf == [a \in Attempts |-> IF a = a2 THEN p2 ELSE p1]
=============================================================================
