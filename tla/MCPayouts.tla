------------------------------ MODULE MCPayouts ------------------------------
(***************************************************************************)
(* A small instance of Payouts for TLC.                                    *)
(***************************************************************************)
EXTENDS Payouts, TLC

CONSTANTS seller

MCSellerOf == [o \in Orders |-> seller]
MCOwnerOf == [p \in Profiles |-> seller]
MCPrice == [o \in Orders |-> 250]

\* Disputes that are settled and taken up again.
ResolveAndReopen == { "RESOLVE", "REOPEN" }

PayoutSymmetry == Permutations(Sessions) \cup Permutations(Batches)
=============================================================================
