---------------------------- MODULE PayoutContract ----------------------------
(***************************************************************************)
(* What the marketplace promises about the money it pays out.  An order is *)
(* promised once: in one batch, to one cleared destination of its seller,  *)
(* after it was earned; and the promise is never moved or taken back.  The *)
(* orders of a batch are paid together, once, and only under the signature *)
(* of somebody other than the batch's maker.                               *)
(***************************************************************************)
EXTENDS Naturals

CONSTANTS
    Orders, Profiles, Batches,
    Creators, Approvers, \* who may make a batch, and who may sign it
    SellerOf,            \* the seller of each order
    OwnerOf,             \* the seller of each destination
    NoProfile, NoBatch, NoAdmin

VARIABLES
    earned,  \* orders whose money is the seller's to have
    cleared, \* destinations that were held and reviewed
    promise, \* the batch and the destination of each order
    payouts, \* how often each order was paid
    maker,   \* of each batch
    signer   \* of each batch

contractVars == <<earned, cleared, promise, payouts, maker, signer>>

Unpromised == [in |-> NoBatch, to |-> NoProfile]

In(b) == { o \in Orders : promise[o].in = b }

Init ==
    /\ earned = {} /\ cleared = {}
    /\ promise = [o \in Orders |-> Unpromised]
    /\ payouts = [o \in Orders |-> 0]
    /\ maker = [b \in Batches |-> NoAdmin]
    /\ signer = [b \in Batches |-> NoAdmin]

\* Orders are earned and destinations cleared, for good.
Progress ==
    /\ earned \subseteq earned' /\ cleared \subseteq cleared'
    /\ UNCHANGED <<promise, payouts, maker, signer>>

\* A new batch promises some orders their destinations.
Promise(a, b, to) ==
    LET chosen == { o \in Orders : to[o] # NoProfile } IN
    /\ maker[b] = NoAdmin
    /\ \A o \in chosen :
           /\ promise[o] = Unpromised
           /\ o \in earned /\ to[o] \in cleared /\ OwnerOf[to[o]] = SellerOf[o]
    /\ promise' = [o \in Orders |->
                     IF o \in chosen THEN [in |-> b, to |-> to[o]] ELSE promise[o]]
    /\ maker' = [maker EXCEPT ![b] = a]
    /\ UNCHANGED <<earned, cleared, payouts, signer>>

\* Signatures are by another administrator than the maker.  The last counts.
Sign(a, b) ==
    /\ maker[b] \notin { NoAdmin, a }
    /\ signer' = [signer EXCEPT ![b] = a]
    /\ UNCHANGED <<earned, cleared, promise, payouts, maker>>

Pay(b) ==
    /\ signer[b] # NoAdmin
    /\ \A o \in In(b) : payouts[o] = 0
    /\ payouts' = [o \in Orders |-> IF o \in In(b) THEN 1 ELSE payouts[o]]
    /\ UNCHANGED <<earned, cleared, promise, maker, signer>>

Next ==
    \/ Progress
    \/ \E a \in Creators, b \in Batches, to \in [Orders -> Profiles \cup { NoProfile }] :
           Promise(a, b, to)
    \/ \E a \in Approvers, b \in Batches : Sign(a, b)
    \/ \E b \in Batches : Pay(b)

Spec == Init /\ [][Next]_contractVars
=============================================================================
