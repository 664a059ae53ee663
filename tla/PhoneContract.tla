----------------------------- MODULE PhoneContract -----------------------------
(***************************************************************************)
(* What the verification of phones promises about attempts, users and      *)
(* identities.  A user has one pending attempt; what is cancelled, expired *)
(* or refused stays closed, and what the provider approved is never closed *)
(* but only linked.  A phone goes to a user or to an identity only after   *)
(* that user proved it; a user's phone is never replaced, and no other     *)
(* user gets it.                                                           *)
(***************************************************************************)
CONSTANTS
    Users, Phones, Attempts,
    OwnerOf, \* the user of each attempt
    PhoneOf, \* its phone
    NoPhone

VARIABLES
    stage,    \* NONE, PENDING, PROVIDER_VERIFIED, LINKED or CLOSED, of each attempt
    phone,    \* of each user
    identity, \* the confirmed phone of the user's identity
    proven    \* the phones each user entered an approved code for

contractVars == <<stage, phone, identity, proven>>

Claim(a) == <<OwnerOf[a], PhoneOf[a]>>

Init ==
    /\ stage = [a \in Attempts |-> "NONE"]
    /\ phone = [u \in Users |-> NoPhone]
    /\ identity = [u \in Users |-> NoPhone]
    /\ proven = {}

\* A new attempt closes the user's pending ones.
Start(a) ==
    /\ stage[a] = "NONE"
    /\ stage' = [b \in Attempts |->
         IF b = a THEN "PENDING"
         ELSE IF OwnerOf[b] = OwnerOf[a] /\ stage[b] = "PENDING" THEN "CLOSED"
         ELSE stage[b]]
    /\ UNCHANGED <<phone, identity, proven>>

\* Pending attempts, and only these, may be closed.
Close(as) ==
    /\ \A a \in as : stage[a] = "PENDING"
    /\ stage' = [a \in Attempts |-> IF a \in as THEN "CLOSED" ELSE stage[a]]
    /\ UNCHANGED <<phone, identity, proven>>

\* The code is approved; it counts only for an attempt that is still pending.
Prove(a) ==
    /\ stage[a] # "NONE"
    /\ proven' = proven \cup { Claim(a) }
    /\ stage' = [stage EXCEPT ![a] = IF @ = "PENDING" THEN "PROVIDER_VERIFIED" ELSE @]
    /\ UNCHANGED <<phone, identity>>

SetIdentity(a) ==
    /\ Claim(a) \in proven
    /\ identity' = [identity EXCEPT ![OwnerOf[a]] = PhoneOf[a]]
    /\ UNCHANGED <<stage, phone, proven>>

\* The phone was proved, nobody has it, and its user has no other.
Link(a) ==
    /\ stage[a] = "PROVIDER_VERIFIED" /\ Claim(a) \in proven
    /\ phone[OwnerOf[a]] \in { NoPhone, PhoneOf[a] }
    /\ \A v \in Users \ { OwnerOf[a] } : phone[v] # PhoneOf[a]
    /\ phone' = [phone EXCEPT ![OwnerOf[a]] = PhoneOf[a]]
    /\ stage' = [stage EXCEPT ![a] = "LINKED"]
    /\ UNCHANGED <<identity, proven>>

Next ==
    \/ \E a \in Attempts : Start(a) \/ Prove(a) \/ SetIdentity(a) \/ Link(a)
    \/ \E as \in SUBSET Attempts : Close(as)

Spec == Init /\ [][Next]_contractVars
=============================================================================
