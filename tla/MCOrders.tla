------------------------------- MODULE MCOrders -------------------------------
(***************************************************************************)
(* Small instances of OrderLifecycle for TLC.                              *)
(***************************************************************************)
EXTENDS OrderProperties, TLC

CONSTANTS shirt, cod, online, s1, s2

\* Both requests are for the same listing.
MCListingOf == [o \in Orders |-> shirt]

\* The buyers all pay the courier.
AllCash == [o \in Orders |-> "CASH_ON_DELIVERY"]

\* The cod request pays the courier, any other pays through PayFast.
MCMethodOf == [o \in Orders |-> IF o = cod THEN "CASH_ON_DELIVERY" ELSE "PAYFAST_HOSTED"]

OneUnit == [l \in Listings |-> 1]
TwoUnits == [l \in Listings |-> 2]

\* No parcel is booked.
NoReports == {}

\* A parcel on its way: the buyer confirms that it arrived.
DoorReports == { "BOOKED", "PICKED_UP", "IN_TRANSIT" }

\* A parcel that arrives, is lost, or comes back.
AllReports == { "BOOKED", "PICKED_UP", "IN_TRANSIT", "DELIVERED", "RETURNING", "RETURNED", "LOST" }

SessionSymmetry == Permutations(Sessions)
=============================================================================
