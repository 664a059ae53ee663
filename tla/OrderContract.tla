---------------------------- MODULE OrderContract ----------------------------
(***************************************************************************)
(* What the marketplace promises about one order, whatever the handlers    *)
(* that serve it interleave: the unit is held from checkout until it is    *)
(* given back or sold, never both; nothing bought with PayFast leaves      *)
(* before PayFast has been paid; the seller is owed the price exactly when *)
(* the unit is sold; money is returned once, and only money that came in;  *)
(* and a unit is put back on the shelf only after its refund.              *)
(***************************************************************************)
EXTENDS TLAPS

CONSTANTS
    Orders,  \* the orders
    Prepaid  \* the orders that are paid through PayFast

VARIABLES
    unit,  \* what became of the unit of each order
    facts  \* what has happened to each order besides

UnitStates == { "FREE", "HELD", "RETURNED", "SOLD" }
Facts == { "CAPTURED", "FUNDED", "DISPATCHED", "OWED", "REFUNDED", "RESTOCKED" }

Becomes(o, state) == unit' = [unit EXCEPT ![o] = state]
Learn(o, new) == facts' = [facts EXCEPT ![o] = @ \cup new]

Init == unit = [o \in Orders |-> "FREE"] /\ facts = [o \in Orders |-> {}]

Hold(o) ==
    /\ unit[o] = "FREE"
    /\ Becomes(o, "HELD") /\ UNCHANGED facts

GiveBack(o) ==
    /\ unit[o] = "HELD" /\ "DISPATCHED" \notin facts[o]
    /\ Becomes(o, "RETURNED") /\ UNCHANGED facts

\* The provider reports the payment: it is captured, and the order funded.
Capture(o) ==
    /\ unit[o] # "FREE"
    /\ Learn(o, { "CAPTURED", "FUNDED" }) /\ UNCHANGED unit

\* A deposit is matched to the order: it is funded.
Deposit(o) ==
    /\ unit[o] # "FREE"
    /\ Learn(o, { "FUNDED" }) /\ UNCHANGED unit

Dispatch(o) ==
    /\ unit[o] = "HELD"
    /\ o \in Prepaid => "CAPTURED" \in facts[o]
    /\ Learn(o, { "DISPATCHED" }) /\ UNCHANGED unit

Sell(o) ==
    /\ unit[o] = "HELD" /\ "DISPATCHED" \in facts[o]
    /\ Becomes(o, "SOLD") /\ Learn(o, { "OWED" })

Refund(o) ==
    /\ "FUNDED" \in facts[o] /\ "REFUNDED" \notin facts[o]
    /\ Learn(o, { "REFUNDED" }) /\ UNCHANGED unit

Restock(o) ==
    /\ "REFUNDED" \in facts[o]
    /\ Learn(o, { "RESTOCKED" }) /\ UNCHANGED unit

Next == \E o \in Orders :
    \/ Hold(o) \/ GiveBack(o) \/ Capture(o) \/ Deposit(o)
    \/ Dispatch(o) \/ Sell(o) \/ Refund(o) \/ Restock(o)

Spec == Init /\ [][Next]_<<unit, facts>>

\* What the promise comes to: a sold unit was dispatched, and paid for if it
\* was prepaid; a seller is owed for sold units only; a refund had money to
\* return; and restocking follows a refund.
Sound == \A o \in Orders :
    /\ unit[o] = "SOLD" => "DISPATCHED" \in facts[o]
    /\ "DISPATCHED" \in facts[o] => unit[o] \in { "HELD", "SOLD" }
    /\ "DISPATCHED" \in facts[o] /\ o \in Prepaid => "CAPTURED" \in facts[o]
    /\ "OWED" \in facts[o] <=> unit[o] = "SOLD"
    /\ "REFUNDED" \in facts[o] => "FUNDED" \in facts[o]
    /\ "RESTOCKED" \in facts[o] => "REFUNDED" \in facts[o]

TypeInv == unit \in [Orders -> UnitStates] /\ facts \in [Orders -> SUBSET Facts]

\* Nothing the contract allows breaks the promise.
THEOREM ContractIsSound == Spec => []Sound
<1>1. Init => TypeInv /\ Sound
  BY DEF Init, TypeInv, Sound, UnitStates, Facts
<1>2. TypeInv /\ Sound /\ [Next]_<<unit, facts>> => (TypeInv /\ Sound)'
  <2> SUFFICES ASSUME TypeInv, Sound, [Next]_<<unit, facts>>
               PROVE  (TypeInv /\ Sound)'
    OBVIOUS
  <2> USE DEF TypeInv, Sound, UnitStates, Facts, Becomes, Learn
  <2>1. ASSUME NEW o \in Orders, Hold(o)
        PROVE  (TypeInv /\ Sound)'
    BY <2>1 DEF Hold
  <2>2. ASSUME NEW o \in Orders, GiveBack(o)
        PROVE  (TypeInv /\ Sound)'
    BY <2>2 DEF GiveBack
  <2>3. ASSUME NEW o \in Orders, Capture(o)
        PROVE  (TypeInv /\ Sound)'
    BY <2>3 DEF Capture
  <2>4. ASSUME NEW o \in Orders, Deposit(o)
        PROVE  (TypeInv /\ Sound)'
    BY <2>4 DEF Deposit
  <2>5. ASSUME NEW o \in Orders, Dispatch(o)
        PROVE  (TypeInv /\ Sound)'
    BY <2>5 DEF Dispatch
  <2>6. ASSUME NEW o \in Orders, Sell(o)
        PROVE  (TypeInv /\ Sound)'
    BY <2>6 DEF Sell
  <2>7. ASSUME NEW o \in Orders, Refund(o)
        PROVE  (TypeInv /\ Sound)'
    BY <2>7 DEF Refund
  <2>8. ASSUME NEW o \in Orders, Restock(o)
        PROVE  (TypeInv /\ Sound)'
    BY <2>8 DEF Restock
  <2>9. CASE UNCHANGED <<unit, facts>>
    BY <2>9
  <2> QED
    BY <2>1, <2>2, <2>3, <2>4, <2>5, <2>6, <2>7, <2>8, <2>9 DEF Next
<1> QED
  BY <1>1, <1>2, PTL DEF Spec
=============================================================================
