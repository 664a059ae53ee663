--------------------------- MODULE FinancialPolicy ---------------------------
(***************************************************************************)
(* The money of an order, in minor units: Thriftage's commission, the tax  *)
(* withheld, and what is left for the seller.  Rates are basis points.     *)
(***************************************************************************)
EXTENDS Integers

CommissionBps == 1000

\* A share of an amount, rounded half up.
RoundBasisPointsHalfUp(amount, bps) == (amount * bps + 5000) \div 10000

Commission(subtotal) == RoundBasisPointsHalfUp(subtotal, CommissionBps)

\* May be negative: calculateOrderFinancialSnapshot then refuses the order.
SellerNet(subtotal, withholdingBps) ==
    subtotal - Commission(subtotal) - RoundBasisPointsHalfUp(subtotal, withholdingBps)
=============================================================================
