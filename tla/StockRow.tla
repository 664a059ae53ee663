------------------------------ MODULE StockRow ------------------------------
(***************************************************************************)
(* The stock columns of one row of the listings table, and the arithmetic  *)
(* the commerce services apply to them.                                    *)
(*                                                                         *)
(* Every service reads the row with one statement and writes it with a     *)
(* later one.  The write puts ABSOLUTE values, computed from the row that  *)
(* was read, over whatever the row holds by then.  So each update below    *)
(* takes two rows: the current one, whose untouched columns survive, and   *)
(* the one that was read.                                                  *)
(***************************************************************************)
EXTENDS Integers

ListingStatus ==
    { "PENDING_REVIEW", "REJECTED", "ACTIVE", "RESERVED", "SOLD", "ARCHIVED", "REMOVED" }

Rows == [status : ListingStatus, available : Nat, reserved : Nat, sold : Nat]

Total(row) == row.available + row.reserved + row.sold

MaxTotal == 999

\* listings_stock_check and listings_stock_status_check: an UPDATE that would
\* leave a row outside this predicate fails, and its transaction rolls back.
RowAllowed(row) ==
    /\ row.available >= 0 /\ row.reserved >= 0 /\ row.sold >= 0
    /\ Total(row) \in 1 .. MaxTotal
    /\ row.status = "ACTIVE" => row.available > 0
    /\ row.status = "RESERVED" => row.available = 0 /\ row.reserved > 0
    /\ row.status = "SOLD" => row.available = 0 /\ row.reserved = 0 /\ row.sold > 0

\* Mutant: the unit is reserved and stays on the shelf.
ReserveKeepingShelf(row) ==
    [status |-> "ACTIVE", available |-> row.available, reserved |-> row.reserved + 1,
     sold |-> row.sold]

\* Checkout holds the row lock from its read to its write: one row suffices.
Reserve(row) ==
    [status |-> IF row.available > 1 THEN "ACTIVE" ELSE "RESERVED",
     available |-> row.available - 1,
     reserved |-> row.reserved + 1,
     sold |-> row.sold]

\* Cancellation, and a failed or expired payment.  The sold count survives.
Release(row, read) ==
    [status |-> "ACTIVE",
     available |-> read.available + 1,
     reserved |-> read.reserved - 1,
     sold |-> row.sold]

\* Completion.  The available count survives, and may no longer be the one the
\* new status was computed from.
Sell(row, read) ==
    [status |-> IF read.available > 0 THEN "ACTIVE"
                ELSE IF read.reserved > 1 THEN "RESERVED"
                ELSE "SOLD",
     available |-> row.available,
     reserved |-> read.reserved - 1,
     sold |-> read.sold + 1]

\* Mutant: the unit is put on the shelf and stays sold.
RestockKeepingSold(read) ==
    [status |-> "ACTIVE", available |-> read.available + 1, reserved |-> read.reserved,
     sold |-> read.sold]

\* An inspected return: a sold unit if the listing has one, else a reserved
\* one.  It writes every column.
Restock(read) ==
    [status |-> "ACTIVE",
     available |-> read.available + 1,
     reserved |-> IF read.sold > 0 THEN read.reserved ELSE read.reserved - 1,
     sold |-> IF read.sold > 0 THEN read.sold - 1 ELSE read.sold]
=============================================================================
