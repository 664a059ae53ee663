------------------------------ MODULE LeasedQueue ------------------------------
(***************************************************************************)
(* What the workers that share a table of work promise about each row: a   *)
(* worker claims a row that waits or whose lease is old, at most one works *)
(* on it unless a fault befell it, and it is tried a bounded number of     *)
(* times before it ends.  The notification outbox and the deletion of      *)
(* accounts both keep it.                                                  *)
(*                                                                         *)
(* A fault is what parts a worker from the row it works on: the worker     *)
(* dies, or outlives its lease.  A worker whose lease is over writes the   *)
(* row all the same, whatever has become of it.                            *)
(***************************************************************************)
EXTENDS FiniteSetTheorems, TLAPS

CONSTANTS
    Rows,     \* the rows of work
    Workers,  \* whoever may claim them
    Limit     \* claims of a row that no fault befalls

VARIABLES queue

\* holds: which claim each worker works under, 0 if under none.
RowStates ==
    [state : { "NEW", "WAITING", "TAKEN", "STALE", "DONE", "FAILED" },
     claims : Nat,
     holds : [Workers -> Nat],
     faults : Nat]

Fresh == [state |-> "NEW", claims |-> 0, holds |-> [w \in Workers |-> 0], faults |-> 0]

Held(x) == \E w \in Workers : x.holds[w] > 0

\* Worker w leaves the row, or works under claim k; the others go on.
HolderMoves(x, y, w, k) ==
    \A v \in Workers : y.holds[v] = IF v = w THEN k ELSE x.holds[v]

Add(x, y) ==
    /\ x.state = "NEW" /\ y.state = "WAITING"
    /\ y.claims = x.claims /\ y.holds = x.holds /\ y.faults = x.faults

Claim(x, y, w) ==
    /\ x.state \in { "WAITING", "STALE" } /\ x.holds[w] = 0
    /\ y.state = "TAKEN" /\ y.claims = x.claims + 1
    /\ HolderMoves(x, y, w, y.claims) /\ y.faults = x.faults

\* The attempt fails: the row is to be tried again.
Return(x, y, w) ==
    /\ x.holds[w] \in 1 .. Limit - 1
    /\ y.state = "WAITING" /\ y.claims = x.claims
    /\ HolderMoves(x, y, w, 0) /\ y.faults = x.faults

\* The attempt fails, and as many claims as the limit allows were made.
GiveUp(x, y, w) ==
    /\ x.holds[w] > 0 /\ x.claims >= Limit
    /\ y.state = "FAILED" /\ y.claims = x.claims
    /\ HolderMoves(x, y, w, 0) /\ y.faults = x.faults

End(x, y, w) ==
    /\ x.holds[w] > 0
    /\ y.state = "DONE" /\ y.claims = x.claims
    /\ HolderMoves(x, y, w, 0) /\ y.faults = x.faults

\* The lease is old.  It is a fault if somebody still works under it.
Expire(x, y) ==
    /\ x.state = "TAKEN" /\ y.state = "STALE"
    /\ y.claims = x.claims /\ y.holds = x.holds
    /\ IF Held(x) THEN y.faults > x.faults ELSE y.faults >= x.faults

Die(x, y, w) ==
    /\ x.holds[w] > 0 /\ y.faults > x.faults
    /\ y.state = x.state /\ y.claims = x.claims
    /\ HolderMoves(x, y, w, 0)

\* Nothing happens to the row, or a fault that does not part it from a worker.
Elsewhere(x, y) ==
    /\ y.state = x.state /\ y.claims = x.claims /\ y.holds = x.holds
    /\ y.faults >= x.faults

RowStep(x, y) ==
    \/ Add(x, y) \/ Expire(x, y) \/ Elsewhere(x, y)
    \/ \E w \in Workers :
         Claim(x, y, w) \/ Return(x, y, w) \/ GiveUp(x, y, w) \/ End(x, y, w) \/ Die(x, y, w)

Init == queue = [r \in Rows |-> Fresh]

\* A statement may claim several rows, and a worker's death befall several.
Next ==
    /\ queue' \in [Rows -> RowStates]
    /\ \A r \in Rows : RowStep(queue[r], queue'[r])

Spec == Init /\ [][Next]_queue

-----------------------------------------------------------------------------
(* What the promise comes to.                                              *)

\* A row is claimed at most Limit times, and once more for each fault; and it
\* is not given up before that.
ClaimsAreCounted == \A r \in Rows :
    /\ queue[r].claims <= Limit + queue[r].faults
    /\ queue[r].state = "FAILED" => queue[r].claims >= Limit

\* Two workers work on a row only after a fault befell it, and a row that is
\* taken is then worked on.
OneWorkerWithoutFault == \A r \in Rows : queue[r].faults = 0 =>
    /\ \A v, w \in Workers : queue[r].holds[v] > 0 /\ queue[r].holds[w] > 0 => v = w
    /\ Held(queue[r]) <=> queue[r].state = "TAKEN"

-----------------------------------------------------------------------------
(* Why.                                                                    *)

\* Claims below the limit that nobody has made, or that somebody works under:
\* each may yet put the row back.
Open(x) == { k \in 1 .. Limit - 1 : k > x.claims \/ \E w \in Workers : x.holds[w] = k }

\* The claim that a row put back, or one whose worker was lost, stands for.
Waits(x) == IF x.state \in { "NEW", "WAITING" } THEN 1 ELSE 0
Lost(x) == IF x.state = "STALE" \/ (x.state = "TAKEN" /\ ~ Held(x)) THEN 1 ELSE 0

\* Claims made and claims still to come.
Budget(x) == x.claims + Waits(x) + Lost(x) + Cardinality(Open(x)) <= Limit + x.faults

ClaimsAreDistinct(x) ==
    /\ \A w \in Workers : x.holds[w] <= x.claims
    /\ \A v, w \in Workers : x.holds[v] = x.holds[w] /\ x.holds[v] > 0 => v = w

GivenUpLate(x) == x.state = "FAILED" => x.claims >= Limit

Calm(x) == x.faults = 0 =>
    /\ \A v, w \in Workers : x.holds[v] > 0 /\ x.holds[w] > 0 => v = w
    /\ Held(x) <=> x.state = "TAKEN"

RowInv(x) == Budget(x) /\ ClaimsAreDistinct(x) /\ GivenUpLate(x) /\ Calm(x)

LEMMA OpenIsFinite ==
    ASSUME Limit \in Nat, NEW x
    PROVE  IsFiniteSet(Open(x)) /\ Cardinality(Open(x)) \in Nat
<1>1. IsFiniteSet(1 .. Limit - 1)
  BY FS_Interval
<1>2. Open(x) \subseteq 1 .. Limit - 1
  BY DEF Open
<1> QED
  BY <1>1, <1>2, FS_Subset, FS_CardinalityType

\* No open claim appears, so there are no more of them.
LEMMA FewerOpen ==
    ASSUME Limit \in Nat, NEW x, NEW y, Open(y) \subseteq Open(x)
    PROVE  Cardinality(Open(y)) <= Cardinality(Open(x))
BY OpenIsFinite, FS_Subset

\* A claim that was open and is not: there is one fewer.
LEMMA OneOpenLess ==
    ASSUME Limit \in Nat, NEW x, NEW y, Open(y) \subseteq Open(x),
           NEW k \in Open(x), k \notin Open(y)
    PROVE  Cardinality(Open(y)) + 1 <= Cardinality(Open(x))
<1>1. /\ IsFiniteSet(Open(x) \ { k })
      /\ Cardinality(Open(x) \ { k }) = Cardinality(Open(x)) - 1
  BY OpenIsFinite, FS_RemoveElement
<1>2. Open(y) \subseteq Open(x) \ { k }
  OBVIOUS
<1>3. Cardinality(Open(y)) <= Cardinality(Open(x) \ { k })
  BY <1>1, <1>2, FS_Subset
<1> QED
  BY <1>1, <1>3, OpenIsFinite

LEMMA FreshRow ==
    ASSUME Limit \in Nat \ { 0 }
    PROVE  Fresh \in RowStates /\ RowInv(Fresh)
<1>1. Open(Fresh) = 1 .. Limit - 1
  BY DEF Open, Fresh
<1>2. Cardinality(1 .. Limit - 1) = Limit - 1
  BY FS_Interval
<1> QED
  BY <1>1, <1>2
     DEF RowInv, Budget, ClaimsAreDistinct, GivenUpLate, Calm, Waits, Lost, Held, Fresh, RowStates

\* A worker that leaves the row leaves the claims of the others as they are.
LEMMA LeaverDistinct ==
    ASSUME NEW x \in RowStates, NEW y \in RowStates, NEW w \in Workers, ClaimsAreDistinct(x),
           HolderMoves(x, y, w, 0), y.claims = x.claims
    PROVE  ClaimsAreDistinct(y) /\ Open(y) \subseteq Open(x)
BY DEF ClaimsAreDistinct, HolderMoves, RowStates, Open

LEMMA AddStep ==
    ASSUME Limit \in Nat \ { 0 }, NEW x \in RowStates, NEW y \in RowStates, RowInv(x), Add(x, y)
    PROVE  RowInv(y)
<1>1. Open(y) = Open(x) /\ (Held(y) <=> Held(x))
  BY DEF Add, Open, Held
<1>2. Waits(y) = 1 /\ Waits(x) = 1 /\ Lost(y) = 0 /\ Lost(x) = 0
  BY DEF Add, Waits, Lost
<1> QED
  BY <1>1, <1>2 DEF RowInv, Budget, ClaimsAreDistinct, GivenUpLate, Calm, Add

LEMMA ExpireStep ==
    ASSUME Limit \in Nat \ { 0 }, NEW x \in RowStates, NEW y \in RowStates, RowInv(x), Expire(x, y)
    PROVE  RowInv(y)
<1>1. Open(y) = Open(x) /\ (Held(y) <=> Held(x))
  BY DEF Expire, Open, Held
<1>2. Waits(y) = 0 /\ Waits(x) = 0 /\ Lost(y) = 1 /\ Lost(x) = IF Held(x) THEN 0 ELSE 1
  BY DEF Expire, Waits, Lost
<1>3. Budget(y)
  BY <1>1, <1>2, OpenIsFinite DEF RowInv, Budget, Expire, RowStates
<1>4. x.faults \in Nat /\ y.faults \in Nat
  BY DEF RowStates
<1>5. y.faults > 0
  BY <1>4 DEF RowInv, Calm, Expire
<1>6. ClaimsAreDistinct(y) /\ GivenUpLate(y)
  BY DEF RowInv, ClaimsAreDistinct, GivenUpLate, Expire
<1> QED
  BY <1>3, <1>5, <1>6 DEF RowInv, Calm

LEMMA ElsewhereStep ==
    ASSUME Limit \in Nat \ { 0 }, NEW x \in RowStates, NEW y \in RowStates, RowInv(x), Elsewhere(x, y)
    PROVE  RowInv(y)
<1>1. Open(y) = Open(x) /\ (Held(y) <=> Held(x))
  BY DEF Elsewhere, Open, Held
<1>2. Waits(y) = Waits(x) /\ Lost(y) = Lost(x) /\ Waits(x) \in Nat /\ Lost(x) \in Nat
  BY <1>1 DEF Elsewhere, Waits, Lost
<1>3. Budget(y)
  BY <1>1, <1>2, OpenIsFinite DEF RowInv, Budget, Elsewhere, RowStates
<1>4. x.faults \in Nat /\ y.faults \in Nat
  BY DEF RowStates
<1>5. Calm(y)
  BY <1>1, <1>4 DEF RowInv, Calm, Elsewhere
<1> QED
  BY <1>3, <1>5 DEF RowInv, ClaimsAreDistinct, GivenUpLate, Elsewhere

LEMMA ClaimStep ==
    ASSUME Limit \in Nat \ { 0 }, NEW x \in RowStates, NEW y \in RowStates, RowInv(x),
           NEW w \in Workers, Claim(x, y, w)
    PROVE  RowInv(y)
<1> USE DEF RowStates
<1>1. y.holds[w] = x.claims + 1 /\ \A v \in Workers : v # w => y.holds[v] = x.holds[v]
  BY DEF Claim, HolderMoves
<1>2. Held(y)
  BY <1>1 DEF Held
<1>3. Open(y) = Open(x)
  BY <1>1 DEF Open, Claim
<1>4. Waits(y) = 0 /\ Lost(y) = 0 /\ Waits(x) + Lost(x) = 1
  BY <1>2 DEF Waits, Lost, Claim
<1>5. Budget(y)
  BY <1>3, <1>4, OpenIsFinite DEF RowInv, Budget, Claim, Waits, Lost
<1>6. ClaimsAreDistinct(y)
  BY <1>1 DEF RowInv, ClaimsAreDistinct, Claim
<1>7. Calm(y)
  BY <1>1, <1>2 DEF RowInv, Calm, Claim, Held
<1>8. GivenUpLate(y)
  BY DEF GivenUpLate, Claim
<1> QED
  BY <1>5, <1>6, <1>7, <1>8 DEF RowInv

\* What the steps by which a worker leaves have in common.
LEMMA LeaverCalm ==
    ASSUME NEW x \in RowStates, NEW y \in RowStates, NEW w \in Workers, Calm(x), x.holds[w] > 0,
           HolderMoves(x, y, w, 0), y.faults = x.faults, y.state # "TAKEN"
    PROVE  Calm(y)
BY DEF Calm, Held, HolderMoves, RowStates

LEMMA ReturnStep ==
    ASSUME Limit \in Nat \ { 0 }, NEW x \in RowStates, NEW y \in RowStates, RowInv(x),
           NEW w \in Workers, Return(x, y, w)
    PROVE  RowInv(y)
<1> USE DEF RowStates
<1>1. ClaimsAreDistinct(y) /\ Open(y) \subseteq Open(x)
  BY LeaverDistinct DEF RowInv, Return
<1>2. x.holds[w] \in Open(x)
  BY DEF Open, Return
<1>3. x.holds[w] \notin Open(y)
  BY DEF Open, Return, HolderMoves, RowInv, ClaimsAreDistinct
<1>4. Cardinality(Open(y)) + 1 <= Cardinality(Open(x))
  BY <1>1, <1>2, <1>3, OneOpenLess
<1>5. Waits(y) = 1 /\ Lost(y) = 0 /\ Waits(x) \in Nat /\ Lost(x) \in Nat
  BY DEF Waits, Lost, Return
<1>6. Budget(y)
  BY <1>4, <1>5, OpenIsFinite DEF RowInv, Budget, Return
<1>7. Calm(y) /\ GivenUpLate(y)
  BY LeaverCalm DEF RowInv, Return, GivenUpLate
<1> QED
  BY <1>1, <1>6, <1>7 DEF RowInv

LEMMA EndingStep ==
    ASSUME Limit \in Nat \ { 0 }, NEW x \in RowStates, NEW y \in RowStates, RowInv(x),
           NEW w \in Workers, GiveUp(x, y, w) \/ End(x, y, w)
    PROVE  RowInv(y)
<1> USE DEF RowStates
<1>1. HolderMoves(x, y, w, 0) /\ y.claims = x.claims /\ y.faults = x.faults /\ x.holds[w] > 0
  BY DEF GiveUp, End
<1>2. y.state \in { "DONE", "FAILED" }
  BY DEF GiveUp, End
<1>3. ClaimsAreDistinct(y) /\ Open(y) \subseteq Open(x)
  BY <1>1, LeaverDistinct DEF RowInv
<1>4. Cardinality(Open(y)) <= Cardinality(Open(x))
  BY <1>3, FewerOpen
<1>5. Waits(y) = 0 /\ Lost(y) = 0 /\ Waits(x) \in Nat /\ Lost(x) \in Nat
  BY <1>2 DEF Waits, Lost
<1>6. Budget(y)
  BY <1>1, <1>4, <1>5, OpenIsFinite DEF RowInv, Budget
<1>7. Calm(y)
  BY <1>1, <1>2, LeaverCalm DEF RowInv
<1>8. GivenUpLate(y)
  BY DEF RowInv, ClaimsAreDistinct, GivenUpLate, GiveUp, End
<1> QED
  BY <1>3, <1>6, <1>7, <1>8 DEF RowInv

LEMMA DieStep ==
    ASSUME Limit \in Nat \ { 0 }, NEW x \in RowStates, NEW y \in RowStates, RowInv(x),
           NEW w \in Workers, Die(x, y, w)
    PROVE  RowInv(y)
<1> USE DEF RowStates
<1>1. ClaimsAreDistinct(y) /\ Open(y) \subseteq Open(x)
  BY LeaverDistinct DEF RowInv, Die
<1>2. Cardinality(Open(y)) <= Cardinality(Open(x))
  BY <1>1, FewerOpen
<1>3. Waits(y) = Waits(x) /\ Waits(x) \in Nat /\ Lost(x) \in Nat /\ Lost(y) \in Nat /\ Lost(y) <= Lost(x) + 1
  BY DEF Waits, Lost, Die
<1>4. Budget(y)
  BY <1>2, <1>3, OpenIsFinite DEF RowInv, Budget, Die
<1>5. Calm(y) /\ GivenUpLate(y)
  BY DEF RowInv, Die, GivenUpLate, Calm
<1> QED
  BY <1>1, <1>4, <1>5 DEF RowInv

\* Every step of a row keeps its budget.
LEMMA RowStepInv ==
    ASSUME Limit \in Nat \ { 0 }, NEW x \in RowStates, NEW y \in RowStates, RowInv(x), RowStep(x, y)
    PROVE  RowInv(y)
BY AddStep, ExpireStep, ElsewhereStep, ClaimStep, ReturnStep, EndingStep, DieStep DEF RowStep

Inv == queue \in [Rows -> RowStates] /\ \A r \in Rows : RowInv(queue[r])

LEMMA InvHolds ==
    ASSUME Limit \in Nat \ { 0 }
    PROVE  Spec => []Inv
<1>1. Init => Inv
  BY FreshRow DEF Init, Inv
<1>2. Inv /\ [Next]_queue => Inv'
  BY RowStepInv DEF Inv, Next
<1> QED
  BY <1>1, <1>2, PTL DEF Spec

\* A row is claimed Limit times and once more for each fault at most, and is
\* given up only then: what the promise comes to.
THEOREM ClaimsCounted ==
    ASSUME Limit \in Nat \ { 0 }
    PROVE  Spec => []ClaimsAreCounted
<1>1. Inv => ClaimsAreCounted
  <2> SUFFICES ASSUME Inv, NEW r \in Rows
               PROVE  /\ queue[r].claims <= Limit + queue[r].faults
                      /\ queue[r].state = "FAILED" => queue[r].claims >= Limit
    BY DEF ClaimsAreCounted
  <2>1. queue[r] \in RowStates /\ RowInv(queue[r])
    BY DEF Inv
  <2>2. Waits(queue[r]) \in Nat /\ Lost(queue[r]) \in Nat
    BY DEF Waits, Lost
  <2> QED
    BY <2>1, <2>2, OpenIsFinite DEF RowInv, Budget, GivenUpLate, RowStates
<1> QED
  BY <1>1, InvHolds, PTL

\* The lease keeps a row with one worker until a fault befalls it.
THEOREM WorkersExclude ==
    ASSUME Limit \in Nat \ { 0 }
    PROVE  Spec => []OneWorkerWithoutFault
<1>1. Inv => OneWorkerWithoutFault
  BY DEF Inv, RowInv, Calm, OneWorkerWithoutFault
<1> QED
  BY <1>1, InvHolds, PTL
=============================================================================
