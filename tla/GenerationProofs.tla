--------------------------- MODULE GenerationProofs ---------------------------
(***************************************************************************)
(* Proofs about AiGeneration for any requests, handlers and ceiling.       *)
(***************************************************************************)
EXTENDS AiGeneration, FiniteSetTheorems, TLAPS

\* A request is worked on by one handler.
OneHandler ==
    \A g, h \in Handlers, r \in Requests : Working(g, r) /\ Working(h, r) => g = h

\* What a handler at work can rely on: the row is as it left it, unless the
\* conversation has gone, which never comes back.
RowsAreKept ==
    /\ \A r \in Requests : Gone(r) => status[r] = "NONE"
    /\ \A h \in Handlers : step[h] # "IDLE" =>
          /\ step[h] \in { "CHECK", "SEARCH", "CALL", "FINISH" } =>
                status[on[h]] = "PROCESSING" \/ Gone(on[h])
          /\ step[h] = "REPLY" => status[on[h]] \in Answered \/ Gone(on[h])
          /\ step[h] = "FAIL" => status[on[h]] # "NONE" \/ Gone(on[h])

\* What the unique index keeps: an id has one row for each user, to whichever
\* conversation it was sent.
KeysAreUnique ==
    \A q, r \in Requests : SameKey(q, r) /\ status[q] # "NONE" /\ status[r] # "NONE" => q = r

\* A request for which something was spent cannot be inserted again.
SpentIsOnRecord ==
    /\ \A r \in Requests : spent[r] # 0 => status[r] # "NONE" \/ Gone(r)
    /\ \A h \in Handlers : step[h] \in { "CHECK", "SEARCH" } => spent[on[h]] = 0

\* The inductive invariant.
Inv ==
    /\ TypeOK
    /\ OneHandler /\ RowsAreKept /\ KeysAreUnique
    /\ SpentIsOnRecord /\ SpentOnce
    /\ AnswersMatchStatus /\ SlotsHaveHandlers /\ CeilingHolds

\* A handler at work has a request.
LEMMA OnRequest ==
    ASSUME TypeOK, NEW h \in Handlers, step[h] # "IDLE"
    PROVE  on[h] \in Requests /\ on[h] # NoRequest
BY GenerationAssumption DEF TypeOK

LEMMA InitInv == Init => Inv
<1> SUFFICES ASSUME Init PROVE Inv
  OBVIOUS
<1>1. Passed = {} /\ Processing = {}
  BY DEF Init, Passed, Processing
<1>2. CeilingHolds
  BY <1>1, FS_EmptySet, GenerationAssumption DEF CeilingHolds
<1> QED
  BY <1>1, <1>2, GenerationAssumption
     DEF Init, Inv, TypeOK, GenerationStatus, Answered, Steps, OneHandler, Working, RowsAreKept, KeysAreUnique,
         Gone, SpentIsOnRecord, SpentOnce, AnswersMatchStatus, SlotsHaveHandlers

-----------------------------------------------------------------------------
LEMMA TypeStep == TypeOK /\ [Next]_vars => TypeOK'
<1> SUFFICES ASSUME TypeOK, [Next]_vars PROVE TypeOK'
  OBVIOUS
<1> USE DEF TypeOK, GenerationStatus, Answered, Steps
<1>1. ASSUME NEW h \in Handlers, NEW r \in Requests, Begin(h, r)
      PROVE  TypeOK'
  BY <1>1, OnRequest, GenerationAssumption DEF Begin, Fresh
<1>2. ASSUME NEW h \in Handlers, Insert(h)
      PROVE  TypeOK'
  BY <1>2, OnRequest, GenerationAssumption DEF Insert, At, GoTo, Leave, Insertable, Fresh, Fault
<1>3. ASSUME NEW h \in Handlers, Check(h)
      PROVE  TypeOK'
  BY <1>3, OnRequest, GenerationAssumption DEF Check, At, GoTo, Throw
<1>4. ASSUME NEW h \in Handlers, Search(h)
      PROVE  TypeOK'
  BY <1>4, OnRequest, GenerationAssumption DEF Search, At, GoTo, Throw
<1>5. ASSUME NEW h \in Handlers, CallEnds(h)
      PROVE  TypeOK'
  BY <1>5, OnRequest, GenerationAssumption DEF CallEnds, At, GoTo
<1>6. ASSUME NEW h \in Handlers, Complete(h)
      PROVE  TypeOK'
  BY <1>6, OnRequest, GenerationAssumption DEF Complete, At, GoTo, Throw
<1>7. ASSUME NEW h \in Handlers, Reply(h)
      PROVE  TypeOK'
  BY <1>7, OnRequest, GenerationAssumption DEF Reply, At, Leave, Throw, GoTo
<1>8. ASSUME NEW h \in Handlers, Fail(h)
      PROVE  TypeOK'
  BY <1>8, OnRequest, GenerationAssumption DEF Fail, At, Leave, StillProcessing
<1>9. ASSUME NEW h \in Handlers, Crash(h)
      PROVE  TypeOK'
  BY <1>9, OnRequest, GenerationAssumption DEF Crash, Fault, Leave
<1>10. ASSUME NEW c \in Conversations, Delete(c)
      PROVE  TypeOK'
  BY <1>10, OnRequest, GenerationAssumption DEF Delete, handlerVars
<1>11. CASE UNCHANGED vars
  BY <1>11 DEF vars
<1> QED
  BY <1>1, <1>2, <1>3, <1>4, <1>5, <1>6, <1>7, <1>8, <1>9, <1>10, <1>11
     DEF Next, Serve

LEMMA RowStep == Inv /\ [Next]_vars => (OneHandler /\ RowsAreKept /\ KeysAreUnique)'
<1> SUFFICES ASSUME Inv, [Next]_vars PROVE (OneHandler /\ RowsAreKept /\ KeysAreUnique)'
  OBVIOUS
<1> USE DEF Inv, TypeOK, GenerationStatus, Answered, Steps, OneHandler, RowsAreKept, KeysAreUnique, SameKey, Gone, Working
<1>1. ASSUME NEW h \in Handlers, NEW r \in Requests, Begin(h, r)
      PROVE  (OneHandler /\ RowsAreKept /\ KeysAreUnique)'
  BY <1>1, OnRequest, GenerationAssumption DEF Begin, Fresh
<1>2. ASSUME NEW h \in Handlers, Insert(h)
      PROVE  (OneHandler /\ RowsAreKept /\ KeysAreUnique)'
  BY <1>2, OnRequest, GenerationAssumption DEF Insert, At, GoTo, Leave, Insertable, Fresh, Fault
<1>3. ASSUME NEW h \in Handlers, Check(h)
      PROVE  (OneHandler /\ RowsAreKept /\ KeysAreUnique)'
  BY <1>3, OnRequest, GenerationAssumption DEF Check, At, GoTo, Throw
<1>4. ASSUME NEW h \in Handlers, Search(h)
      PROVE  (OneHandler /\ RowsAreKept /\ KeysAreUnique)'
  BY <1>4, OnRequest, GenerationAssumption DEF Search, At, GoTo, Throw
<1>5. ASSUME NEW h \in Handlers, CallEnds(h)
      PROVE  (OneHandler /\ RowsAreKept /\ KeysAreUnique)'
  BY <1>5, OnRequest, GenerationAssumption DEF CallEnds, At, GoTo
<1>6. ASSUME NEW h \in Handlers, Complete(h)
      PROVE  (OneHandler /\ RowsAreKept /\ KeysAreUnique)'
  BY <1>6, OnRequest, GenerationAssumption DEF Complete, At, GoTo, Throw
<1>7. ASSUME NEW h \in Handlers, Reply(h)
      PROVE  (OneHandler /\ RowsAreKept /\ KeysAreUnique)'
  BY <1>7, OnRequest, GenerationAssumption DEF Reply, At, Leave, Throw, GoTo
<1>8. ASSUME NEW h \in Handlers, Fail(h)
      PROVE  (OneHandler /\ RowsAreKept /\ KeysAreUnique)'
  BY <1>8, OnRequest, GenerationAssumption DEF Fail, At, Leave, StillProcessing
<1>9. ASSUME NEW h \in Handlers, Crash(h)
      PROVE  (OneHandler /\ RowsAreKept /\ KeysAreUnique)'
  BY <1>9, OnRequest, GenerationAssumption DEF Crash, Fault, Leave
<1>10. ASSUME NEW c \in Conversations, Delete(c)
      PROVE  (OneHandler /\ RowsAreKept /\ KeysAreUnique)'
  BY <1>10, OnRequest, GenerationAssumption DEF Delete, handlerVars
<1>11. CASE UNCHANGED vars
  BY <1>11 DEF vars
<1> QED
  BY <1>1, <1>2, <1>3, <1>4, <1>5, <1>6, <1>7, <1>8, <1>9, <1>10, <1>11
     DEF Next, Serve

LEMMA SpentStep == Inv /\ [Next]_vars => (SpentIsOnRecord /\ SpentOnce)'
<1> SUFFICES ASSUME Inv, [Next]_vars PROVE (SpentIsOnRecord /\ SpentOnce)'
  OBVIOUS
<1> USE
     DEF Inv, TypeOK, GenerationStatus, Answered, Steps, OneHandler, RowsAreKept, KeysAreUnique, SameKey, Gone, Working, SpentIsOnRecord, SpentOnce
<1>1. ASSUME NEW h \in Handlers, NEW r \in Requests, Begin(h, r)
      PROVE  (SpentIsOnRecord /\ SpentOnce)'
  BY <1>1, OnRequest, GenerationAssumption DEF Begin, Fresh
<1>2. ASSUME NEW h \in Handlers, Insert(h)
      PROVE  (SpentIsOnRecord /\ SpentOnce)'
  BY <1>2, OnRequest, GenerationAssumption DEF Insert, At, GoTo, Leave, Insertable, Fresh, Fault
<1>3. ASSUME NEW h \in Handlers, Check(h)
      PROVE  (SpentIsOnRecord /\ SpentOnce)'
  BY <1>3, OnRequest, GenerationAssumption DEF Check, At, GoTo, Throw
<1>4. ASSUME NEW h \in Handlers, Search(h)
      PROVE  (SpentIsOnRecord /\ SpentOnce)'
  BY <1>4, OnRequest, GenerationAssumption DEF Search, At, GoTo, Throw
<1>5. ASSUME NEW h \in Handlers, CallEnds(h)
      PROVE  (SpentIsOnRecord /\ SpentOnce)'
  BY <1>5, OnRequest, GenerationAssumption DEF CallEnds, At, GoTo
<1>6. ASSUME NEW h \in Handlers, Complete(h)
      PROVE  (SpentIsOnRecord /\ SpentOnce)'
  BY <1>6, OnRequest, GenerationAssumption DEF Complete, At, GoTo, Throw
<1>7. ASSUME NEW h \in Handlers, Reply(h)
      PROVE  (SpentIsOnRecord /\ SpentOnce)'
  BY <1>7, OnRequest, GenerationAssumption DEF Reply, At, Leave, Throw, GoTo
<1>8. ASSUME NEW h \in Handlers, Fail(h)
      PROVE  (SpentIsOnRecord /\ SpentOnce)'
  BY <1>8, OnRequest, GenerationAssumption DEF Fail, At, Leave, StillProcessing
<1>9. ASSUME NEW h \in Handlers, Crash(h)
      PROVE  (SpentIsOnRecord /\ SpentOnce)'
  BY <1>9, OnRequest, GenerationAssumption DEF Crash, Fault, Leave
<1>10. ASSUME NEW c \in Conversations, Delete(c)
      PROVE  (SpentIsOnRecord /\ SpentOnce)'
  BY <1>10, OnRequest, GenerationAssumption DEF Delete, handlerVars
<1>11. CASE UNCHANGED vars
  BY <1>11 DEF vars
<1> QED
  BY <1>1, <1>2, <1>3, <1>4, <1>5, <1>6, <1>7, <1>8, <1>9, <1>10, <1>11
     DEF Next, Serve

LEMMA AnswerStep == Inv /\ [Next]_vars => (AnswersMatchStatus /\ SlotsHaveHandlers)'
<1> SUFFICES ASSUME Inv, [Next]_vars PROVE (AnswersMatchStatus /\ SlotsHaveHandlers)'
  OBVIOUS
<1> USE
     DEF Inv, TypeOK, GenerationStatus, Answered, Steps, RowsAreKept, Gone, Working, AnswersMatchStatus, SlotsHaveHandlers, Processing
<1>1. ASSUME NEW h \in Handlers, NEW r \in Requests, Begin(h, r)
      PROVE  (AnswersMatchStatus /\ SlotsHaveHandlers)'
  BY <1>1, OnRequest, GenerationAssumption DEF Begin, Fresh
<1>2. ASSUME NEW h \in Handlers, Insert(h)
      PROVE  (AnswersMatchStatus /\ SlotsHaveHandlers)'
  BY <1>2, OnRequest, GenerationAssumption DEF Insert, At, GoTo, Leave, Insertable, Fresh, Fault
<1>3. ASSUME NEW h \in Handlers, Check(h)
      PROVE  (AnswersMatchStatus /\ SlotsHaveHandlers)'
  BY <1>3, OnRequest, GenerationAssumption DEF Check, At, GoTo, Throw
<1>4. ASSUME NEW h \in Handlers, Search(h)
      PROVE  (AnswersMatchStatus /\ SlotsHaveHandlers)'
  BY <1>4, OnRequest, GenerationAssumption DEF Search, At, GoTo, Throw
<1>5. ASSUME NEW h \in Handlers, CallEnds(h)
      PROVE  (AnswersMatchStatus /\ SlotsHaveHandlers)'
  BY <1>5, OnRequest, GenerationAssumption DEF CallEnds, At, GoTo
<1>6. ASSUME NEW h \in Handlers, Complete(h)
      PROVE  (AnswersMatchStatus /\ SlotsHaveHandlers)'
  BY <1>6, OnRequest, GenerationAssumption DEF Complete, At, GoTo, Throw
<1>7. ASSUME NEW h \in Handlers, Reply(h)
      PROVE  (AnswersMatchStatus /\ SlotsHaveHandlers)'
  BY <1>7, OnRequest, GenerationAssumption DEF Reply, At, Leave, Throw, GoTo
<1>8. ASSUME NEW h \in Handlers, Fail(h)
      PROVE  (AnswersMatchStatus /\ SlotsHaveHandlers)'
  BY <1>8, OnRequest, GenerationAssumption DEF Fail, At, Leave, StillProcessing
<1>9. ASSUME NEW h \in Handlers, Crash(h)
      PROVE  (AnswersMatchStatus /\ SlotsHaveHandlers)'
  BY <1>9, OnRequest, GenerationAssumption DEF Crash, Fault, Leave
<1>10. ASSUME NEW c \in Conversations, Delete(c)
      PROVE  (AnswersMatchStatus /\ SlotsHaveHandlers)'
  BY <1>10, OnRequest, GenerationAssumption DEF Delete, handlerVars
<1>11. CASE UNCHANGED vars
  BY <1>11 DEF vars
<1> QED
  BY <1>1, <1>2, <1>3, <1>4, <1>5, <1>6, <1>7, <1>8, <1>9, <1>10, <1>11
     DEF Next, Serve

-----------------------------------------------------------------------------
\* The ceiling: only Check lets a generation pass, and it counts them all.
LEMMA FewerPass ==
    ASSUME CeilingHolds, Passed' \subseteq Passed
    PROVE  CeilingHolds'
<1>1. IsFiniteSet(Passed)
  BY FS_Subset, GenerationAssumption DEF Passed, Processing
<1>2. IsFiniteSet(Passed') /\ Cardinality(Passed') <= Cardinality(Passed)
  BY <1>1, FS_Subset
<1>3. Cardinality(Passed') \in Nat /\ Cardinality(Passed) \in Nat
  BY <1>1, <1>2, FS_CardinalityType
<1> QED
  BY <1>2, <1>3, GenerationAssumption DEF CeilingHolds

LEMMA CeilingStep == Inv /\ [Next]_vars => CeilingHolds'
<1> SUFFICES ASSUME Inv, [Next]_vars PROVE CeilingHolds'
  OBVIOUS
<1>0. CeilingHolds
  BY DEF Inv
<1>1. ASSUME NEW h \in Handlers, NEW r \in Requests, Begin(h, r)
      PROVE  CeilingHolds'
  <2>1. Passed' \subseteq Passed
    BY <1>1, OnRequest DEF Inv, Begin, Fresh, Passed, Processing, TypeOK
  <2> QED
    BY <1>0, <2>1, FewerPass
<1>2. ASSUME NEW h \in Handlers, Insert(h)
      PROVE  CeilingHolds'
  <2>1. Passed' \subseteq Passed
    BY <1>2, OnRequest
     DEF Inv, Insert, At, GoTo, Leave, Insertable, Fresh, Fault, RowsAreKept, Gone, Passed, Processing, TypeOK
  <2> QED
    BY <1>0, <2>1, FewerPass
<1>3. ASSUME NEW h \in Handlers, Check(h)
      PROVE  CeilingHolds'
  <2>1. CASE UnderCeiling
    <3>1. Passed' \subseteq Processing
      BY <1>3 DEF Check, GoTo, Throw, Passed, Processing
    <3>2. IsFiniteSet(Processing)
      BY FS_Subset, GenerationAssumption DEF Processing
    <3>3. /\ IsFiniteSet(Passed') /\ Cardinality(Passed') <= Cardinality(Processing)
          /\ Cardinality(Passed') \in Nat /\ Cardinality(Processing) \in Nat
      BY <3>1, <3>2, FS_Subset, FS_CardinalityType
    <3> QED
      BY <2>1, <3>3, GenerationAssumption DEF UnderCeiling, CeilingHolds
  <2>2. CASE ~ UnderCeiling
    <3>1. Passed' \subseteq Passed
      BY <1>3, <2>2 DEF Inv, TypeOK, Check, At, GoTo, Throw, Passed, Processing
    <3> QED
      BY <1>0, <3>1, FewerPass
  <2> QED
    BY <2>1, <2>2
<1>4. ASSUME NEW h \in Handlers, Search(h)
      PROVE  CeilingHolds'
  <2>1. Passed' \subseteq Passed
    BY <1>4, OnRequest DEF Inv, Search, At, GoTo, Throw, Passed, Processing, TypeOK
  <2> QED
    BY <1>0, <2>1, FewerPass
<1>5. ASSUME NEW h \in Handlers, CallEnds(h)
      PROVE  CeilingHolds'
  <2>1. Passed' \subseteq Passed
    BY <1>5, OnRequest DEF Inv, CallEnds, At, GoTo, Passed, Processing, TypeOK
  <2> QED
    BY <1>0, <2>1, FewerPass
<1>6. ASSUME NEW h \in Handlers, Complete(h)
      PROVE  CeilingHolds'
  <2>1. Passed' \subseteq Passed
    BY <1>6, OnRequest DEF Inv, Complete, At, GoTo, Throw, Answered, Passed, Processing, TypeOK
  <2> QED
    BY <1>0, <2>1, FewerPass
<1>7. ASSUME NEW h \in Handlers, Reply(h)
      PROVE  CeilingHolds'
  <2>1. Passed' \subseteq Passed
    BY <1>7, OnRequest DEF Inv, Reply, At, Leave, Throw, GoTo, Passed, Processing, TypeOK
  <2> QED
    BY <1>0, <2>1, FewerPass
<1>8. ASSUME NEW h \in Handlers, Fail(h)
      PROVE  CeilingHolds'
  <2>1. Passed' \subseteq Passed
    BY <1>8, OnRequest DEF Inv, Fail, At, Leave, StillProcessing, Passed, Processing, TypeOK
  <2> QED
    BY <1>0, <2>1, FewerPass
<1>9. ASSUME NEW h \in Handlers, Crash(h)
      PROVE  CeilingHolds'
  <2>1. Passed' \subseteq Passed
    BY <1>9, OnRequest DEF Inv, Crash, Fault, Leave, Passed, Processing, TypeOK
  <2> QED
    BY <1>0, <2>1, FewerPass
<1>10. ASSUME NEW c \in Conversations, Delete(c)
      PROVE  CeilingHolds'
  <2>1. Passed' \subseteq Passed
    BY <1>10, OnRequest DEF Inv, Delete, handlerVars, Passed, Processing, TypeOK
  <2> QED
    BY <1>0, <2>1, FewerPass
<1>11. CASE UNCHANGED vars
  BY <1>0, <1>11 DEF CeilingHolds, Passed, Processing, vars
<1> QED
  BY <1>1, <1>2, <1>3, <1>4, <1>5, <1>6, <1>7, <1>8, <1>9, <1>10, <1>11
     DEF Next, Serve

LEMMA InvStep == Inv /\ [Next]_vars => Inv'
<1> SUFFICES ASSUME Inv, [Next]_vars PROVE Inv'
  OBVIOUS
<1>1. TypeOK'
  BY TypeStep DEF Inv
<1> QED
  BY <1>1, RowStep, SpentStep, AnswerStep, CeilingStep DEF Inv

\* The invariant holds in every reachable state.
THEOREM InvHolds == Spec => []Inv
BY InitInv, InvStep, PTL DEF Spec

\* Every reachable state of the rows and the handlers is well typed.
THEOREM TypeCorrect == Spec => []TypeOK
<1>1. Inv => TypeOK
  BY DEF Inv
<1> QED
  BY <1>1, InvHolds, PTL

\* The provider is asked at most once for a request, and for one of the
\* requests that share an id, under any interleaving of repeated sends,
\* deletions and crashes: a second one is asked about only in another
\* conversation, after that of the first is deleted.
THEOREM ProviderIsAskedOnce == Spec => []SpentOnce
<1>1. Inv => SpentOnce
  BY DEF Inv
<1> QED
  BY <1>1, InvHolds, PTL

\* An answer and the status that tells of it are never apart.
THEOREM AnswersAgree == Spec => []AnswersMatchStatus
<1>1. Inv => AnswersMatchStatus
  BY DEF Inv
<1> QED
  BY <1>1, InvHolds, PTL

\* Inserting first and counting afterwards keeps any number of handlers
\* under the ceiling.
THEOREM CeilingIsKept == Spec => []CeilingHolds
<1>1. Inv => CeilingHolds
  BY DEF Inv
<1> QED
  BY <1>1, InvHolds, PTL

\* Without a death or a lost commit no user's slot is left taken.
THEOREM SlotsAreReleased == Spec => []SlotsHaveHandlers
<1>1. Inv => SlotsHaveHandlers
  BY DEF Inv
<1> QED
  BY <1>1, InvHolds, PTL

-----------------------------------------------------------------------------
(* The contract.                                                           *)

\* What the contract sees of the rows.
StageNow == [r \in Requests |-> IF Gone(r) THEN "GONE" ELSE status[r]]
AskedNow == { r \in Requests : spent[r] > 0 }

LEMMA InsertTakes ==
    ASSUME Inv, NEW h \in Handlers, Insert(h)
    PROVE  Contract!Next \/ UNCHANGED Contract!contractVars
<1>1. PICK r \in Requests : r = on[h]
  BY OnRequest DEF Insert, At, Inv
<1>2. UNCHANGED <<live, spent>>
  BY DEF Insert
<1>3. CASE UNCHANGED status
  BY <1>2, <1>3 DEF Contract!contractVars, Gone
<1>4. CASE Insertable(r) /\ status' = [status EXCEPT ![r] = "PROCESSING"]
  <2>1. ~ Gone(r) /\ status[r] = "NONE" /\ spent[r] = 0
    BY <1>4 DEF Insertable, Fresh, SameKey, Gone, Inv, SpentIsOnRecord
  <2>2. StageNow' = [StageNow EXCEPT ![r] = "PROCESSING"]
    BY <1>2, <1>4, <2>1 DEF StageNow, Gone, Inv, TypeOK
  <2>3. AskedNow' = AskedNow /\ r \notin AskedNow
    BY <1>2, <2>1 DEF AskedNow
  <2>4. \A q \in Requests : UserOf[q] = UserOf[r] => StageNow[q] # "PROCESSING"
    BY <1>4 DEF Insertable, StageNow
  <2>5. \A q \in Requests :
          UserOf[q] = UserOf[r] /\ IdOf[q] = IdOf[r] => StageNow[q] \in { "NONE", "GONE" }
    BY <1>4 DEF Insertable, Fresh, SameKey, StageNow
  <2>6. Contract!Take(r)
    BY <2>1, <2>2, <2>3, <2>4, <2>5 DEF Contract!Take, StageNow, AskedNow
  <2> QED
    BY <2>6 DEF Contract!Next
<1> QED
  BY <1>1, <1>3, <1>4 DEF Insert

LEMMA SearchAsks ==
    ASSUME Inv, NEW h \in Handlers, Search(h)
    PROVE  Contract!Next \/ UNCHANGED Contract!contractVars
<1>1. PICK r \in Requests : r = on[h]
  BY OnRequest DEF Search, At, Inv
<1>2. UNCHANGED <<live, status>>
  BY DEF Search
<1>3. CASE UNCHANGED spent
  BY <1>2, <1>3 DEF Contract!contractVars, Gone
<1>4. CASE spent' = [spent EXCEPT ![r] = @ + 1]
  <2>1. spent[r] = 0 /\ (status[r] = "PROCESSING" \/ Gone(r))
    BY <1>1 DEF Search, At, Inv, SpentIsOnRecord, RowsAreKept
  <2>2. AskedNow' = AskedNow \cup { r } /\ r \notin AskedNow
    BY <1>4, <2>1 DEF AskedNow, Inv, TypeOK
  <2>3. StageNow' = StageNow /\ StageNow[r] \in { "PROCESSING", "GONE" }
    BY <1>2, <2>1 DEF StageNow, Gone
  <2>4. Contract!Ask(r)
    BY <2>2, <2>3 DEF Contract!Ask, StageNow, AskedNow
  <2> QED
    BY <2>4 DEF Contract!Next
<1> QED
  BY <1>1, <1>3, <1>4 DEF Search

\* Nothing but a PROCESSING row is ever overwritten: completeGeneration, which
\* does not look at the status, finds no other.
LEMMA OutcomeEnds ==
    ASSUME Inv, NEW r \in Requests, NEW outcome \in Answered \cup { "FAILED" },
           status[r] = "PROCESSING", status' = [status EXCEPT ![r] = outcome],
           UNCHANGED <<live, spent>>
    PROVE  Contract!Next
<1>1. ~ Gone(r)
  BY DEF Inv, RowsAreKept
<1>2. StageNow' = [StageNow EXCEPT ![r] = outcome] /\ StageNow[r] = "PROCESSING"
  BY <1>1 DEF StageNow, Gone, Inv, TypeOK
<1>3. AskedNow' = AskedNow
  BY DEF AskedNow
<1>4. Contract!End(r, outcome)
  BY <1>2, <1>3 DEF Contract!End, StageNow, AskedNow
<1> QED
  BY <1>4 DEF Contract!Next

LEMMA CompleteEnds ==
    ASSUME Inv, NEW h \in Handlers, Complete(h) \/ Fail(h)
    PROVE  Contract!Next \/ UNCHANGED Contract!contractVars
<1>1. PICK r \in Requests : r = on[h]
  BY OnRequest DEF Complete, Fail, At, Inv
<1>2. UNCHANGED <<live, spent>>
  BY DEF Complete, Fail
<1>3. CASE UNCHANGED status
  BY <1>2, <1>3 DEF Contract!contractVars, Gone
<1>4. CASE Complete(h) /\ status' # status
  <2>1. status[r] # "NONE" /\ \E s \in Answered : status' = [status EXCEPT ![r] = s]
    BY <1>1, <1>4 DEF Complete
  <2>2. status[r] = "PROCESSING"
    BY <1>1, <1>4, <2>1 DEF Complete, At, Inv, RowsAreKept
  <2> QED
    BY <1>2, <2>1, <2>2, OutcomeEnds
<1>5. CASE Fail(h) /\ status' # status
  <2>1. status[r] = "PROCESSING" /\ status' = [status EXCEPT ![r] = "FAILED"]
    BY <1>1, <1>5 DEF Fail, StillProcessing
  <2> QED
    BY <1>2, <2>1, OutcomeEnds
<1> QED
  BY <1>3, <1>4, <1>5

LEMMA DeleteDeletes ==
    ASSUME Inv, NEW c \in Conversations, Delete(c)
    PROVE  Contract!Next
<1> DEFINE rs == { r \in Requests : ConversationOf[r] = c }
<1>1. StageNow' = [r \in Requests |-> IF r \in rs THEN "GONE" ELSE StageNow[r]]
  BY DEF Delete, StageNow, Gone
<1>2. AskedNow' = AskedNow
  BY DEF Delete, AskedNow
<1>3. Contract!Delete(rs)
  BY <1>1, <1>2 DEF Contract!Delete, StageNow, AskedNow
<1>4. \E qs \in SUBSET Requests : Contract!Delete(qs)
  BY <1>3
<1> QED
  BY <1>4 DEF Contract!Next

\* Every step of the handlers is one of the contract, or none.
LEMMA StepKeepsContract ==
    ASSUME Inv, [Next]_vars
    PROVE  Contract!Next \/ UNCHANGED Contract!contractVars
<1>1. ASSUME UNCHANGED <<live, status, spent>>
      PROVE  UNCHANGED Contract!contractVars
  BY <1>1 DEF Contract!contractVars, Gone
<1>2. ASSUME NEW h \in Handlers,
             \/ \E r \in Requests : Begin(h, r)
             \/ Check(h) \/ CallEnds(h) \/ Reply(h) \/ Crash(h)
      PROVE  UNCHANGED <<live, status, spent>>
  BY <1>2 DEF Begin, Check, CallEnds, Reply, Crash
<1>3. CASE UNCHANGED vars
  BY <1>1, <1>3 DEF vars
<1> QED
  BY <1>1, <1>2, <1>3, InsertTakes, SearchAsks, CompleteEnds, DeleteDeletes DEF Next, Serve

\* The handlers implement the contract of a request: one outcome, one call of
\* the provider, one at a time for each user, and one that stands for each id.
THEOREM Implements == Spec => KeepsContract
<1>1. Init => Contract!Init
  BY GenerationAssumption DEF Init, Gone, Contract!Init
<1>2. Inv /\ [Next]_vars => [Contract!Next]_(Contract!contractVars)
  BY StepKeepsContract
<1> QED
  BY <1>1, <1>2, InvHolds, PTL DEF Spec, KeepsContract, Contract!Spec
=============================================================================
