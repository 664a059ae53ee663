----------------------------- MODULE PhoneProofs -----------------------------
(***************************************************************************)
(* Proofs about PhoneLinking for any users, phones, attempts and requests. *)
(***************************************************************************)
EXTENDS PhoneLinking, TLAPS

\* A request between BeginStart and CommitStart has the user's row, and its
\* attempt does not exist yet.
StartsHold ==
    \A r \in Requests :
        step[r] \in { "START", "CREATE" } => lock[OwnerOf[on[r]]] = r /\ status[on[r]] = "NONE"

\* A start about to commit has cancelled every pending attempt of its user.
CreatesHaveAll ==
    \A r \in Requests, b \in Attempts :
        step[r] = "CREATE" /\ OwnerOf[b] = OwnerOf[on[r]] /\ status[b] = "PENDING" => b \in held[r]

\* What it has cancelled is its user's.
HeldIsOwn ==
    \A r \in Requests : \A b \in held[r] : step[r] = "CREATE" /\ OwnerOf[b] = OwnerOf[on[r]]

\* What it has cancelled is still pending to everybody else.
HeldIsPending == \A r \in Requests : \A b \in held[r] : status[b] = "PENDING"

\* A code is checked for an attempt that exists.
ChecksExist == \A r \in Requests : step[r] \in { "SEND", "CHECK" } => status[on[r]] # "NONE"

Proven(a) == <<OwnerOf[a], PhoneOf[a]>> \in proven

\* What the provider approved is remembered by the attempt and by the
\* requests that go on to link it.
ApprovedIsProven ==
    /\ \A a \in Attempts : status[a] \in { "PROVIDER_VERIFIED", "LINKED" } => Proven(a)
    /\ \A r \in Requests : step[r] \in { "RECONCILE", "SET", "COMPLETE" } => Proven(on[r])

\* The inductive invariant.
Inv ==
    /\ TypeOK
    /\ StartsHold /\ CreatesHaveAll /\ HeldIsOwn /\ OnePending
    /\ HeldIsPending /\ ChecksExist
    /\ ApprovedIsProven /\ LinkedWasProven
    /\ OneOwner /\ LinkedIsKept

LEMMA InitInv == Init => Inv
BY PhoneAssumption
   DEF Init, Inv, TypeOK, AttemptStatus, Steps, StartsHold, CreatesHaveAll, HeldIsOwn, OnePending,
       HeldIsPending, ChecksExist, Proven, ApprovedIsProven, LinkedWasProven, OneOwner, LinkedIsKept

\* Where a request is.
LEMMA OnAttempt ==
    ASSUME TypeOK, NEW r \in Requests, step[r] # "IDLE"
    PROVE  /\ on[r] \in Attempts
           /\ OwnerOf[on[r]] \in Users
           /\ PhoneOf[on[r]] \in Phones
BY PhoneAssumption DEF TypeOK

-----------------------------------------------------------------------------
LEMMA TypeStep == TypeOK /\ [Next]_vars => TypeOK'
<1> SUFFICES ASSUME TypeOK, [Next]_vars PROVE TypeOK'
  OBVIOUS
<1> USE DEF TypeOK, AttemptStatus, Steps
<1>1. ASSUME NEW r \in Requests, NEW a \in Attempts, BeginStart(r, a)
      PROVE  TypeOK'
  BY <1>1, OnAttempt, PhoneAssumption DEF BeginStart, providerVars
<1>2. ASSUME NEW r \in Requests, NEW a \in Attempts, BeginVerify(r, a)
      PROVE  TypeOK'
  BY <1>2, OnAttempt, PhoneAssumption DEF BeginVerify, userVars, providerVars
<1>3. ASSUME NEW a \in Attempts, ExpireCurrent(a)
      PROVE  TypeOK'
  BY <1>3, OnAttempt, PhoneAssumption DEF ExpireCurrent, SetIfPending, userVars, providerVars, requestVars
<1>4. ASSUME NEW r \in Requests, CancelOld(r)
      PROVE  TypeOK'
  <2>1. { b \in AttemptsOf(OwnerOf[on[r]]) : status[b] = "PENDING" } \in SUBSET Attempts
    BY DEF AttemptsOf
  <2> QED
    BY <1>4, <2>1 DEF CancelOld, At, userVars, providerVars
<1>5. ASSUME NEW r \in Requests, CommitStart(r)
      PROVE  TypeOK'
  BY <1>5, OnAttempt, PhoneAssumption DEF CommitStart, At, providerVars
<1>6. ASSUME NEW r \in Requests, Sent(r)
      PROVE  TypeOK'
  BY <1>6, OnAttempt, PhoneAssumption DEF Sent, At, Finish, userVars, providerVars
<1>7. ASSUME NEW r \in Requests, SendFails(r)
      PROVE  TypeOK'
  BY <1>7, OnAttempt, PhoneAssumption DEF SendFails, At, SetIfPending, Finish, userVars, providerVars
<1>8. ASSUME NEW r \in Requests, Approve(r)
      PROVE  TypeOK'
  BY <1>8, OnAttempt, PhoneAssumption DEF Approve, At, SetIfPending, GoTo, Finish, userVars
<1>9. ASSUME NEW r \in Requests, Invalid(r)
      PROVE  TypeOK'
  BY <1>9, OnAttempt, PhoneAssumption DEF Invalid, At, Finish, userVars, providerVars
<1>10. ASSUME NEW r \in Requests, ProviderExpired(r)
      PROVE  TypeOK'
  BY <1>10, OnAttempt, PhoneAssumption DEF ProviderExpired, At, SetIfPending, Finish, userVars, providerVars
<1>11. ASSUME NEW r \in Requests, Reconcile(r)
      PROVE  TypeOK'
  BY <1>11, OnAttempt, PhoneAssumption DEF Reconcile, At, GoTo, Finish, userVars, providerVars
<1>12. ASSUME NEW r \in Requests, SetIdentity(r)
      PROVE  TypeOK'
  BY <1>12, OnAttempt, PhoneAssumption DEF SetIdentity, At, GoTo, Finish, userVars
<1>13. ASSUME NEW r \in Requests, Complete(r)
      PROVE  TypeOK'
  BY <1>13, OnAttempt, PhoneAssumption DEF Complete, At, Finish, Linkable, providerVars
<1>14. ASSUME NEW r \in Requests, Fail(r)
      PROVE  TypeOK'
  BY <1>14, OnAttempt, PhoneAssumption DEF Fail, Finish, providerVars
<1>15. ASSUME NEW u \in Users, Cancel(u)
      PROVE  TypeOK'
  BY <1>15, OnAttempt, PhoneAssumption DEF Cancel, userVars, providerVars, requestVars
<1>16. ASSUME NEW u \in Users, Block(u)
      PROVE  TypeOK'
  BY <1>16, OnAttempt, PhoneAssumption DEF Block, providerVars, requestVars
<1>17. CASE UNCHANGED vars
  BY <1>17 DEF vars
<1> QED
  BY <1>1, <1>2, <1>3, <1>4, <1>5, <1>6, <1>7, <1>8, <1>9, <1>10, <1>11, <1>12, <1>13, <1>14, <1>15, <1>16, <1>17
     DEF Next, Ask, Serve, Starting, Checking, Linking

LEMMA StartStep == Inv /\ [Next]_vars => (StartsHold /\ CreatesHaveAll /\ HeldIsOwn /\ OnePending)'
<1> SUFFICES ASSUME Inv, [Next]_vars PROVE (StartsHold /\ CreatesHaveAll /\ HeldIsOwn /\ OnePending)'
  OBVIOUS
<1> USE DEF Inv, TypeOK, StartsHold, CreatesHaveAll, HeldIsOwn, OnePending
<1>1. ASSUME NEW r \in Requests, NEW a \in Attempts, BeginStart(r, a)
      PROVE  (StartsHold /\ CreatesHaveAll /\ HeldIsOwn /\ OnePending)'
  <2>1. lock[OwnerOf[a]] = NoRequest /\ status[a] = "NONE" /\ step[r] = "IDLE"
    BY <1>1 DEF BeginStart, Free
  <2>2. \A q \in Requests : step[q] \in { "START", "CREATE" } => OwnerOf[on[q]] # OwnerOf[a]
    BY <2>1, PhoneAssumption
  <2>3. StartsHold'
    <3> SUFFICES ASSUME NEW q \in Requests, step'[q] \in { "START", "CREATE" }
                 PROVE  lock'[OwnerOf[on'[q]]] = q /\ status'[on'[q]] = "NONE"
      OBVIOUS
    <3>1. CASE q = r
      BY <1>1, <2>1, <3>1, PhoneAssumption DEF BeginStart
    <3>2. CASE q # r
      <4>1. step'[q] = step[q] /\ on'[q] = on[q]
        BY <1>1, <3>2 DEF BeginStart
      <4>2. OwnerOf[on[q]] \in Users
        BY <4>1, OnAttempt
      <4> QED
        BY <1>1, <2>2, <4>1, <4>2 DEF BeginStart
    <3> QED
      BY <3>1, <3>2
  <2>4. CreatesHaveAll' /\ HeldIsOwn' /\ OnePending'
    BY <1>1, <2>1 DEF BeginStart
  <2> QED
    BY <2>3, <2>4
<1>2. ASSUME NEW r \in Requests, NEW a \in Attempts, BeginVerify(r, a)
      PROVE  (StartsHold /\ CreatesHaveAll /\ HeldIsOwn /\ OnePending)'
  <2>1. step[r] = "IDLE" /\ step'[r] \notin { "START", "CREATE" } /\ held' = held /\ lock' = lock
    BY <1>2 DEF BeginVerify, userVars
  <2>2. \A q \in Requests : q # r => step'[q] = step[q] /\ on'[q] = on[q]
    BY <1>2 DEF BeginVerify
  <2>3. \A b \in Attempts :
            /\ status'[b] = "PENDING" => status[b] = "PENDING"
            /\ status[b] = "NONE" => status'[b] = "NONE"
    BY <1>2 DEF BeginVerify
  <2>4. \A q \in Requests : step'[q] \in { "START", "CREATE" } =>
            q # r /\ step'[q] = step[q] /\ on'[q] = on[q] /\ on[q] \in Attempts
    BY <2>1, <2>2, OnAttempt
  <2>5. StartsHold'
    BY <2>1, <2>3, <2>4
  <2>6. CreatesHaveAll'
    BY <2>1, <2>3, <2>4
  <2>7. HeldIsOwn'
    BY <2>1, <2>2
  <2>8. OnePending'
    BY <2>3
  <2> QED
    BY <2>5, <2>6, <2>7, <2>8
<1>3. ASSUME NEW a \in Attempts, ExpireCurrent(a)
      PROVE  (StartsHold /\ CreatesHaveAll /\ HeldIsOwn /\ OnePending)'
  BY <1>3, OnAttempt, PhoneAssumption DEF ExpireCurrent, SetIfPending, userVars, providerVars, requestVars
<1>4. ASSUME NEW r \in Requests, CancelOld(r)
      PROVE  (StartsHold /\ CreatesHaveAll /\ HeldIsOwn /\ OnePending)'
  <2>1. StartsHold' /\ OnePending'
    BY <1>4 DEF CancelOld, At, userVars
  <2>2. held'[r] = { b \in Attempts : OwnerOf[b] = OwnerOf[on[r]] /\ status[b] = "PENDING" }
    BY <1>4 DEF CancelOld, AttemptsOf
  <2>3. \A q \in Requests : q # r => step'[q] = step[q] /\ held'[q] = held[q]
    BY <1>4 DEF CancelOld
  <2>4. CreatesHaveAll' /\ HeldIsOwn'
    BY <1>4, <2>2, <2>3 DEF CancelOld, At
  <2> QED
    BY <2>1, <2>4
<1>5. ASSUME NEW r \in Requests, CommitStart(r)
      PROVE  (StartsHold /\ CreatesHaveAll /\ HeldIsOwn /\ OnePending)'
  <2> DEFINE u == OwnerOf[on[r]]
  <2>1. on[r] \in Attempts /\ u \in Users /\ step[r] = "CREATE"
    BY <1>5, OnAttempt DEF CommitStart, At
  <2>2. lock[u] = r
    BY <2>1
  <2>3. \A q \in Requests : q # r =>
            /\ step'[q] = step[q] /\ on'[q] = on[q] /\ held'[q] = held[q]
            /\ step[q] \in { "START", "CREATE" } => OwnerOf[on[q]] # u
    BY <1>5, <2>2 DEF CommitStart
  <2>4. \A b \in Attempts : status'[b] = "PENDING" =>
            b = on[r] \/ (status[b] = "PENDING" /\ b \notin held[r] /\ OwnerOf[b] # u)
    BY <1>5, <2>1 DEF CommitStart
  <2>5. step'[r] = "SEND"
    BY <1>5 DEF CommitStart
  <2>6. StartsHold'
    <3> SUFFICES ASSUME NEW q \in Requests, step'[q] \in { "START", "CREATE" }
                 PROVE  lock'[OwnerOf[on'[q]]] = q /\ status'[on'[q]] = "NONE"
      OBVIOUS
    <3>1. q # r /\ step[q] \in { "START", "CREATE" } /\ on'[q] = on[q] /\ OwnerOf[on[q]] # u
      BY <2>3, <2>5
    <3>2. on[q] \in Attempts /\ OwnerOf[on[q]] \in Users
      BY <3>1, OnAttempt
    <3>3. lock'[OwnerOf[on[q]]] = q
      BY <1>5, <3>1, <3>2 DEF CommitStart
    <3>4. status'[on[q]] # "PENDING" /\ status[on[q]] = "NONE"
      BY <2>4, <3>1, <3>2
    <3>5. on[q] \notin held[r]
      BY <3>1
    <3> QED
      BY <1>5, <3>1, <3>2, <3>3, <3>4, <3>5 DEF CommitStart
  <2>7. CreatesHaveAll' /\ HeldIsOwn'
    BY <1>5, <2>3, <2>4, <2>5 DEF CommitStart
  <2>8. OnePending'
    BY <2>4
  <2> QED
    BY <2>6, <2>7, <2>8
<1>6. ASSUME NEW r \in Requests, Sent(r)
      PROVE  (StartsHold /\ CreatesHaveAll /\ HeldIsOwn /\ OnePending)'
  BY <1>6, OnAttempt, PhoneAssumption DEF Sent, At, Finish, userVars, providerVars
<1>7. ASSUME NEW r \in Requests, SendFails(r)
      PROVE  (StartsHold /\ CreatesHaveAll /\ HeldIsOwn /\ OnePending)'
  BY <1>7, OnAttempt, PhoneAssumption DEF SendFails, At, SetIfPending, Finish, userVars, providerVars
<1>8. ASSUME NEW r \in Requests, Approve(r)
      PROVE  (StartsHold /\ CreatesHaveAll /\ HeldIsOwn /\ OnePending)'
  BY <1>8, OnAttempt, PhoneAssumption DEF Approve, At, SetIfPending, GoTo, Finish, userVars
<1>9. ASSUME NEW r \in Requests, Invalid(r)
      PROVE  (StartsHold /\ CreatesHaveAll /\ HeldIsOwn /\ OnePending)'
  BY <1>9, OnAttempt, PhoneAssumption DEF Invalid, At, Finish, userVars, providerVars
<1>10. ASSUME NEW r \in Requests, ProviderExpired(r)
      PROVE  (StartsHold /\ CreatesHaveAll /\ HeldIsOwn /\ OnePending)'
  BY <1>10, OnAttempt, PhoneAssumption DEF ProviderExpired, At, SetIfPending, Finish, userVars, providerVars
<1>11. ASSUME NEW r \in Requests, Reconcile(r)
      PROVE  (StartsHold /\ CreatesHaveAll /\ HeldIsOwn /\ OnePending)'
  BY <1>11, OnAttempt, PhoneAssumption DEF Reconcile, At, GoTo, Finish, userVars, providerVars
<1>12. ASSUME NEW r \in Requests, SetIdentity(r)
      PROVE  (StartsHold /\ CreatesHaveAll /\ HeldIsOwn /\ OnePending)'
  BY <1>12, OnAttempt, PhoneAssumption DEF SetIdentity, At, GoTo, Finish, userVars
<1>13. ASSUME NEW r \in Requests, Complete(r)
      PROVE  (StartsHold /\ CreatesHaveAll /\ HeldIsOwn /\ OnePending)'
  BY <1>13, OnAttempt, PhoneAssumption DEF Complete, At, Finish, Linkable, providerVars
<1>14. ASSUME NEW r \in Requests, Fail(r)
      PROVE  (StartsHold /\ CreatesHaveAll /\ HeldIsOwn /\ OnePending)'
  BY <1>14, OnAttempt, PhoneAssumption DEF Fail, Finish, providerVars
<1>15. ASSUME NEW u \in Users, Cancel(u)
      PROVE  (StartsHold /\ CreatesHaveAll /\ HeldIsOwn /\ OnePending)'
  BY <1>15, OnAttempt, PhoneAssumption DEF Cancel, userVars, providerVars, requestVars
<1>16. ASSUME NEW u \in Users, Block(u)
      PROVE  (StartsHold /\ CreatesHaveAll /\ HeldIsOwn /\ OnePending)'
  BY <1>16, OnAttempt, PhoneAssumption DEF Block, providerVars, requestVars
<1>17. CASE UNCHANGED vars
  BY <1>17 DEF vars
<1> QED
  BY <1>1, <1>2, <1>3, <1>4, <1>5, <1>6, <1>7, <1>8, <1>9, <1>10, <1>11, <1>12, <1>13, <1>14, <1>15, <1>16, <1>17
     DEF Next, Ask, Serve, Starting, Checking, Linking

\* Nobody writes an attempt that an open start has cancelled: guarded writes
\* wait for its row, and the others for its user's.
LEMMA HeldStep == Inv /\ [Next]_vars => (HeldIsPending /\ ChecksExist)'
<1> SUFFICES ASSUME Inv, [Next]_vars PROVE (HeldIsPending /\ ChecksExist)'
  OBVIOUS
<1> USE DEF Inv, TypeOK, StartsHold, HeldIsOwn, HeldIsPending, ChecksExist
<1>1. ASSUME NEW r \in Requests, NEW a \in Attempts, BeginStart(r, a)
      PROVE  (HeldIsPending /\ ChecksExist)'
  BY <1>1, OnAttempt, PhoneAssumption DEF BeginStart, providerVars
<1>2. ASSUME NEW r \in Requests, NEW a \in Attempts, BeginVerify(r, a)
      PROVE  (HeldIsPending /\ ChecksExist)'
  <2>1. \A q \in Requests : \A b \in held[q] : lock[OwnerOf[b]] = q
    OBVIOUS
  <2>2. \A q \in Requests : a \notin held[q]
    BY <1>2, <2>1, PhoneAssumption DEF BeginVerify, Free
  <2>3. HeldIsPending'
    BY <1>2, <2>2 DEF BeginVerify
  <2>4. ChecksExist'
    BY <1>2 DEF BeginVerify
  <2> QED
    BY <2>3, <2>4
<1>3. ASSUME NEW a \in Attempts, ExpireCurrent(a)
      PROVE  (HeldIsPending /\ ChecksExist)'
  BY <1>3, OnAttempt, PhoneAssumption DEF ExpireCurrent, SetIfPending, RowFree, userVars, providerVars, requestVars
<1>4. ASSUME NEW r \in Requests, CancelOld(r)
      PROVE  (HeldIsPending /\ ChecksExist)'
  BY <1>4, OnAttempt, PhoneAssumption DEF CancelOld, At, AttemptsOf, userVars, providerVars
<1>5. ASSUME NEW r \in Requests, CommitStart(r)
      PROVE  (HeldIsPending /\ ChecksExist)'
  <2>1. on[r] \in Attempts /\ step[r] = "CREATE" /\ status[on[r]] = "NONE"
    BY <1>5, OnAttempt DEF CommitStart, At
  <2>2. \A q \in Requests \ {r} : \A b \in held[q] : b \notin held[r] /\ b # on[r]
    BY <2>1
  <2>3. HeldIsPending'
    BY <1>5, <2>2 DEF CommitStart
  <2>4. \A b \in Attempts : status[b] # "NONE" => status'[b] # "NONE"
    BY <1>5 DEF CommitStart
  <2>5. status'[on[r]] = "PENDING"
    BY <1>5, <2>1 DEF CommitStart
  <2>6. ChecksExist'
    <3> SUFFICES ASSUME NEW q \in Requests, step'[q] \in { "SEND", "CHECK" }
                 PROVE  status'[on'[q]] # "NONE"
      OBVIOUS
    <3>1. CASE q = r
      BY <1>5, <2>5, <3>1 DEF CommitStart
    <3>2. CASE q # r
      BY <1>5, <2>4, <3>2, OnAttempt DEF CommitStart
    <3> QED
      BY <3>1, <3>2
  <2> QED
    BY <2>3, <2>6
<1>6. ASSUME NEW r \in Requests, Sent(r)
      PROVE  (HeldIsPending /\ ChecksExist)'
  BY <1>6, OnAttempt, PhoneAssumption DEF Sent, At, Finish, userVars, providerVars
<1>7. ASSUME NEW r \in Requests, SendFails(r)
      PROVE  (HeldIsPending /\ ChecksExist)'
  BY <1>7, OnAttempt, PhoneAssumption DEF SendFails, At, SetIfPending, RowFree, Finish, userVars, providerVars
<1>8. ASSUME NEW r \in Requests, Approve(r)
      PROVE  (HeldIsPending /\ ChecksExist)'
  BY <1>8, OnAttempt, PhoneAssumption DEF Approve, At, SetIfPending, RowFree, GoTo, Finish, userVars
<1>9. ASSUME NEW r \in Requests, Invalid(r)
      PROVE  (HeldIsPending /\ ChecksExist)'
  BY <1>9, OnAttempt, PhoneAssumption DEF Invalid, At, Finish, userVars, providerVars
<1>10. ASSUME NEW r \in Requests, ProviderExpired(r)
      PROVE  (HeldIsPending /\ ChecksExist)'
  BY <1>10, OnAttempt, PhoneAssumption DEF ProviderExpired, At, SetIfPending, RowFree, Finish, userVars, providerVars
<1>11. ASSUME NEW r \in Requests, Reconcile(r)
      PROVE  (HeldIsPending /\ ChecksExist)'
  BY <1>11, OnAttempt, PhoneAssumption DEF Reconcile, At, GoTo, Finish, userVars, providerVars
<1>12. ASSUME NEW r \in Requests, SetIdentity(r)
      PROVE  (HeldIsPending /\ ChecksExist)'
  BY <1>12, OnAttempt, PhoneAssumption DEF SetIdentity, At, GoTo, Finish, userVars
<1>13. ASSUME NEW r \in Requests, Complete(r)
      PROVE  (HeldIsPending /\ ChecksExist)'
  BY <1>13, OnAttempt, PhoneAssumption DEF Complete, At, Finish, Linkable, providerVars
<1>14. ASSUME NEW r \in Requests, Fail(r)
      PROVE  (HeldIsPending /\ ChecksExist)'
  BY <1>14, OnAttempt, PhoneAssumption DEF Fail, Finish, providerVars
<1>15. ASSUME NEW u \in Users, Cancel(u)
      PROVE  (HeldIsPending /\ ChecksExist)'
  <2>1. \A q \in Requests : \A b \in held[q] : lock[OwnerOf[b]] = q
    OBVIOUS
  <2>2. \A q \in Requests : \A b \in held[q] : OwnerOf[b] # u
    BY <1>15, <2>1, PhoneAssumption DEF Cancel, Free
  <2> QED
    BY <1>15, <2>2, OnAttempt DEF Cancel, requestVars
<1>16. ASSUME NEW u \in Users, Block(u)
      PROVE  (HeldIsPending /\ ChecksExist)'
  BY <1>16, OnAttempt, PhoneAssumption DEF Block, providerVars, requestVars
<1>17. CASE UNCHANGED vars
  BY <1>17 DEF vars
<1> QED
  BY <1>1, <1>2, <1>3, <1>4, <1>5, <1>6, <1>7, <1>8, <1>9, <1>10, <1>11, <1>12, <1>13, <1>14, <1>15, <1>16, <1>17
     DEF Next, Ask, Serve, Starting, Checking, Linking

LEMMA ProvenStep == Inv /\ [Next]_vars => (ApprovedIsProven /\ LinkedWasProven)'
<1> SUFFICES ASSUME Inv, [Next]_vars PROVE (ApprovedIsProven /\ LinkedWasProven)'
  OBVIOUS
<1> USE DEF Inv, TypeOK, ApprovedIsProven, LinkedWasProven, Proven
<1>1. ASSUME NEW r \in Requests, NEW a \in Attempts, BeginStart(r, a)
      PROVE  (ApprovedIsProven /\ LinkedWasProven)'
  BY <1>1, OnAttempt, PhoneAssumption DEF BeginStart, providerVars
<1>2. ASSUME NEW r \in Requests, NEW a \in Attempts, BeginVerify(r, a)
      PROVE  (ApprovedIsProven /\ LinkedWasProven)'
  BY <1>2, OnAttempt, PhoneAssumption DEF BeginVerify, userVars, providerVars
<1>3. ASSUME NEW a \in Attempts, ExpireCurrent(a)
      PROVE  (ApprovedIsProven /\ LinkedWasProven)'
  BY <1>3, OnAttempt, PhoneAssumption DEF ExpireCurrent, SetIfPending, userVars, providerVars, requestVars
<1>4. ASSUME NEW r \in Requests, CancelOld(r)
      PROVE  (ApprovedIsProven /\ LinkedWasProven)'
  BY <1>4, OnAttempt, PhoneAssumption DEF CancelOld, At, userVars, providerVars
<1>5. ASSUME NEW r \in Requests, CommitStart(r)
      PROVE  (ApprovedIsProven /\ LinkedWasProven)'
  BY <1>5, OnAttempt, PhoneAssumption DEF CommitStart, At, providerVars
<1>6. ASSUME NEW r \in Requests, Sent(r)
      PROVE  (ApprovedIsProven /\ LinkedWasProven)'
  BY <1>6, OnAttempt, PhoneAssumption DEF Sent, At, Finish, userVars, providerVars
<1>7. ASSUME NEW r \in Requests, SendFails(r)
      PROVE  (ApprovedIsProven /\ LinkedWasProven)'
  BY <1>7, OnAttempt, PhoneAssumption DEF SendFails, At, SetIfPending, Finish, userVars, providerVars
<1>8. ASSUME NEW r \in Requests, Approve(r)
      PROVE  (ApprovedIsProven /\ LinkedWasProven)'
  BY <1>8, OnAttempt, PhoneAssumption DEF Approve, At, SetIfPending, GoTo, Finish, userVars
<1>9. ASSUME NEW r \in Requests, Invalid(r)
      PROVE  (ApprovedIsProven /\ LinkedWasProven)'
  BY <1>9, OnAttempt, PhoneAssumption DEF Invalid, At, Finish, userVars, providerVars
<1>10. ASSUME NEW r \in Requests, ProviderExpired(r)
      PROVE  (ApprovedIsProven /\ LinkedWasProven)'
  BY <1>10, OnAttempt, PhoneAssumption DEF ProviderExpired, At, SetIfPending, Finish, userVars, providerVars
<1>11. ASSUME NEW r \in Requests, Reconcile(r)
      PROVE  (ApprovedIsProven /\ LinkedWasProven)'
  BY <1>11, OnAttempt, PhoneAssumption DEF Reconcile, At, GoTo, Finish, userVars, providerVars
<1>12. ASSUME NEW r \in Requests, SetIdentity(r)
      PROVE  (ApprovedIsProven /\ LinkedWasProven)'
  <2>1. step[r] = "SET" /\ on[r] \in Attempts /\ Proven(on[r])
    BY <1>12, OnAttempt DEF SetIdentity, At
  <2>2. UNCHANGED <<phone, status, proven>>
    BY <1>12 DEF SetIdentity, userVars
  <2>3. \/ step' = [step EXCEPT ![r] = "COMPLETE"] /\ UNCHANGED on
        \/ step' = [step EXCEPT ![r] = "IDLE"] /\ on' = [on EXCEPT ![r] = NoAttempt]
    BY <1>12 DEF SetIdentity, GoTo, Finish
  <2>4. ApprovedIsProven'
    BY <2>1, <2>2, <2>3, PhoneAssumption
  <2>5. identity' = [identity EXCEPT ![OwnerOf[on[r]]] = PhoneOf[on[r]]] \/ UNCHANGED identity
    BY <1>12 DEF SetIdentity
  <2>6. LinkedWasProven'
    BY <2>1, <2>2, <2>5, PhoneAssumption
  <2> QED
    BY <2>4, <2>6
<1>13. ASSUME NEW r \in Requests, Complete(r)
      PROVE  (ApprovedIsProven /\ LinkedWasProven)'
  <2>1. step[r] = "COMPLETE" /\ on[r] \in Attempts /\ Proven(on[r])
    BY <1>13, OnAttempt DEF Complete, At
  <2>2. proven' = proven /\ identity' = identity
    BY <1>13 DEF Complete, providerVars
  <2>3. \A a \in Attempts : status'[a] = status[a] \/ a = on[r]
    BY <1>13 DEF Complete
  <2>4. \A u \in Users : phone'[u] = phone[u] \/ (u = OwnerOf[on[r]] /\ phone'[u] = PhoneOf[on[r]])
    BY <1>13 DEF Complete
  <2>5. \A q \in Requests : step'[q] # "IDLE" => step'[q] = step[q] /\ on'[q] = on[q]
    BY <1>13 DEF Complete, Finish
  <2>6. ApprovedIsProven'
    BY <2>1, <2>2, <2>3, <2>5
  <2>7. LinkedWasProven'
    BY <2>1, <2>2, <2>4
  <2> QED
    BY <2>6, <2>7
<1>14. ASSUME NEW r \in Requests, Fail(r)
      PROVE  (ApprovedIsProven /\ LinkedWasProven)'
  BY <1>14, OnAttempt, PhoneAssumption DEF Fail, Finish, providerVars
<1>15. ASSUME NEW u \in Users, Cancel(u)
      PROVE  (ApprovedIsProven /\ LinkedWasProven)'
  BY <1>15, OnAttempt, PhoneAssumption DEF Cancel, userVars, providerVars, requestVars
<1>16. ASSUME NEW u \in Users, Block(u)
      PROVE  (ApprovedIsProven /\ LinkedWasProven)'
  BY <1>16, OnAttempt, PhoneAssumption DEF Block, providerVars, requestVars
<1>17. CASE UNCHANGED vars
  BY <1>17 DEF vars
<1> QED
  BY <1>1, <1>2, <1>3, <1>4, <1>5, <1>6, <1>7, <1>8, <1>9, <1>10, <1>11, <1>12, <1>13, <1>14, <1>15, <1>16, <1>17
     DEF Next, Ask, Serve, Starting, Checking, Linking

LEMMA LinkStep == Inv /\ [Next]_vars => (OneOwner /\ LinkedIsKept)'
<1> SUFFICES ASSUME Inv, [Next]_vars PROVE (OneOwner /\ LinkedIsKept)'
  OBVIOUS
<1> USE DEF Inv, TypeOK, OneOwner, LinkedIsKept
<1>1. ASSUME NEW r \in Requests, NEW a \in Attempts, BeginStart(r, a)
      PROVE  (OneOwner /\ LinkedIsKept)'
  BY <1>1, OnAttempt, PhoneAssumption DEF BeginStart, providerVars
<1>2. ASSUME NEW r \in Requests, NEW a \in Attempts, BeginVerify(r, a)
      PROVE  (OneOwner /\ LinkedIsKept)'
  BY <1>2, OnAttempt, PhoneAssumption DEF BeginVerify, userVars, providerVars
<1>3. ASSUME NEW a \in Attempts, ExpireCurrent(a)
      PROVE  (OneOwner /\ LinkedIsKept)'
  BY <1>3, OnAttempt, PhoneAssumption DEF ExpireCurrent, SetIfPending, userVars, providerVars, requestVars
<1>4. ASSUME NEW r \in Requests, CancelOld(r)
      PROVE  (OneOwner /\ LinkedIsKept)'
  BY <1>4, OnAttempt, PhoneAssumption DEF CancelOld, At, userVars, providerVars
<1>5. ASSUME NEW r \in Requests, CommitStart(r)
      PROVE  (OneOwner /\ LinkedIsKept)'
  BY <1>5, OnAttempt, PhoneAssumption DEF CommitStart, At, providerVars
<1>6. ASSUME NEW r \in Requests, Sent(r)
      PROVE  (OneOwner /\ LinkedIsKept)'
  BY <1>6, OnAttempt, PhoneAssumption DEF Sent, At, Finish, userVars, providerVars
<1>7. ASSUME NEW r \in Requests, SendFails(r)
      PROVE  (OneOwner /\ LinkedIsKept)'
  BY <1>7, OnAttempt, PhoneAssumption DEF SendFails, At, SetIfPending, Finish, userVars, providerVars
<1>8. ASSUME NEW r \in Requests, Approve(r)
      PROVE  (OneOwner /\ LinkedIsKept)'
  BY <1>8, OnAttempt, PhoneAssumption DEF Approve, At, SetIfPending, GoTo, Finish, userVars
<1>9. ASSUME NEW r \in Requests, Invalid(r)
      PROVE  (OneOwner /\ LinkedIsKept)'
  BY <1>9, OnAttempt, PhoneAssumption DEF Invalid, At, Finish, userVars, providerVars
<1>10. ASSUME NEW r \in Requests, ProviderExpired(r)
      PROVE  (OneOwner /\ LinkedIsKept)'
  BY <1>10, OnAttempt, PhoneAssumption DEF ProviderExpired, At, SetIfPending, Finish, userVars, providerVars
<1>11. ASSUME NEW r \in Requests, Reconcile(r)
      PROVE  (OneOwner /\ LinkedIsKept)'
  BY <1>11, OnAttempt, PhoneAssumption DEF Reconcile, At, GoTo, Finish, userVars, providerVars
<1>12. ASSUME NEW r \in Requests, SetIdentity(r)
      PROVE  (OneOwner /\ LinkedIsKept)'
  BY <1>12, OnAttempt, PhoneAssumption DEF SetIdentity, At, GoTo, Finish, userVars
<1>13. ASSUME NEW r \in Requests, Complete(r)
      PROVE  (OneOwner /\ LinkedIsKept)'
  BY <1>13, OnAttempt, PhoneAssumption DEF Complete, At, Finish, Linkable, providerVars
<1>14. ASSUME NEW r \in Requests, Fail(r)
      PROVE  (OneOwner /\ LinkedIsKept)'
  BY <1>14, OnAttempt, PhoneAssumption DEF Fail, Finish, providerVars
<1>15. ASSUME NEW u \in Users, Cancel(u)
      PROVE  (OneOwner /\ LinkedIsKept)'
  BY <1>15, OnAttempt, PhoneAssumption DEF Cancel, userVars, providerVars, requestVars
<1>16. ASSUME NEW u \in Users, Block(u)
      PROVE  (OneOwner /\ LinkedIsKept)'
  BY <1>16, OnAttempt, PhoneAssumption DEF Block, providerVars, requestVars
<1>17. CASE UNCHANGED vars
  BY <1>17 DEF vars
<1> QED
  BY <1>1, <1>2, <1>3, <1>4, <1>5, <1>6, <1>7, <1>8, <1>9, <1>10, <1>11, <1>12, <1>13, <1>14, <1>15, <1>16, <1>17
     DEF Next, Ask, Serve, Starting, Checking, Linking

-----------------------------------------------------------------------------
LEMMA InvStep == Inv /\ [Next]_vars => Inv'
<1> SUFFICES ASSUME Inv, [Next]_vars PROVE Inv'
  OBVIOUS
<1>1. TypeOK'
  BY TypeStep DEF Inv
<1> QED
  BY <1>1, StartStep, HeldStep, ProvenStep, LinkStep DEF Inv

\* The invariant holds in every reachable state.
THEOREM InvHolds == Spec => []Inv
BY InitInv, InvStep, PTL DEF Spec

\* Every reachable state of the rows and the requests is well typed.
THEOREM TypeCorrect == Spec => []TypeOK
<1>1. Inv => TypeOK
  BY DEF Inv
<1> QED
  BY <1>1, InvHolds, PTL

\* Concurrent starts leave a user one pending attempt: the user's row lock
\* is held from the check to the commit.
THEOREM StartsAreSerial == Spec => []OnePending
<1>1. Inv => OnePending
  BY DEF Inv
<1> QED
  BY <1>1, InvHolds, PTL

\* A phone is one user's, whatever the authentication service allows.
THEOREM PhonesHaveOneOwner == Spec => []OneOwner
<1>1. Inv => OneOwner
  BY DEF Inv
<1> QED
  BY <1>1, InvHolds, PTL

\* No account and no identity has a phone the provider has not approved for
\* that user.
THEOREM PhonesAreProven == Spec => []LinkedWasProven
<1>1. Inv => LinkedWasProven
  BY DEF Inv
<1> QED
  BY <1>1, InvHolds, PTL

\* A linked phone is not replaced, even when two approved attempts race.
THEOREM LinksAreKept == Spec => []LinkedIsKept
<1>1. Inv => LinkedIsKept
  BY DEF Inv
<1> QED
  BY <1>1, InvHolds, PTL
-----------------------------------------------------------------------------
(* The contract.                                                           *)

\* A guarded write of an end closes the attempt if it is pending.
LEMMA GuardedClose ==
    ASSUME Inv, NEW a \in Attempts, NEW s \in { "EXPIRED", "FAILED" }, SetIfPending(a, s),
           UNCHANGED <<phone, identity, proven>>
    PROVE  Contract!Next
<1> DEFINE as == { b \in { a } : status[b] = "PENDING" }
<1>1. [b \in Attempts |-> Stage(status[b])]'
        = [b \in Attempts |-> IF b \in as THEN "CLOSED" ELSE Stage(status[b])]
  BY DEF SetIfPending, Stage, Inv, TypeOK
<1>2. Contract!Close(as)
  BY <1>1 DEF Contract!Close, Stage
<1>3. as \in SUBSET Attempts
  OBVIOUS
<1>4. \E bs \in SUBSET Attempts : Contract!Close(bs)
  BY <1>2, <1>3
<1> QED
  BY <1>4 DEF Contract!Next

\* A commit of a start is a start: it closes the pending attempts it has
\* cancelled, and there are no others.
LEMMA CommitStarts ==
    ASSUME Inv, NEW r \in Requests, CommitStart(r)
    PROVE  Contract!Next
<1>1. PICK a \in Attempts : a = on[r]
  BY OnAttempt DEF CommitStart, At, Inv
<1>2. step[r] = "CREATE" /\ status[a] = "NONE"
  BY <1>1 DEF CommitStart, At, Inv, StartsHold
<1>3. \A b \in Attempts : b \in held[r] <=> OwnerOf[b] = OwnerOf[a] /\ status[b] = "PENDING"
  BY <1>1, <1>2 DEF Inv, CreatesHaveAll, HeldIsOwn, HeldIsPending
<1>4. [b \in Attempts |-> Stage(status[b])]'
        = [b \in Attempts |->
             IF b = a THEN "PENDING"
             ELSE IF OwnerOf[b] = OwnerOf[a] /\ Stage(status[b]) = "PENDING" THEN "CLOSED"
             ELSE Stage(status[b])]
  BY <1>1, <1>3 DEF CommitStart, Stage
<1>5. UNCHANGED <<phone, identity, proven>>
  BY DEF CommitStart, providerVars
<1>6. Contract!Start(a)
  BY <1>2, <1>4, <1>5 DEF Contract!Start, Stage
<1> QED
  BY <1>6 DEF Contract!Next

LEMMA ApproveProves ==
    ASSUME Inv, NEW r \in Requests, Approve(r)
    PROVE  Contract!Next
<1>1. PICK a \in Attempts : a = on[r]
  BY OnAttempt DEF Approve, At, Inv
<1>2. status[a] # "NONE"
  BY <1>1 DEF Approve, At, Inv, ChecksExist
<1>3. [b \in Attempts |-> Stage(status[b])]'
        = [[b \in Attempts |-> Stage(status[b])] EXCEPT
             ![a] = IF @ = "PENDING" THEN "PROVIDER_VERIFIED" ELSE @]
  BY <1>1 DEF Approve, SetIfPending, Stage, Inv, TypeOK
<1>4. proven' = proven \cup { <<OwnerOf[a], PhoneOf[a]>> } /\ UNCHANGED <<phone, identity>>
  BY <1>1 DEF Approve, userVars
<1>5. Contract!Prove(a)
  BY <1>2, <1>3, <1>4 DEF Contract!Prove, Contract!Claim, Stage
<1> QED
  BY <1>5 DEF Contract!Next

\* The identity gets a phone its user proved, or refuses it and changes nothing.
LEMMA IdentityIsSet ==
    ASSUME Inv, NEW r \in Requests, SetIdentity(r)
    PROVE  Contract!Next \/ UNCHANGED Contract!contractVars
<1>1. PICK a \in Attempts : a = on[r]
  BY OnAttempt DEF SetIdentity, At, Inv
<1>2. <<OwnerOf[a], PhoneOf[a]>> \in proven
  BY <1>1 DEF SetIdentity, At, Inv, ApprovedIsProven, Proven
<1>3. UNCHANGED <<[b \in Attempts |-> Stage(status[b])], phone, proven>>
  BY DEF SetIdentity, userVars
<1>4. CASE identity' = [identity EXCEPT ![OwnerOf[a]] = PhoneOf[a]]
  <2>1. Contract!SetIdentity(a)
    BY <1>2, <1>3, <1>4 DEF Contract!SetIdentity, Contract!Claim
  <2> QED
    BY <2>1 DEF Contract!Next
<1>5. CASE UNCHANGED identity
  <2>1. UNCHANGED status
    BY DEF SetIdentity
  <2> QED
    BY <1>3, <1>5, <2>1 DEF Contract!contractVars
<1> QED
  BY <1>1, <1>4, <1>5 DEF SetIdentity

\* completeLink links what was proved, or finds it linked, or does nothing.
LEMMA CompleteLinks ==
    ASSUME Inv, NEW r \in Requests, Complete(r)
    PROVE  Contract!Next \/ UNCHANGED Contract!contractVars
<1>1. PICK a \in Attempts : a = on[r] /\ <<OwnerOf[a], PhoneOf[a]>> \in proven
  BY OnAttempt DEF Complete, At, Inv, ApprovedIsProven, Proven
<1>2. UNCHANGED <<identity, proven>>
  BY DEF Complete, providerVars
<1>3. CASE ~ Linkable(a)
  BY <1>1, <1>2, <1>3 DEF Complete, Contract!contractVars
<1>4. CASE Linkable(a) /\ status[a] = "LINKED"
  <2>1. phone[OwnerOf[a]] = PhoneOf[a]
    BY <1>4 DEF Inv, LinkedIsKept
  <2>2. UNCHANGED <<phone, status>>
    BY <1>1, <1>4, <2>1 DEF Complete, Inv, TypeOK
  <2> QED
    BY <1>2, <2>2 DEF Contract!contractVars
<1>5. CASE Linkable(a) /\ status[a] = "PROVIDER_VERIFIED"
  <2>0. status' = [status EXCEPT ![a] = "LINKED"] /\ status \in [Attempts -> AttemptStatus]
    BY <1>1, <1>5 DEF Complete, Inv, TypeOK
  <2>1. [b \in Attempts |-> Stage(status[b])]'
          = [[b \in Attempts |-> Stage(status[b])] EXCEPT ![a] = "LINKED"]
    BY <2>0 DEF Stage
  <2>2. phone' = [phone EXCEPT ![OwnerOf[a]] = PhoneOf[a]]
    BY <1>1, <1>5 DEF Complete
  <2>3. Contract!Link(a)
    BY <1>1, <1>2, <1>5, <2>1, <2>2 DEF Linkable, Contract!Link, Contract!Claim, Stage
  <2> QED
    BY <2>3 DEF Contract!Next
<1> QED
  BY <1>3, <1>4, <1>5 DEF Linkable

LEMMA CancelCloses ==
    ASSUME Inv, NEW u \in Users, Cancel(u)
    PROVE  Contract!Next
<1> DEFINE as == { a \in Attempts : OwnerOf[a] = u /\ status[a] = "PENDING" }
<1>1. [a \in Attempts |-> Stage(status[a])]'
        = [a \in Attempts |-> IF a \in as THEN "CLOSED" ELSE Stage(status[a])]
  BY DEF Cancel, Stage
<1>2. Contract!Close(as)
  BY <1>1 DEF Cancel, userVars, providerVars, Contract!Close, Stage
<1>3. \E bs \in SUBSET Attempts : Contract!Close(bs)
  BY <1>2
<1> QED
  BY <1>3 DEF Contract!Next

LEMMA VerifyCloses ==
    ASSUME Inv, NEW r \in Requests, NEW a \in Attempts, BeginVerify(r, a)
    PROVE  Contract!Next \/ UNCHANGED Contract!contractVars
<1>1. UNCHANGED <<phone, identity, proven>>
  BY DEF BeginVerify, userVars, providerVars
<1>2. CASE UNCHANGED status
  BY <1>1, <1>2 DEF Contract!contractVars
<1>3. CASE status[a] = "PENDING" /\ status' = [status EXCEPT ![a] = "EXPIRED"]
  <2> DEFINE as == { a }
  <2>1. [b \in Attempts |-> Stage(status[b])]'
          = [b \in Attempts |-> IF b \in as THEN "CLOSED" ELSE Stage(status[b])]
    BY <1>3 DEF Stage, Inv, TypeOK
  <2>2. Contract!Close(as)
    BY <1>1, <1>3, <2>1 DEF Contract!Close, Stage
  <2>3. \E bs \in SUBSET Attempts : Contract!Close(bs)
    BY <2>2
  <2> QED
    BY <2>3 DEF Contract!Next
<1> QED
  BY <1>2, <1>3 DEF BeginVerify

\* Every step is one of the contract or leaves what it speaks of alone.
LEMMA StepKeepsContract ==
    ASSUME Inv, [Next]_vars
    PROVE  Contract!Next \/ UNCHANGED Contract!contractVars
<1>1. ASSUME UNCHANGED <<status, phone, identity, proven>>
      PROVE  UNCHANGED Contract!contractVars
  BY <1>1 DEF Contract!contractVars
<1>2. ASSUME NEW r \in Requests,
             \/ \E a \in Attempts : BeginStart(r, a)
             \/ CancelOld(r) \/ Sent(r) \/ Invalid(r) \/ Reconcile(r) \/ Fail(r)
      PROVE  UNCHANGED <<status, phone, identity, proven>>
  BY <1>2 DEF BeginStart, CancelOld, Sent, Invalid, Reconcile, Fail, userVars, providerVars
<1>3. ASSUME NEW u \in Users, Block(u)
      PROVE  UNCHANGED <<status, phone, identity, proven>>
  BY <1>3 DEF Block, providerVars
<1>4. ASSUME NEW r \in Requests, SendFails(r) \/ ProviderExpired(r)
      PROVE  Contract!Next
  <2>1. PICK a \in Attempts : a = on[r]
    BY <1>4, OnAttempt DEF SendFails, ProviderExpired, At, Inv
  <2>2. \E s \in { "EXPIRED", "FAILED" } : SetIfPending(a, s)
    BY <1>4, <2>1 DEF SendFails, ProviderExpired
  <2>3. UNCHANGED <<phone, identity, proven>>
    BY <1>4 DEF SendFails, ProviderExpired, userVars, providerVars
  <2> QED
    BY <2>2, <2>3, GuardedClose
<1>5. ASSUME NEW a \in Attempts, ExpireCurrent(a)
      PROVE  Contract!Next
  <2>1. SetIfPending(a, "EXPIRED") /\ UNCHANGED <<phone, identity, proven>>
    BY <1>5 DEF ExpireCurrent, userVars, providerVars
  <2> QED
    BY <2>1, GuardedClose
<1>6. CASE UNCHANGED vars
  BY <1>6, <1>1 DEF vars
<1> QED
  BY <1>1, <1>2, <1>3, <1>4, <1>5, <1>6, VerifyCloses, CommitStarts, ApproveProves, IdentityIsSet,
     CompleteLinks, CancelCloses
     DEF Next, Ask, Serve, Starting, Checking, Linking

\* The requests implement the contract of phone verification: what the provider
\* approved is never cancelled, and no linked phone is replaced or shared.
THEOREM Implements == Spec => KeepsContract
<1>1. Init => Contract!Init
  BY DEF Init, Stage, Contract!Init
<1>2. Inv /\ [Next]_vars => [Contract!Next]_(Contract!contractVars)
  BY StepKeepsContract
<1> QED
  BY <1>1, <1>2, InvHolds, PTL DEF Spec, KeepsContract, Contract!Spec
=============================================================================
