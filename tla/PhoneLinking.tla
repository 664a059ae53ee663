----------------------------- MODULE PhoneLinking -----------------------------
(***************************************************************************)
(* Verifying and linking the first phone of an account.  Three stores take *)
(* part and share no transaction: the attempts and users of PostgreSQL,    *)
(* the verification provider that checks the code, and the authentication  *)
(* identity that must end with the same phone as the user.                 *)
(*                                                                         *)
(* A request runs one statement, transaction or provider call per step.    *)
(* Transactions that take the user's row lock are one step, except         *)
(* createAttempt, whose statements an unlocked write can fall between.     *)
(* Time is not modelled: an attempt may be past its time whenever it is    *)
(* looked at.  The limits on starts, sends and checks only refuse.         *)
(***************************************************************************)
EXTENDS Integers, FiniteSets

CONSTANTS
    Users, Phones,
    Attempts,    \* attempt rows, used once each
    OwnerOf,     \* the user who may start each attempt
    PhoneOf,     \* the phone it is for
    Requests,    \* requests in flight
    MaxFaults,   \* bound: calls that fail, processes that die, accounts blocked
    NoPhone, NoAttempt, NoRequest

ASSUME PhoneAssumption ==
    /\ OwnerOf \in [Attempts -> Users]
    /\ PhoneOf \in [Attempts -> Phones]
    /\ MaxFaults \in Nat
    /\ NoPhone \notin Phones /\ NoAttempt \notin Attempts /\ NoRequest \notin Requests

VARIABLES
    phone,    \* the verified users.phone
    account,  \* accountStatus: ACTIVE, or BLOCKED (suspended or deactivated)
    lock,     \* the request whose open transaction has the user's row
    status,   \* of each attempt; NONE before it is created
    identity, \* the confirmed phone of the user's authentication identity
    proven,   \* user and phone of every code the provider approved
    step,     \* where each request is
    on,       \* the attempt it works on
    held,     \* attempts its open transaction has cancelled
    faults  \* faults so far

userVars == <<phone, account, lock>>
providerVars == <<identity, proven>>
requestVars == <<step, on, held>>
vars == <<phone, account, lock, status, identity, proven, step, on, held, faults>>

AttemptStatus ==
    { "NONE", "PENDING", "PROVIDER_VERIFIED", "LINKED", "EXPIRED", "CANCELLED", "FAILED" }
Steps ==
    { "IDLE", "START", "CREATE", "SEND", "CHECK", "RECONCILE", "SET", "COMPLETE" }

AttemptsOf(u) == { a \in Attempts : OwnerOf[a] = u }

\* Mutant: nobody waits for the user's row.
FreeAlways(u) == TRUE

Free(u) == lock[u] = NoRequest

\* Mutant: a guarded write does not wait for the transaction that cancels.
RowFreeAlways(a) == TRUE

\* Nobody's open transaction has written the attempt.
RowFree(a) == \A r \in Requests : a \notin held[r]

At(r, s) == step[r] = s /\ on[r] # NoAttempt

GoTo(r, s) == step' = [step EXCEPT ![r] = s] /\ UNCHANGED <<on, held>>

\* Mutant: the request that ends still names its attempt.
FinishOn(r) ==
    /\ step' = [step EXCEPT ![r] = "IDLE"]
    /\ held' = [held EXCEPT ![r] = {}]
    /\ UNCHANGED on

Finish(r) ==
    /\ step' = [step EXCEPT ![r] = "IDLE"]
    /\ on' = [on EXCEPT ![r] = NoAttempt]
    /\ held' = [held EXCEPT ![r] = {}]

\* A write guarded by status PENDING: nothing happens to any other attempt.
SetIfPending(a, s) ==
    /\ RowFree(a)
    /\ status' = [status EXCEPT ![a] = IF @ = "PENDING" THEN s ELSE @]

-----------------------------------------------------------------------------
(* Starting an attempt.                                                    *)

\* createAttempt: the user's row is locked and everything is looked at.
BeginStart(r, a) ==
    LET u == OwnerOf[a] IN
    /\ step[r] = "IDLE" /\ status[a] = "NONE" /\ \A q \in Requests : on[q] # a
    /\ Free(u)
    /\ account[u] = "ACTIVE" /\ phone[u] = NoPhone
    /\ \A v \in Users : phone[v] # PhoneOf[a]
    /\ \A b \in AttemptsOf(u) : status[b] # "PROVIDER_VERIFIED"
    /\ lock' = [lock EXCEPT ![u] = r]
    /\ step' = [step EXCEPT ![r] = "START"]
    /\ on' = [on EXCEPT ![r] = a]
    /\ UNCHANGED <<phone, account, status, providerVars, held, faults>>

\* The pending attempts are cancelled, not yet visibly.
CancelOld(r) ==
    /\ At(r, "START")
    /\ held' = [held EXCEPT ![r] = { b \in AttemptsOf(OwnerOf[on[r]]) : status[b] = "PENDING" }]
    /\ step' = [step EXCEPT ![r] = "CREATE"]
    /\ UNCHANGED <<userVars, status, providerVars, on, faults>>

\* The new attempt is inserted and the transaction commits.
CommitStart(r) ==
    /\ At(r, "CREATE")
    /\ status' = [b \in Attempts |-> IF b = on[r] THEN "PENDING"
                                     ELSE IF b \in held[r] THEN "CANCELLED" ELSE status[b]]
    /\ lock' = [lock EXCEPT ![OwnerOf[on[r]]] = NoRequest]
    /\ step' = [step EXCEPT ![r] = "SEND"]
    /\ held' = [held EXCEPT ![r] = {}]
    /\ UNCHANGED <<phone, account, providerVars, on, faults>>

Sent(r) ==
    /\ At(r, "SEND")
    /\ Finish(r)
    /\ UNCHANGED <<userVars, status, providerVars, faults>>

\* The provider refuses to send, or markProviderSent finds no pending row.
SendFails(r) ==
    /\ At(r, "SEND")
    /\ SetIfPending(on[r], "FAILED")
    /\ Finish(r)
    /\ UNCHANGED <<userVars, providerVars, faults>>

\* cancel: the pending attempts only.
Cancel(u) ==
    /\ Free(u)
    /\ status' = [a \in Attempts |-> IF OwnerOf[a] = u /\ status[a] = "PENDING" THEN "CANCELLED" ELSE status[a]]
    /\ UNCHANGED <<userVars, providerVars, requestVars, faults>>

\* current: an attempt found past its time is marked so.
ExpireCurrent(a) ==
    /\ status[a] = "PENDING"
    /\ SetIfPending(a, "EXPIRED")
    /\ UNCHANGED <<userVars, providerVars, requestVars, faults>>

-----------------------------------------------------------------------------
(* Verifying a code and linking the phone.                                 *)

\* reserveCheck: under the user's lock a pending attempt expires, or goes
\* to the provider; one the provider approved before goes on to the link.
BeginVerify(r, a) ==
    /\ step[r] = "IDLE"
    /\ Free(OwnerOf[a]) /\ account[OwnerOf[a]] = "ACTIVE"
    /\ \/ /\ status[a] = "PENDING"
          /\ status' = [status EXCEPT ![a] = "EXPIRED"]
          /\ UNCHANGED <<step, on>>
       \/ /\ status[a] = "PENDING"
          /\ step' = [step EXCEPT ![r] = "CHECK"]
          /\ on' = [on EXCEPT ![r] = a]
          /\ UNCHANGED status
       \/ /\ status[a] = "PROVIDER_VERIFIED"
          /\ step' = [step EXCEPT ![r] = "RECONCILE"]
          /\ on' = [on EXCEPT ![r] = a]
          /\ UNCHANGED status
    /\ UNCHANGED <<userVars, providerVars, held, faults>>

\* Mutant: an invalid code is not told from an approved one.
ApproveAny(r) ==
    /\ At(r, "CHECK")
    /\ SetIfPending(on[r], "PROVIDER_VERIFIED")
    /\ IF status[on[r]] \in { "PENDING", "PROVIDER_VERIFIED" } THEN GoTo(r, "RECONCILE") ELSE Finish(r)
    /\ UNCHANGED <<userVars, providerVars, faults>>

\* The provider approves the code, and markProviderVerified, without the
\* user's lock, records it: an attempt that is no longer pending stays as it
\* is, and the request goes on only if another one had it approved.
Approve(r) ==
    /\ At(r, "CHECK")
    /\ proven' = proven \cup { <<OwnerOf[on[r]], PhoneOf[on[r]]>> }
    /\ SetIfPending(on[r], "PROVIDER_VERIFIED")
    /\ IF status[on[r]] \in { "PENDING", "PROVIDER_VERIFIED" } THEN GoTo(r, "RECONCILE") ELSE Finish(r)
    /\ UNCHANGED <<userVars, identity, faults>>

Invalid(r) ==
    /\ At(r, "CHECK")
    /\ Finish(r)
    /\ UNCHANGED <<userVars, status, providerVars, faults>>

ProviderExpired(r) ==
    /\ At(r, "CHECK")
    /\ SetIfPending(on[r], "EXPIRED")
    /\ Finish(r)
    /\ UNCHANGED <<userVars, providerVars, faults>>

\* Mutant: an identity that has the expected phone already is a conflict.
CompatibleEmpty(a) == identity[OwnerOf[a]] = NoPhone

\* assertExpectedIdentity.
Compatible(a) == identity[OwnerOf[a]] \in { NoPhone, PhoneOf[a] }

\* reconcileLink looks at the users, then reads the identity and compares;
\* what changes between these reads is looked at again by completeLink.
Reconcile(r) ==
    LET a == on[r]
        u == OwnerOf[a]
        done == account[u] = "ACTIVE" /\ phone[u] = PhoneOf[a]
        open == /\ account[u] = "ACTIVE" /\ phone[u] = NoPhone
                /\ \A v \in Users : phone[v] # PhoneOf[a] IN
    /\ At(r, "RECONCILE")
    /\ \/ done /\ GoTo(r, "COMPLETE")
       \/ open /\ Compatible(a) /\ identity[u] # NoPhone /\ GoTo(r, "COMPLETE")
       \/ open /\ Compatible(a) /\ identity[u] = NoPhone /\ GoTo(r, "SET")
       \/ ~ done /\ ~ (open /\ Compatible(a)) /\ Finish(r)
    /\ UNCHANGED <<userVars, status, providerVars, faults>>

\* Another user's identity has the phone.
TakenFrom(u, p) == \E v \in Users \ { u } : identity[v] = p

\* The identity is given the phone, whatever it has by now.  The store of
\* identities keeps a phone for one of them and refuses it to any other; the
\* request then ends, and the attempt stays approved.
SetIdentity(r) ==
    LET u == OwnerOf[on[r]]
        p == PhoneOf[on[r]] IN
    /\ At(r, "SET")
    /\ \/ /\ ~ TakenFrom(u, p)
          /\ identity' = [identity EXCEPT ![u] = p]
          /\ GoTo(r, "COMPLETE")
       \/ /\ TakenFrom(u, p)
          /\ Finish(r)
          /\ UNCHANGED identity
    /\ UNCHANGED <<userVars, status, proven, faults>>

\* Mutants: completeLink does not compare the phone the user has, or the
\* users who have the phone.
LinkableOver(a) ==
    /\ status[a] \in { "PROVIDER_VERIFIED", "LINKED" }
    /\ account[OwnerOf[a]] = "ACTIVE"
    /\ \A v \in Users : phone[v] = PhoneOf[a] => v = OwnerOf[a]

LinkableTwice(a) ==
    /\ status[a] \in { "PROVIDER_VERIFIED", "LINKED" }
    /\ account[OwnerOf[a]] = "ACTIVE"
    /\ phone[OwnerOf[a]] \in { NoPhone, PhoneOf[a] }

\* What completeLink asks before it writes; the unique users.phone stands
\* behind the last line.
Linkable(a) ==
    /\ status[a] \in { "PROVIDER_VERIFIED", "LINKED" }
    /\ account[OwnerOf[a]] = "ACTIVE"
    /\ phone[OwnerOf[a]] \in { NoPhone, PhoneOf[a] }
    /\ \A v \in Users : phone[v] = PhoneOf[a] => v = OwnerOf[a]

Complete(r) ==
    LET a == on[r] IN
    /\ At(r, "COMPLETE") /\ Free(OwnerOf[a])
    /\ IF Linkable(a)
       THEN /\ phone' = [phone EXCEPT ![OwnerOf[a]] = PhoneOf[a]]
            /\ status' = [status EXCEPT ![a] = "LINKED"]
       ELSE UNCHANGED <<phone, status>>
    /\ Finish(r)
    /\ UNCHANGED <<account, lock, providerVars, faults>>

-----------------------------------------------------------------------------
(* Moderation and failures.                                                *)

\* The account is suspended, or deactivated by its deletion request.
Block(u) ==
    /\ Free(u) /\ account[u] = "ACTIVE" /\ faults < MaxFaults
    /\ faults' = faults + 1
    /\ account' = [account EXCEPT ![u] = "BLOCKED"]
    /\ UNCHANGED <<phone, lock, status, providerVars, requestVars>>

\* A call fails or the process dies: the request ends where it is and its
\* open transaction is rolled back.
Fail(r) ==
    /\ step[r] # "IDLE" /\ faults < MaxFaults
    /\ faults' = faults + 1
    /\ lock' = [u \in Users |-> IF lock[u] = r THEN NoRequest ELSE lock[u]]
    /\ Finish(r)
    /\ UNCHANGED <<phone, account, status, providerVars>>

-----------------------------------------------------------------------------
Init ==
    /\ phone = [u \in Users |-> NoPhone]
    /\ account = [u \in Users |-> "ACTIVE"]
    /\ lock = [u \in Users |-> NoRequest]
    /\ status = [a \in Attempts |-> "NONE"]
    /\ identity = [u \in Users |-> NoPhone]
    /\ proven = {}
    /\ step = [r \in Requests |-> "IDLE"]
    /\ on = [r \in Requests |-> NoAttempt]
    /\ held = [r \in Requests |-> {}]
    /\ faults = 0

Starting(r) == CancelOld(r) \/ CommitStart(r) \/ Sent(r) \/ SendFails(r)

Checking(r) == Approve(r) \/ Invalid(r) \/ ProviderExpired(r)

Linking(r) == Reconcile(r) \/ SetIdentity(r) \/ Complete(r)

Serve(r) == Starting(r) \/ Checking(r) \/ Linking(r)

Ask(a) ==
    \/ \E r \in Requests : BeginStart(r, a) \/ BeginVerify(r, a)
    \/ ExpireCurrent(a)

Next ==
    \/ \E a \in Attempts : Ask(a)
    \/ \E r \in Requests : Serve(r) \/ Fail(r)
    \/ \E u \in Users : Cancel(u) \/ Block(u)

Spec == Init /\ [][Next]_vars

\* A request that is not cut off goes on.
Fairness == \A r \in Requests : WF_vars(Serve(r))

FairSpec == Spec /\ Fairness

-----------------------------------------------------------------------------
(* Properties.                                                             *)

\* Every column holds a value its table allows, and a request names an
\* attempt exactly while it runs.
TypeOK ==
    /\ phone \in [Users -> Phones \cup { NoPhone }]
    /\ account \in [Users -> { "ACTIVE", "BLOCKED" }]
    /\ lock \in [Users -> Requests \cup { NoRequest }]
    /\ status \in [Attempts -> AttemptStatus]
    /\ identity \in [Users -> Phones \cup { NoPhone }]
    /\ proven \subseteq Users \X Phones
    /\ step \in [Requests -> Steps]
    /\ on \in [Requests -> Attempts \cup { NoAttempt }]
    /\ held \in [Requests -> SUBSET Attempts]
    /\ faults \in Nat
    /\ \A r \in Requests : on[r] = NoAttempt <=> step[r] = "IDLE"

\* A user never has two pending attempts, however many starts run at once.
OnePending ==
    \A a, b \in Attempts :
        status[a] = "PENDING" /\ status[b] = "PENDING" /\ OwnerOf[a] = OwnerOf[b] => a = b

\* No two users have one verified phone.
OneOwner == \A u, v \in Users : phone[u] = phone[v] /\ phone[u] # NoPhone => u = v

\* A user has a verified phone, and so does the user's identity, only after
\* the provider approved a code this very user entered for it.
LinkedWasProven ==
    \A u \in Users :
        /\ phone[u] # NoPhone => <<u, phone[u]>> \in proven
        /\ identity[u] # NoPhone => <<u, identity[u]>> \in proven

\* An attempt says LINKED only while its phone is the user's: no later
\* attempt replaces a linked phone.
LinkedIsKept ==
    \A a \in Attempts : status[a] = "LINKED" => phone[OwnerOf[a]] = PhoneOf[a]

\* The user sends the code again whenever the attempt can still be verified.
\* No code makes the user do so.
UserKeepsAsking(a) == SF_vars(\E r \in Requests : BeginVerify(r, a))

\* An approved attempt of a user who keeps asking is linked in the end,
\* although calls fail between the three stores: a retry finds the durable
\* status and goes on from it.  Only a blocked account, a phone that another
\* user or another identity has, and an identity with another phone stop it.
ApprovedIsLinked ==
    \A a \in Attempts :
        UserKeepsAsking(a) =>
            (status[a] = "PROVIDER_VERIFIED" ~>
                \/ phone[OwnerOf[a]] # NoPhone
                \/ account[OwnerOf[a]] # "ACTIVE"
                \/ \E v \in Users : phone[v] = PhoneOf[a]
                \/ TakenFrom(OwnerOf[a], PhoneOf[a])
                \/ identity[OwnerOf[a]] \notin { NoPhone, PhoneOf[a] })

\* The identity's confirmed phone is never replaced by another.  The code does
\* not keep this promise: two verifications of different attempts of one user
\* may both find the identity empty (see the README).
IdentityIsKept ==
    [][\A u \in Users : identity[u] # NoPhone => identity'[u] = identity[u]]_vars

-----------------------------------------------------------------------------
(* The contract that verification and linking implement.                   *)

Stage(s) == IF s \in { "EXPIRED", "CANCELLED", "FAILED" } THEN "CLOSED" ELSE s

Contract == INSTANCE PhoneContract WITH stage <- [a \in Attempts |-> Stage(status[a])]

\* Every interleaving of starts, approvals and links keeps the contract: an
\* approval that races a new start is either lost before it counts or never
\* cancelled, and a user's phone, once linked, stays.
KeepsContract == Contract!Spec
=============================================================================
