----------------------------- MODULE AiGeneration -----------------------------
(***************************************************************************)
(* The AI stylist's generations: a message is sent to a conversation under *)
(* an id the client chose and may send again, and is answered by at most   *)
(* one call of the provider.  The rows of the generations are the lock:    *)
(* one is inserted before anything is spent, and what is running is        *)
(* counted afterwards.                                                     *)
(*                                                                         *)
(* A request is an id together with the conversation it is sent to.  The   *)
(* rows are unique by user and id alone: two requests with one id exclude  *)
(* each other until the conversation of the row is deleted, which never    *)
(* comes back.                                                             *)
(*                                                                         *)
(* What is searched, composed, asked and answered is left out, and which   *)
(* limit refuses: a search may find nothing, any step may throw.           *)
(***************************************************************************)
EXTENDS Integers, FiniteSets

CONSTANTS
    Conversations,
    Ids,            \* client request ids
    Requests,       \* messages: an id, sent to a conversation, once or again
    Users,
    UserOf,         \* of each request
    IdOf,           \* of each request
    ConversationOf, \* of each request
    Handlers,       \* requests of HTTP being served, in any process
    MaxConcurrent,  \* aiStylistMaxConcurrentGenerations
    MaxFaults,      \* bound: processes that die, last writes that fail, lost commits
    NoRequest

ASSUME GenerationAssumption ==
    /\ UserOf \in [Requests -> Users] /\ IdOf \in [Requests -> Ids]
    /\ ConversationOf \in [Requests -> Conversations]
    /\ IsFiniteSet(Requests)
    /\ MaxConcurrent \in Nat /\ MaxFaults \in Nat
    /\ NoRequest \notin Requests

VARIABLES
    live,    \* conversations that exist
    status,  \* of each request's generation; NONE without a row
    answers, \* assistant messages of each generation
    spent,   \* calls of the provider for each request, ever
    step,    \* where each handler is
    on,      \* the request it serves
    faults

handlerVars == <<step, on>>
vars == <<live, status, answers, spent, step, on, faults>>

Answered == { "SUCCEEDED", "FALLBACK", "REFUSED" }
GenerationStatus == { "NONE", "PROCESSING", "FAILED" } \cup Answered
Steps == { "IDLE", "INSERT", "CHECK", "SEARCH", "CALL", "FINISH", "REPLY", "FAIL" }

Fault == faults < MaxFaults /\ faults' = faults + 1

At(h, s) == step[h] = s /\ on[h] # NoRequest

GoTo(h, s) == step' = [step EXCEPT ![h] = s] /\ on' = on

\* Mutant: the handler that ends still names its request.
LeaveOn(h) == step' = [step EXCEPT ![h] = "IDLE"] /\ on' = on

Leave(h) ==
    /\ step' = [step EXCEPT ![h] = "IDLE"]
    /\ on' = [on EXCEPT ![h] = NoRequest]

-----------------------------------------------------------------------------
(* generate, a query or a transaction per step.                            *)

SameKey(q, r) == UserOf[q] = UserOf[r] /\ IdOf[q] = IdOf[r]

\* Mutant: the key includes the conversation.
FreshHere(r) == status[r] = "NONE"

\* The row of an earlier try answers, or refuses, a later one, to whichever
\* conversation either was sent.
Fresh(r) == \A q \in Requests : SameKey(q, r) => status[q] = "NONE"

\* The conversation is there and the id is new.  For one that is not,
\* generate changes nothing.
Begin(h, r) ==
    /\ step[h] = "IDLE" /\ ConversationOf[r] \in live /\ Fresh(r)
    /\ step' = [step EXCEPT ![h] = "INSERT"]
    /\ on' = [on EXCEPT ![h] = r]
    /\ UNCHANGED <<live, status, answers, spent, faults>>

\* Mutant: no index keeps a user to one generation at a time.
InsertableBesides(r) == ConversationOf[r] \in live /\ Fresh(r)

\* The foreign key and the two unique indexes.
Insertable(r) ==
    /\ ConversationOf[r] \in live /\ Fresh(r)
    /\ \A q \in Requests : UserOf[q] = UserOf[r] => status[q] # "PROCESSING"

\* The insert commits, and the handler learns of it or not; or it is refused.
\* What is thrown here no one catches.
Insert(h) ==
    LET r == on[h] IN
    /\ At(h, "INSERT")
    /\ \/ /\ Insertable(r)
          /\ status' = [status EXCEPT ![r] = "PROCESSING"]
          /\ answers' = [answers EXCEPT ![r] = 0]
          /\ \/ GoTo(h, "CHECK") /\ UNCHANGED faults
             \/ Leave(h) /\ Fault
       \/ Leave(h) /\ UNCHANGED <<status, answers, faults>>
    /\ UNCHANGED <<live, spent>>

\* Mutant: what is thrown after the insert is not caught.
ThrowOut(h) == Leave(h)

Throw(h) == GoTo(h, "FAIL")

Processing == { r \in Requests : status[r] = "PROCESSING" }

\* Mutant: the handler counts the others only.
UnderCeilingOthers == Cardinality(Processing) - 1 <= MaxConcurrent

UnderCeiling == Cardinality(Processing) <= MaxConcurrent

\* usageSnapshot counts the handler's own row too.
Check(h) ==
    /\ At(h, "CHECK")
    /\ \/ UnderCeiling /\ GoTo(h, "SEARCH")
       \/ Throw(h)
    /\ UNCHANGED <<live, status, answers, spent, faults>>

\* Without an outfit to propose, the provider is not asked.
Search(h) ==
    /\ At(h, "SEARCH")
    /\ \/ GoTo(h, "CALL") /\ spent' = [spent EXCEPT ![on[h]] = @ + 1]
       \/ GoTo(h, "FINISH") /\ UNCHANGED spent
       \/ Throw(h) /\ UNCHANGED spent
    /\ UNCHANGED <<live, status, answers, faults>>

\* A call that fails or times out ends in the fallback.
CallEnds(h) ==
    /\ At(h, "CALL")
    /\ GoTo(h, "FINISH")
    /\ UNCHANGED <<live, status, answers, spent, faults>>

\* What the provider proposed is checked against the inventory, which may
\* throw.  completeGeneration updates the row by its id, whatever its status,
\* and throws when there is none.
Complete(h) ==
    LET r == on[h] IN
    /\ At(h, "FINISH")
    /\ \/ /\ status[r] # "NONE"
          /\ \E s \in Answered : status' = [status EXCEPT ![r] = s]
          /\ answers' = [answers EXCEPT ![r] = @ + 1]
          /\ GoTo(h, "REPLY")
       \/ Throw(h) /\ UNCHANGED <<status, answers>>
    /\ UNCHANGED <<live, spent, faults>>

\* The result is committed; whether the handler learns of it, and can read
\* the conversation back, is open.
Reply(h) ==
    /\ At(h, "REPLY")
    /\ Leave(h) \/ Throw(h)
    /\ UNCHANGED <<live, status, answers, spent, faults>>

\* Mutant: the failure is written over an answer.
StillProcessingAny(r) == status[r] # "NONE"

StillProcessing(r) == status[r] = "PROCESSING"

Fail(h) ==
    LET r == on[h] IN
    /\ At(h, "FAIL")
    /\ status' = IF StillProcessing(r) THEN [status EXCEPT ![r] = "FAILED"] ELSE status
    /\ Leave(h)
    /\ UNCHANGED <<live, answers, spent, faults>>

-----------------------------------------------------------------------------
\* The process dies, or the write of Fail does not get through.  Nothing
\* looks for the row it leaves.
Crash(h) ==
    /\ step[h] # "IDLE" /\ Fault
    /\ Leave(h)
    /\ UNCHANGED <<live, status, answers, spent>>

\* The user deletes a conversation, with its messages and generations, the
\* running one included.
Delete(c) ==
    /\ c \in live
    /\ live' = live \ { c }
    /\ status' = [r \in Requests |-> IF ConversationOf[r] = c THEN "NONE" ELSE status[r]]
    /\ answers' = [r \in Requests |-> IF ConversationOf[r] = c THEN 0 ELSE answers[r]]
    /\ UNCHANGED <<spent, handlerVars, faults>>

-----------------------------------------------------------------------------
Init ==
    /\ live = Conversations
    /\ status = [r \in Requests |-> "NONE"]
    /\ answers = [r \in Requests |-> 0]
    /\ spent = [r \in Requests |-> 0]
    /\ step = [h \in Handlers |-> "IDLE"]
    /\ on = [h \in Handlers |-> NoRequest]
    /\ faults = 0

Serve(h) ==
    \/ Insert(h) \/ Check(h) \/ Search(h) \/ CallEnds(h)
    \/ Complete(h) \/ Reply(h) \/ Fail(h)

Next ==
    \/ \E h \in Handlers, r \in Requests : Begin(h, r)
    \/ \E h \in Handlers : Serve(h) \/ Crash(h)
    \/ \E c \in Conversations : Delete(c)

Spec == Init /\ [][Next]_vars

-----------------------------------------------------------------------------
(* Properties.                                                             *)

\* Every row has a status of its table, and a handler names a request
\* exactly while it serves one.
TypeOK ==
    /\ live \subseteq Conversations
    /\ status \in [Requests -> GenerationStatus]
    /\ answers \in [Requests -> Nat]
    /\ spent \in [Requests -> Nat]
    /\ step \in [Handlers -> Steps]
    /\ on \in [Handlers -> Requests \cup { NoRequest }]
    /\ faults \in Nat
    /\ \A h \in Handlers : on[h] = NoRequest <=> step[h] = "IDLE"

Gone(r) == ConversationOf[r] \notin live

\* However often and however concurrently a client sends an id, to whichever
\* of its conversations, the provider is asked once.  Only the deletion of the
\* conversation that was answered frees the id, for another conversation.
SpentOnce ==
    /\ \A r \in Requests : spent[r] <= 1
    /\ \A q, r \in Requests :
          SameKey(q, r) /\ spent[q] > 0 /\ spent[r] > 0 => q = r \/ Gone(q) \/ Gone(r)

\* A generation that says it has answered has one answer, any other none,
\* though the handler may learn too late that it had succeeded.
AnswersMatchStatus ==
    \A r \in Requests : answers[r] = IF status[r] \in Answered THEN 1 ELSE 0

Working(h, r) == on[h] = r /\ step[h] \notin { "IDLE", "INSERT" }

\* Generations that have passed the ceiling, and whose rows still count.
Passed == { r \in Processing : \E h \in Handlers : on[h] = r /\ step[h] \in { "SEARCH", "CALL", "FINISH" } }

\* Handlers that count at once, after each has inserted its row, do not
\* together exceed the ceiling.
CeilingHolds == Cardinality(Passed) <= MaxConcurrent

\* A user's slot stays taken without a handler only where a process died or
\* the commit of the insert got lost: every other way to throw gives it back.
SlotsHaveHandlers ==
    \A r \in Processing : (\E h \in Handlers : Working(h, r)) \/ faults > 0

-----------------------------------------------------------------------------
(* The contract the handlers implement.                                    *)

Contract == INSTANCE GenerationContract WITH
    Outcomes <- Answered \cup { "FAILED" },
    stage <- [r \in Requests |-> IF Gone(r) THEN "GONE" ELSE status[r]],
    asked <- { r \in Requests : spent[r] > 0 }

\* Repeated requests, late writes by id and deletions keep the contract: an
\* outcome is written once, over nothing but the request's own PROCESSING row.
KeepsContract == Contract!Spec
=============================================================================
