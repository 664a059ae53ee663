-------------------------- MODULE GenerationContract --------------------------
(***************************************************************************)
(* What the stylist promises about a request, an id sent to one of the     *)
(* user's conversations: it is taken up once, one at a time for each user, *)
(* and only while no other request of that id stands; the provider is      *)
(* asked about it once, if at all; it has one outcome, which nothing       *)
(* replaces; and what goes with its conversation does not come back,       *)
(* though its id may be taken up in another.                               *)
(***************************************************************************)
CONSTANTS
    Requests,
    UserOf,   \* the user who sent each request
    IdOf,     \* the id it was sent under
    Outcomes  \* how a request that was taken up can end

VARIABLES
    stage, \* of each request: NONE, PROCESSING, GONE or an outcome
    asked  \* requests the provider was asked about

contractVars == <<stage, asked>>

Init == stage = [r \in Requests |-> "NONE"] /\ asked = {}

Take(r) ==
    /\ stage[r] = "NONE" /\ r \notin asked
    /\ \A q \in Requests :
          UserOf[q] = UserOf[r] /\ IdOf[q] = IdOf[r] => stage[q] \in { "NONE", "GONE" }
    /\ \A q \in Requests : UserOf[q] = UserOf[r] => stage[q] # "PROCESSING"
    /\ stage' = [stage EXCEPT ![r] = "PROCESSING"]
    /\ UNCHANGED asked

\* A request may go while the provider is about to be asked.
Ask(r) ==
    /\ stage[r] \in { "PROCESSING", "GONE" } /\ r \notin asked
    /\ asked' = asked \cup { r }
    /\ UNCHANGED stage

End(r, outcome) ==
    /\ stage[r] = "PROCESSING"
    /\ stage' = [stage EXCEPT ![r] = outcome]
    /\ UNCHANGED asked

\* The requests of a conversation go together.
Delete(rs) ==
    /\ stage' = [r \in Requests |-> IF r \in rs THEN "GONE" ELSE stage[r]]
    /\ UNCHANGED asked

Next ==
    \/ \E r \in Requests : Take(r) \/ Ask(r)
    \/ \E r \in Requests, outcome \in Outcomes : End(r, outcome)
    \/ \E rs \in SUBSET Requests : Delete(rs)

Spec == Init /\ [][Next]_contractVars
=============================================================================
