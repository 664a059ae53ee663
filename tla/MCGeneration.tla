----------------------------- MODULE MCGeneration -----------------------------
(***************************************************************************)
(* A small instance of AiGeneration for TLC.  A user sends one id to two   *)
(* conversations (r1 and r4) and another id to the second (r2); another    *)
(* user sends the first id too (r3).                                       *)
(***************************************************************************)
EXTENDS AiGeneration, TLC

CONSTANTS ann, bob, c1, c2, c3, i1, i2, r1, r2, r3, r4, h1, h2

MCUserOf == [r \in Requests |-> IF r = r3 THEN bob ELSE ann]

MCIdOf == [r \in Requests |-> IF r = r2 THEN i2 ELSE i1]

MCConversationOf ==
    [r \in Requests |-> CASE r = r1 -> c1 [] r \in { r2, r4 } -> c2 [] r = r3 -> c3]

HandlerSymmetry == Permutations(Handlers)
=============================================================================
