---------------------------- MODULE MCChatProxy ----------------------------
(* Two prompts that match each other in one direction only: p2 may be       *)
(* served p1's answer, p1 is vetoed against p2's.                           *)
EXTENDS ChatRefinement, TLC

CONSTANTS p1, p2, u1, u2, m1

MCScore == [pq \in Prompts \X Prompts |-> 1]

MCVetoed == {<<p1, p2>>}

MCResponses == [origin : Requests, form : Forms]

MCKeys == Prompts \X Models

Ask(p, u, bypass) == [prompt |-> p, user |-> u, model |-> m1, bypass |-> bypass]

MCAsks == {Ask(p1, u1, FALSE), Ask(p2, u1, FALSE), Ask(p1, u2, FALSE),
           Ask(p1, u1, TRUE)}

\* One lock key, two users.
MCAsksShared == {Ask(p1, u1, FALSE), Ask(p1, u2, FALSE)}

Symmetry == Permutations(Requests)

=============================================================================
