----------------------------- MODULE AnswerCache -----------------------------
(***************************************************************************)
(* What the proxy promises about its answers, without tables, tiers, locks *)
(* or an event loop: a question is answered with an answer obtained for it *)
(* or with one that is still known and fits it, and what is forgotten      *)
(* (purged, expired, replaced) is not known again.                         *)
(*                                                                         *)
(* An answer is named after the request it was obtained for.               *)
(***************************************************************************)
CONSTANTS
  Requests,
  Questions,
  Fits,     \* pairs of questions: the answer of the second will do for the
            \* first
  Private,  \* questions that neither use nor leave anything known
  NoAnswer  \* not a request

VARIABLES
  question,  \* Requests -> what each asks
  state,     \* Requests -> how far each has come
  answer,    \* Requests -> the answer it holds, or NoAnswer
  known      \* the answers that may be used again

vars == <<question, state, answer, known>>

Init ==
  /\ question \in [Requests -> Questions]
  /\ state = [r \in Requests |-> "idle"]
  /\ answer = [r \in Requests |-> NoAnswer]
  /\ known = {}

Becomes(r, s) == state' = [state EXCEPT ![r] = s]
Holds(r, o) == answer' = [answer EXCEPT ![r] = o]

-----------------------------------------------------------------------------
Ask(r) ==
  /\ state[r] = "idle"
  /\ Becomes(r, "pending")
  /\ UNCHANGED <<question, answer, known>>

\* An answer is reused, and its question may have come in by the same step.
Reuse(r) ==
  /\ state[r] \in {"idle", "pending"} /\ question[r] \notin Private
  /\ \E o \in known : /\ <<question[r], question[o]>> \in Fits
                      /\ Holds(r, o)
  /\ Becomes(r, "holding")
  /\ UNCHANGED <<question, known>>

\* An answer is obtained, and becomes known in the place of others.
Obtain(r) ==
  /\ state[r] = "pending" /\ question[r] \notin Private
  /\ Holds(r, r)
  /\ known' \subseteq known \cup {r}
  /\ Becomes(r, "holding")
  /\ UNCHANGED question

\* A private question is answered, or fails, and leaves nothing behind.
ObtainPrivately(r) ==
  /\ state[r] = "pending" /\ question[r] \in Private
  /\ Holds(r, r)
  /\ Becomes(r, "answered") \/ Becomes(r, "failed")
  /\ UNCHANGED <<question, known>>

Deliver(r) ==
  /\ state[r] = "holding"
  /\ Becomes(r, "answered") \/ Becomes(r, "failed")
  /\ UNCHANGED <<question, answer, known>>

\* No answer is obtained, or the question is refused.
Fail(r) ==
  /\ state[r] \in {"idle", "pending"}
  /\ Becomes(r, "failed")
  /\ UNCHANGED <<question, answer, known>>

\* All that is under way is lost at once.
Lose ==
  /\ state' = [r \in Requests |->
                 IF state[r] \in {"pending", "holding"} THEN "lost"
                                                       ELSE state[r]]
  /\ UNCHANGED <<question, answer, known>>

Forget ==
  /\ known' \subseteq known
  /\ UNCHANGED <<question, state, answer>>

Next ==
  \/ \E r \in Requests : \/ Ask(r) \/ Reuse(r) \/ Obtain(r)
                         \/ ObtainPrivately(r) \/ Deliver(r) \/ Fail(r)
  \/ Lose
  \/ Forget

Spec == Init /\ [][Next]_vars

=============================================================================
