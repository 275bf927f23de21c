------------------------------ MODULE WriteOnce ------------------------------
(***************************************************************************)
(* What creating a resource at most once promises: a key is given a value  *)
(* once and for ever, and whoever is answered is answered with that value  *)
(* and asked for what it was made from.                                    *)
(***************************************************************************)
CONSTANTS
    Keys,      \* what is created once each
    Clients,   \* who asks for it
    Bodies,    \* what they ask with
    Values,    \* what may be created
    Nothing    \* no value and no answer

VARIABLES
    stored,    \* stored[k]: [key, body, value] with this key, or Nothing
    answer     \* answer[c]: [key, body, value] of the last answer, or Nothing

WriteOnceInit ==
    /\ stored = [k \in Keys |-> Nothing]
    /\ answer = [c \in Clients |-> Nothing]

Create(c, k, b, v) ==
    /\ stored[k] = Nothing
    /\ stored' = [stored EXCEPT ![k] = [key |-> k, body |-> b, value |-> v]]
    /\ answer' = [answer EXCEPT ![c] = stored'[k]]

Reuse(c, k, b) ==
    /\ stored[k] # Nothing
    /\ stored[k].body = b
    /\ answer' = [answer EXCEPT ![c] = stored[k]]
    /\ UNCHANGED stored

\* A new question, or an error: nothing is answered.
Dismiss(c) == answer' = [answer EXCEPT ![c] = Nothing] /\ UNCHANGED stored

WriteOnceSpec ==
    WriteOnceInit /\ [][\E c \in Clients, k \in Keys, b \in Bodies :
                           \/ \E v \in Values : Create(c, k, b, v)
                           \/ Reuse(c, k, b)
                           \/ Dismiss(c)]_<<stored, answer>>
=============================================================================
