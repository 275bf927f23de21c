----------------------------- MODULE CreateOnce ------------------------------
(***************************************************************************)
(* The two endpoints that create something at most once without a lock: a  *)
(* growth path, once for each match result, and a market import, once for  *)
(* each idempotency key.  Both look first, insert later and rely on a      *)
(* unique constraint; a growth path is written by an LLM in between, with  *)
(* no transaction open.                                                    *)
(*                                                                         *)
(* The loser of the race means to answer with the winner's row, but        *)
(* rolling back has expired the user it was called with: reading the       *)
(* user's id again fails and the answer is an error.                       *)
(***************************************************************************)
EXTENDS Naturals

CONSTANTS
    Clients,    \* concurrent HTTP requests
    Bodies      \* what a request sends with its idempotency key

VARIABLES
    made,       \* made[k]: what has been created under k, or Nothing
    client      \* what each request has found and does next

createVars == <<made, client>>

NoKey == "none"
Nothing == [key |-> NoKey, body |-> NoKey, value |-> NoKey]
Keys == {"growth_path", "import_key"}
\* A path's content or a batch is told apart by the request that makes it.
Values == Clients
\* A growth path depends on the match result only.
Body(k, b) == IF k = "growth_path" THEN "match_result" ELSE b
AllBodies == Bodies \cup {"match_result"}

Answer == [key : Keys, body : AllBodies, value : Values] \cup {Nothing}
IdleClient == [pc |-> "idle", key |-> NoKey, body |-> NoKey, answer |-> Nothing]
Client == [pc : {"idle", "look", "generate", "insert"}, key : Keys \cup {NoKey},
           body : AllBodies \cup {NoKey}, answer : Answer]

CreateTypeOK ==
    /\ made \in [Keys -> Answer]
    /\ client \in [Clients -> Client]

CreateInit ==
    /\ made = [k \in Keys |-> Nothing]
    /\ client = [c \in Clients |-> IdleClient]

\* A request arrives: a new one, or a client trying again.
Ask(c, k, b) ==
    /\ client[c].pc = "idle"
    /\ client' = [client EXCEPT ![c] = [IdleClient EXCEPT !.pc = "look", !.key = k,
                                                          !.body = Body(k, b)]]
    /\ UNCHANGED made

\* The request ends with an answer, or with an error.
Answered(c, answer) ==
    client' = [client EXCEPT ![c] = [IdleClient EXCEPT !.answer = answer]]
Refused(c) == client' = [client EXCEPT ![c] = IdleClient]

\* _find_growth_path, or the idempotency record: what is there is the answer,
\* unless the key was used for another request (IDEMPOTENCY_KEY_REUSED).
Lookup(c) ==
    LET found == made[client[c].key]
    IN  /\ client[c].pc = "look"
        /\ IF found = Nothing
           THEN client' = [client EXCEPT ![c].pc =
                    IF client[c].key = "growth_path" THEN "generate" ELSE "insert"]
           ELSE IF found.body = client[c].body THEN Answered(c, found)
                                               ELSE Refused(c)
        /\ UNCHANGED made

\* _call_provider: an answer within the scope of the missing capabilities.
Generated(c) ==
    /\ client[c].pc = "generate"
    /\ client' = [client EXCEPT ![c].pc = "insert"]
    /\ UNCHANGED made

\* The provider fails or its plan leaves the scope.
GenerationFails(c) ==
    /\ client[c].pc = "generate"
    /\ Refused(c)
    /\ UNCHANGED made

\* Mutant: without the unique constraint the later row is the one found.
NeverTaken(k) == FALSE

\* uq_growth_paths_match_role_prompt, and that of idempotency_records.
Taken(k) == made[k] # Nothing

\* The insert and its commit.
Insert(c) ==
    LET k == client[c].key
    IN  /\ client[c].pc = "insert"
        /\ IF Taken(k)
           THEN Refused(c) /\ UNCHANGED made
           ELSE /\ made' = [made EXCEPT ![k] =
                              [key |-> k, body |-> client[c].body, value |-> c]]
                /\ Answered(c, made'[k])

\* The request or its process dies.
ClientCrash(c) ==
    /\ client[c].pc # "idle"
    /\ Refused(c)
    /\ UNCHANGED made

CreateNext ==
    \E c \in Clients :
        \/ \E k \in Keys, b \in Bodies : Ask(c, k, b)
        \/ Lookup(c) \/ Generated(c) \/ GenerationFails(c) \/ Insert(c)
        \/ ClientCrash(c)

\* The expensive or irreversible thing is done once: whoever is answered gets
\* the same growth path for a match result and the same batch for a key, made
\* from the body it sent, however the requests overlap.
Once == INSTANCE WriteOnce WITH stored <- made, Bodies <- AllBodies,
                                answer <- [c \in Clients |-> client[c].answer]
ImplementsWriteOnce == Once!WriteOnceSpec
=============================================================================
