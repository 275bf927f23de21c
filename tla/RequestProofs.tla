---------------------------- MODULE RequestProofs ----------------------------
(***************************************************************************)
(* Proofs about the components that answer requests, for any sets of       *)
(* requests, bodies, users and sessions and any bounds.                    *)
(*                                                                         *)
(* CreateOnce implements WriteOnce: a lookup that finds something maps to  *)
(* a reuse, an insertion that is not refused to a creation, the start and  *)
(* an error to the end of an answer, and what happens in between to a      *)
(* stutter.                                                                *)
(*                                                                         *)
(* Recommendations: past its watermark a request holds the lock of the     *)
(* resume, so it is the only one there (OneHolder), and neither the        *)
(* profile nor the run it has looked for can change under it (Settled).    *)
(*                                                                         *)
(* Sessions: a user that exists never disappears and is never created      *)
(* again (Known), so that the number of its changes only grows, with every *)
(* session that is valid at the change revoked (Counted); and a request    *)
(* that has found another administrator holds that row until it commits    *)
(* (Kept).                                                                 *)
(***************************************************************************)
EXTENDS CreateOnce, Recommendations, Sessions, FiniteSetTheorems, TLAPS

-----------------------------------------------------------------------------
(* Growth paths and import keys                                            *)

CreateSpec == CreateInit /\ [][CreateNext]_createVars

\* A request under way asks for a key with a body.
WellAsked == \A c \in Clients :
    client[c].pc # "idle" => client[c].key \in Keys /\ client[c].body \in AllBodies

CreateInv == CreateTypeOK /\ WellAsked

\* The answers, as WriteOnce sees them.
Answers == [c \in Clients |-> client[c].answer]

LEMMA IdleIsTyped == IdleClient \in Client
BY DEF IdleClient, Client, Answer

LEMMA CreateInitially == CreateInit => CreateInv
BY IdleIsTyped DEF CreateInit, CreateInv, CreateTypeOK, WellAsked, IdleClient, Answer

\* An answer is a typed one, and ends the request.
LEMMA AnsweredKeeps ==
    ASSUME CreateInv, NEW c \in Clients, NEW a \in Answer, Answered(c, a)
    PROVE  client' \in [Clients -> Client] /\ WellAsked'
<1>1. [IdleClient EXCEPT !.answer = a] \in Client
  BY DEF IdleClient, Client
<1>2. client' \in [Clients -> Client]
  BY <1>1 DEF Answered, CreateInv, CreateTypeOK
<1>3. client'[c].pc = "idle" /\ \A d \in Clients \ {c} : client'[d] = client[d]
  BY DEF Answered, IdleClient, CreateInv, CreateTypeOK
<1> QED
  BY <1>2, <1>3 DEF CreateInv, WellAsked

LEMMA RefusedKeeps ==
    ASSUME CreateInv, NEW c \in Clients, Refused(c)
    PROVE  client' \in [Clients -> Client] /\ WellAsked'
BY IdleIsTyped DEF Refused, CreateInv, CreateTypeOK, WellAsked, IdleClient

\* The next phase of a request that goes on.
LEMMA MovesKeep ==
    ASSUME CreateInv, NEW c \in Clients, NEW pc \in {"generate", "insert"},
           client[c].pc # "idle", client' = [client EXCEPT ![c].pc = pc]
    PROVE  client' \in [Clients -> Client] /\ WellAsked' /\ Answers' = Answers
<1>1. [client[c] EXCEPT !.pc = pc] \in Client
  BY DEF CreateInv, CreateTypeOK, Client
<1>2. client' \in [Clients -> Client]
  BY <1>1 DEF CreateInv, CreateTypeOK
<1>3. /\ client'[c].key = client[c].key /\ client'[c].body = client[c].body
      /\ client'[c].answer = client[c].answer
      /\ \A d \in Clients \ {c} : client'[d] = client[d]
  BY DEF CreateInv, CreateTypeOK, Client
<1> QED
  BY <1>2, <1>3 DEF CreateInv, WellAsked, Answers

-----------------------------------------------------------------------------
\* The step relation of WriteOnce, with the variables of CreateOnce.
OnceStep ==
    \E c \in Clients, k \in Keys, b \in AllBodies :
        \/ \E v \in Values : Once!Create(c, k, b, v)
        \/ Once!Reuse(c, k, b)
        \/ Once!Dismiss(c)

\* The end of a request, seen from WriteOnce.
LEMMA AnswersChange ==
    ASSUME CreateInv, NEW c \in Clients, NEW a
    PROVE  /\ Answered(c, a) => Answers' = [Answers EXCEPT ![c] = a]
           /\ Refused(c) => Answers' = [Answers EXCEPT ![c] = Nothing]
<1>1. [IdleClient EXCEPT !.answer = a].answer = a /\ IdleClient.answer = Nothing
  BY DEF IdleClient
<1>2. ASSUME NEW q, client' = [client EXCEPT ![c] = q]
      PROVE  Answers' = [Answers EXCEPT ![c] = q.answer]
  BY <1>2 DEF CreateInv, CreateTypeOK, Answers
<1> QED
  BY <1>1, <1>2 DEF Answered, Refused

\* An error is a dismissal.
LEMMA RefusalDismisses ==
    ASSUME CreateInv, NEW c \in Clients, NEW k \in Keys, NEW b \in AllBodies,
           Refused(c), UNCHANGED made
    PROVE  OnceStep
<1>1. Once!Dismiss(c)
  BY AnswersChange DEF Once!Dismiss, Answers
<1> QED
  BY <1>1 DEF OnceStep

\* Every step keeps the types and is a step of WriteOnce or none.
LEMMA CreateRefines ==
    CreateInv /\ [CreateNext]_createVars => CreateInv' /\ [OnceStep]_<<made, Answers>>
<1> SUFFICES ASSUME CreateInv, [CreateNext]_createVars
             PROVE  CreateInv' /\ [OnceStep]_<<made, Answers>>
  OBVIOUS
<1> USE DEF CreateInv
<1>1. CASE UNCHANGED createVars
  BY <1>1 DEF createVars, CreateTypeOK, WellAsked, Answers
<1>2. ASSUME NEW c \in Clients, NEW k \in Keys, NEW b \in Bodies, Ask(c, k, b)
      PROVE  CreateInv' /\ OnceStep
  <2> DEFINE asks == [IdleClient EXCEPT !.pc = "look", !.key = k, !.body = Body(k, b)]
  <2>1. Body(k, b) \in AllBodies
    BY DEF Body, AllBodies
  <2>2. asks \in Client
    BY <2>1 DEF IdleClient, Client, Answer
  <2>3. client' = [client EXCEPT ![c] = asks] /\ made' = made
    BY <1>2 DEF Ask
  <2>4. asks.key = k /\ asks.body = Body(k, b) /\ asks.answer = Nothing
    BY DEF IdleClient
  <2> HIDE DEF asks
  <2>5. CreateInv'
    BY <2>1, <2>2, <2>3, <2>4 DEF CreateTypeOK, WellAsked
  <2>6. Answers' = [Answers EXCEPT ![c] = Nothing]
    BY <2>3, <2>4 DEF CreateTypeOK, Answers
  <2>7. Once!Dismiss(c)
    BY <2>3, <2>6 DEF Once!Dismiss, Answers
  <2> QED
    BY <2>1, <2>5, <2>7 DEF OnceStep
<1>3. ASSUME NEW c \in Clients, client[c].pc # "idle", Refused(c), UNCHANGED made
      PROVE  CreateInv' /\ OnceStep
  <2>1. client[c].key \in Keys /\ client[c].body \in AllBodies
    BY <1>3 DEF WellAsked
  <2> QED
    BY <1>3, <2>1, RefusedKeeps, RefusalDismisses DEF CreateTypeOK
<1>4. ASSUME NEW c \in Clients, Lookup(c)
      PROVE  CreateInv' /\ [OnceStep]_<<made, Answers>>
  <2> DEFINE k == client[c].key
             b == client[c].body
  <2>1. k \in Keys /\ b \in AllBodies /\ made[k] \in Answer /\ made' = made
    BY <1>4 DEF Lookup, WellAsked, CreateTypeOK
  <2>2. CASE made[k] = Nothing
    <3>1. PICK pc \in {"generate", "insert"} : client' = [client EXCEPT ![c].pc = pc]
      BY <1>4, <2>2 DEF Lookup
    <3> QED
      BY <1>4, <2>1, <3>1, MovesKeep DEF Lookup, CreateTypeOK
  <2>3. CASE made[k] # Nothing /\ made[k].body = b
    <3>1. Answered(c, made[k])
      BY <1>4, <2>3 DEF Lookup
    <3>2. Once!Reuse(c, k, b)
      BY <2>1, <2>3, <3>1, AnswersChange DEF Once!Reuse, Answers
    <3>3. CreateInv'
      BY <2>1, <3>1, AnsweredKeeps DEF CreateTypeOK
    <3>4. OnceStep
      BY <1>4, <2>1, <3>2 DEF OnceStep, Once!Reuse
    <3> QED
      BY <3>3, <3>4
  <2>4. CASE made[k] # Nothing /\ made[k].body # b
    BY <1>3, <1>4, <2>4 DEF Lookup
  <2> QED
    BY <2>2, <2>3, <2>4
<1>5. ASSUME NEW c \in Clients, Generated(c)
      PROVE  CreateInv' /\ UNCHANGED <<made, Answers>>
  BY <1>5, MovesKeep DEF Generated, CreateTypeOK
<1>6. ASSUME NEW c \in Clients, Insert(c) PROVE CreateInv' /\ OnceStep
  <2> DEFINE k == client[c].key
             b == client[c].body
             row == [key |-> k, body |-> b, value |-> c]
  <2>1. k \in Keys /\ b \in AllBodies
    BY <1>6 DEF Insert, WellAsked
  <2>2. CASE Taken(k)
    BY <1>3, <1>6, <2>2 DEF Insert
  <2>3. CASE ~ Taken(k)
    <3>1. row \in Answer
      BY <2>1 DEF Answer, Values
    <3>2. made' = [made EXCEPT ![k] = row] /\ Answered(c, made'[k])
      BY <1>6, <2>3 DEF Insert
    <3>3. made'[k] = row
      BY <2>1, <3>2 DEF CreateTypeOK
    <3>4. made' \in [Keys -> Answer]
      BY <2>1, <3>1, <3>2 DEF CreateTypeOK
    <3>5. Once!Create(c, k, b, c)
      BY <2>3, <3>2, <3>3, AnswersChange DEF Once!Create, Taken, Answers
    <3> QED
      BY <2>1, <3>1, <3>2, <3>3, <3>4, <3>5, AnsweredKeeps
         DEF OnceStep, Values, CreateTypeOK
  <2> QED
    BY <2>2, <2>3
<1>7. ASSUME NEW c \in Clients, GenerationFails(c) \/ ClientCrash(c)
      PROVE  CreateInv' /\ OnceStep
  BY <1>3, <1>7 DEF GenerationFails, ClientCrash
<1> QED
  BY <1>1, <1>2, <1>4, <1>5, <1>6, <1>7 DEF CreateNext

\* Types are kept in every reachable state.
THEOREM CreateTyped == CreateSpec => []CreateTypeOK
<1>1. CreateInv /\ [CreateNext]_createVars => CreateInv'
  BY CreateRefines
<1>2. CreateInv => CreateTypeOK
  BY DEF CreateInv
<1> QED
  BY CreateInitially, <1>1, <1>2, PTL DEF CreateSpec

\* What is created under a key is created once and is what everybody who is
\* answered gets.
THEOREM CreatedOnce == CreateSpec => ImplementsWriteOnce
<1>1. CreateInit => Once!WriteOnceInit
  BY DEF CreateInit, Once!WriteOnceInit, IdleClient
<1>2. CreateInv /\ [CreateNext]_createVars => CreateInv'
  BY CreateRefines
<1>3. CreateInv /\ [CreateNext]_createVars =>
        [\E c \in Clients, k \in Keys, b \in AllBodies :
           \/ \E v \in Values : Once!Create(c, k, b, v)
           \/ Once!Reuse(c, k, b)
           \/ Once!Dismiss(c)]_<<made, [c \in Clients |-> client[c].answer]>>
  BY CreateRefines DEF OnceStep, Answers
<1> QED
  BY CreateInitially, <1>1, <1>2, <1>3, PTL
     DEF CreateSpec, ImplementsWriteOnce, Once!WriteOnceSpec

-----------------------------------------------------------------------------
(* Match runs                                                              *)

MatchSpec == MatchInit /\ [][MatchNext]_matchVars

\* A request under way holds the lock.
OneHolder == \A a \in Askers : asker[a].pc # "idle" => holder = a

\* What a request has read of the resume still holds.
Settled ==
    \A a \in Askers : asker[a].pc # "idle" =>
        /\ asker[a].profile = confirmed /\ ~ archived
        /\ asker[a].profile > 0 /\ asker[a].graph > 0
        /\ asker[a].pc \in {"score", "insert"} => RunOf(a) = Nobody

MatchInv == MatchTypeOK /\ OneHolder /\ Settled

LEMMA MatchInitially == MatchInit => MatchInv
<1> SUFFICES ASSUME MatchInit PROVE MatchInv
  OBVIOUS
<1>1. IdleAsker \in Asker
  BY RecommendationConstants DEF IdleAsker, Asker
<1>2. confirmed \in 0 .. MaxConfirmed /\ graph \in 0 .. MaxGraphs
  BY RecommendationConstants DEF MatchInit
<1>3. archived \in BOOLEAN /\ consistent \in BOOLEAN
  BY Zenon DEF MatchInit
<1>4. /\ matchRuns \in [1 .. MaxConfirmed -> [1 .. MaxGraphs -> Askers \cup {Nobody}]]
      /\ holder \in Askers \cup {Nobody}
      /\ asker \in [Askers -> Asker]
  BY <1>1 DEF MatchInit
<1>5. \A a \in Askers : asker[a].pc = "idle"
  BY DEF MatchInit, IdleAsker
<1> QED
  BY <1>2, <1>3, <1>4, <1>5 DEF MatchInv, MatchTypeOK, OneHolder, Settled

\* Every action keeps every variable in its type.
LEMMA MatchTyping == MatchTypeOK /\ OneHolder /\ Settled /\ [MatchNext]_matchVars => MatchTypeOK'
<1> SUFFICES ASSUME MatchTypeOK, OneHolder, Settled, [MatchNext]_matchVars
             PROVE  MatchTypeOK'
  OBVIOUS
<1> USE RecommendationConstants DEF MatchTypeOK
<1>1. CASE UNCHANGED matchVars
  BY <1>1 DEF matchVars
<1>2. CASE ConfirmProfile \/ ArchiveResume \/ PublishGraph
  <2>1. confirmed' \in 0 .. MaxConfirmed /\ graph' \in 0 .. MaxGraphs
    BY <1>2 DEF ConfirmProfile, ArchiveResume, PublishGraph
  <2>2. archived' \in BOOLEAN /\ consistent' \in BOOLEAN
    BY <1>2, Zenon DEF ConfirmProfile, ArchiveResume, PublishGraph
  <2> QED
    BY <1>2, <2>1, <2>2, Zenon DEF ConfirmProfile, ArchiveResume, PublishGraph
<1>3. ASSUME NEW a \in Askers, LoadWatermark(a) PROVE MatchTypeOK'
  <2>1. [pc |-> "find", profile |-> confirmed, graph |-> graph] \in Asker
    BY DEF Asker
  <2> QED
    BY <1>3, <2>1 DEF LoadWatermark
<1>4. ASSUME NEW a \in Askers, Done(a)
      PROVE  /\ asker' \in [Askers -> Asker]
             /\ holder' \in Askers \cup {Nobody}
  BY <1>4 DEF Done, IdleAsker, Asker
<1>5. ASSUME NEW a \in Askers, NEW pc \in {"score", "insert"}, Step(a, pc)
      PROVE  asker' \in [Askers -> Asker]
  BY <1>5 DEF Step, Asker
<1>6. ASSUME NEW a \in Askers, FindMatchRun(a) PROVE MatchTypeOK'
  BY <1>4, <1>5, <1>6 DEF FindMatchRun
<1>7. ASSUME NEW a \in Askers, ScoreRoles(a) PROVE MatchTypeOK'
  BY <1>4, <1>5, <1>7 DEF ScoreRoles
<1>8. ASSUME NEW a \in Askers, InsertMatchRun(a) PROVE MatchTypeOK'
  <2>1. asker[a].profile \in 1 .. MaxConfirmed /\ asker[a].graph \in 1 .. MaxGraphs
    BY <1>8 DEF InsertMatchRun, Settled, Asker
  <2>2. matchRuns' = matchRuns
        \/ matchRuns' = [matchRuns EXCEPT ![asker[a].profile] =
                           [matchRuns[asker[a].profile] EXCEPT ![asker[a].graph] = a]]
    BY <1>8, <2>1 DEF InsertMatchRun
  <2>3. [matchRuns[asker[a].profile] EXCEPT ![asker[a].graph] = a]
           \in [1 .. MaxGraphs -> Askers \cup {Nobody}]
    BY <2>1
  <2>4. matchRuns' \in [1 .. MaxConfirmed -> [1 .. MaxGraphs -> Askers \cup {Nobody}]]
    BY <2>1, <2>2, <2>3
  <2> QED
    BY <1>4, <1>8, <2>4 DEF InsertMatchRun
<1>9. ASSUME NEW a \in Askers, AskerDies(a) PROVE MatchTypeOK'
  BY <1>4, <1>9 DEF AskerDies
<1> QED
  BY <1>1, <1>2, <1>3, <1>6, <1>7, <1>8, <1>9 DEF MatchNext

\* Only the holder goes on, and it gives the lock back when it ends.
LEMMA HolderStays == MatchInv /\ [MatchNext]_matchVars => OneHolder'
<1> SUFFICES ASSUME MatchInv, [MatchNext]_matchVars PROVE OneHolder'
  OBVIOUS
<1> USE RecommendationConstants DEF MatchInv, MatchTypeOK, OneHolder, IdleAsker
<1>1. CASE UNCHANGED matchVars \/ ConfirmProfile \/ ArchiveResume \/ PublishGraph
  BY <1>1 DEF matchVars, ConfirmProfile, ArchiveResume, PublishGraph
<1>2. ASSUME NEW a \in Askers, LoadWatermark(a) PROVE OneHolder'
  BY <1>2 DEF LoadWatermark, MayLock
<1>3. ASSUME NEW a \in Askers, Done(a) PROVE OneHolder'
  BY <1>3 DEF Done
<1>4. ASSUME NEW a \in Askers, NEW pc \in {"score", "insert"},
             asker[a].pc # "idle", Step(a, pc), UNCHANGED holder
      PROVE  OneHolder'
  BY <1>4 DEF Step, Asker
<1> QED
  BY <1>1, <1>2, <1>3, <1>4
     DEF MatchNext, FindMatchRun, ScoreRoles, InsertMatchRun, AskerDies

\* Under the lock nothing changes that a request has read.
LEMMA SettledStays == MatchInv /\ [MatchNext]_matchVars => Settled'
<1> SUFFICES ASSUME MatchInv, [MatchNext]_matchVars PROVE Settled'
  OBVIOUS
<1> USE RecommendationConstants
    DEF MatchInv, MatchTypeOK, OneHolder, Settled, IdleAsker, RunOf
<1>1. CASE UNCHANGED matchVars
  BY <1>1 DEF matchVars
<1>2. CASE ConfirmProfile \/ ArchiveResume \/ PublishGraph
  BY <1>2 DEF ConfirmProfile, ArchiveResume, PublishGraph
<1>3. ASSUME NEW a \in Askers, LoadWatermark(a) PROVE Settled'
  BY <1>3 DEF LoadWatermark, MayLock
<1>4. ASSUME NEW a \in Askers, asker[a].pc # "idle", Done(a),
             UNCHANGED <<confirmed, archived>>
      PROVE  Settled'
  \* Nobody else is under way.
  <2>1. \A b \in Askers : asker'[b].pc = "idle"
    BY <1>4 DEF Done
  <2> QED
    BY <2>1
<1>5. ASSUME NEW a \in Askers, FindMatchRun(a) PROVE Settled'
  <2>1. CASE RunOf(a) # Nobody
    BY <1>4, <1>5, <2>1 DEF FindMatchRun
  <2>2. CASE RunOf(a) = Nobody
    BY <1>5, <2>2 DEF FindMatchRun, Step, Asker
  <2> QED
    BY <2>1, <2>2
<1>6. ASSUME NEW a \in Askers, ScoreRoles(a) PROVE Settled'
  <2>1. CASE ~ consistent
    BY <1>4, <1>6, <2>1 DEF ScoreRoles
  <2>2. CASE consistent
    <3>1. Step(a, "insert") /\ asker[a].pc = "score"
      BY <1>6, <2>2 DEF ScoreRoles
    <3>2. /\ asker'[a].profile = asker[a].profile /\ asker'[a].graph = asker[a].graph
          /\ \A b \in Askers \ {a} : asker'[b] = asker[b]
      BY <3>1 DEF Step, Asker
    <3> QED
      BY <1>6, <3>1, <3>2 DEF ScoreRoles
  <2> QED
    BY <2>1, <2>2
<1>7. ASSUME NEW a \in Askers, InsertMatchRun(a) \/ AskerDies(a) PROVE Settled'
  BY <1>4, <1>7 DEF InsertMatchRun, AskerDies
<1> QED
  BY <1>1, <1>2, <1>3, <1>5, <1>6, <1>7 DEF MatchNext

\* The inductive invariant holds in every reachable state.
THEOREM MatchInvariance == MatchSpec => []MatchInv
<1>1. MatchInv /\ [MatchNext]_matchVars => MatchInv'
  BY MatchTyping, HolderStays, SettledStays DEF MatchInv
<1> QED
  BY MatchInitially, <1>1, PTL DEF MatchSpec

\* No two requests ever insert one match run: whoever scores is alone, and the
\* profile it scores is still the confirmed one.
THEOREM MatchRunsConflictFree == MatchSpec => []MatchRunsNeverConflict
<1>1. MatchInv => MatchRunsNeverConflict
  BY RecommendationConstants
     DEF MatchInv, MatchTypeOK, OneHolder, Settled, MatchRunsNeverConflict, Asker
<1> QED
  BY <1>1, MatchInvariance, PTL

-----------------------------------------------------------------------------
(* Users and sessions                                                       *)

SessionsSpec == SessionsInit /\ [][SessionsNext]_sessionVars

Call == [pc : {"idle", "login", "count", "fail", "create", "update", "commit"},
         target : Users \cup {NoUser}, loaded : UserRow, want : Wishes, count : Nat]

\* The rows, typed.
Typed ==
    /\ user \in [Users -> UserRow]
    /\ session \in [SessionIds -> SessionRow]
    /\ failures \in Nat /\ guesses \in Nat
    /\ lock \in [Users -> Callers \cup {Free}]
    /\ caller \in [Callers -> Call]

\* A request under way is about a user; a change is about one that exists.
Known ==
    /\ \A u \in Users : ~ Exists(u) => user[u].changes = 0
    /\ \A c \in Callers :
          /\ caller[c].pc # "idle" => caller[c].target \in Users
          /\ caller[c].pc = "create" => caller[c].want \in Roles
          /\ caller[c].pc \in {"update", "commit"} => Exists(caller[c].target)

\* Another active administrator, whose row the request holds.
Kept ==
    \A c \in Callers :
        caller[c].pc = "commit" /\ RemovesActiveAdmin(caller[c].loaded, caller[c].want) =>
            \E u \in Users \ {caller[c].target} : IsActiveAdmin(u) /\ lock[u] = c

SessionsInv == Typed /\ Known /\ Kept /\ RevocationIsComplete

LEMMA NoRowIsTyped == NoRow \in UserRow /\ NoRow.changes = 0
<1>1. 0 \in 0 .. MaxChanges
  BY SessionConstants
<1> QED
  BY <1>1 DEF NoRow, UserRow

LEMMA IdleIsCall == IdleCaller \in Call /\ IdleCaller.pc = "idle"
BY NoRowIsTyped DEF IdleCaller, CallOf, Call, Wishes

LEMMA SessionsInitially == SessionsInit => SessionsInv
<1> SUFFICES ASSUME SessionsInit PROVE SessionsInv
  OBVIOUS
<1>1. user \in [Users -> UserRow] /\ \A u \in Users : user[u].changes = 0
  <2> DEFINE admin == [role |-> "admin", active |-> TRUE, changes |-> 0]
  <2>1. 0 \in 0 .. MaxChanges
    BY SessionConstants
  <2>2. admin \in UserRow /\ admin.changes = 0
    BY <2>1 DEF UserRow, Roles
  <2>3. PICK first \in Users : user = [u \in Users |-> IF u = first THEN admin ELSE NoRow]
    BY DEF SessionsInit
  <2> HIDE DEF admin
  <2> QED
    BY <2>2, <2>3, NoRowIsTyped
<1>2. session \in [SessionIds -> SessionRow] /\ \A s \in SessionIds : session[s].owner = NoUser
  BY SessionConstants DEF SessionsInit, NoSession, SessionRow
<1>3. caller \in [Callers -> Call] /\ \A c \in Callers : caller[c].pc = "idle"
  BY IdleIsCall DEF SessionsInit
<1>4. failures \in Nat /\ guesses \in Nat /\ lock \in [Users -> Callers \cup {Free}]
  BY DEF SessionsInit
<1> QED
  BY <1>1, <1>2, <1>3, <1>4
     DEF SessionsInv, Typed, Known, Kept, RevocationIsComplete

\* The end of a request gives back its own locks and no other.
LEMMA EndCallKeeps ==
    ASSUME Typed, Known, NEW c \in Callers, EndCall(c)
    PROVE  /\ caller' \in [Callers -> Call]
           /\ lock' \in [Users -> Callers \cup {Free}]
           /\ caller'[c].pc = "idle"
           /\ \A d \in Callers \ {c} : caller'[d] = caller[d]
           /\ \A u \in Users : lock[u] # c => lock'[u] = lock[u]
BY IdleIsCall DEF EndCall, Typed

\* The next phase of a request.
LEMMA GoesOn ==
    ASSUME Typed, Known, NEW c \in Callers, NEW q \in Call,
           caller' = [caller EXCEPT ![c] = q]
    PROVE  /\ caller' \in [Callers -> Call]
           /\ caller'[c] = q
           /\ \A d \in Callers \ {c} : caller'[d] = caller[d]
BY DEF Typed

\* Revoking reaches every session of the user and no other.
LEMMA Revoking ==
    ASSUME Typed, NEW u \in Users, RevokeActiveSessions(u)
    PROVE  /\ session' \in [SessionIds -> SessionRow]
           /\ \A s \in SessionIds :
                 /\ session'[s].owner = session[s].owner
                 /\ session'[s].changes = session[s].changes
                 /\ session[s].revoked => session'[s].revoked
                 /\ session[s].owner = u => session'[s].revoked
BY DEF Typed, RevokeActiveSessions, SessionRow

-----------------------------------------------------------------------------
\* A step that ends a request and changes no user and no session's count.
LEMMA EndingKeeps ==
    ASSUME SessionsInv, NEW c \in Callers, EndCall(c),
           UNCHANGED <<user, session>>, failures' \in Nat, guesses' \in Nat
    PROVE  SessionsInv'
<1>1. Typed'
  BY EndCallKeeps DEF SessionsInv, Typed
<1>2. Known'
  BY EndCallKeeps DEF SessionsInv, Known, Exists
<1>3. Kept'
  BY EndCallKeeps DEF SessionsInv, Kept, IsActiveAdmin, RemovesActiveAdmin
<1> QED
  BY <1>1, <1>2, <1>3 DEF SessionsInv, RevocationIsComplete

\* A request that begins or goes on without locking or writing anything.
LEMMA BeginningKeeps ==
    ASSUME SessionsInv, NEW c \in Callers, NEW q \in Call,
           caller' = [caller EXCEPT ![c] = q],
           UNCHANGED <<user, session, failures, guesses, lock>>,
           q.target \in Users,
           q.pc = "create" => q.want \in Roles,
           q.pc \in {"update", "commit"} => Exists(q.target),
           q.pc = "commit" => ~ RemovesActiveAdmin(q.loaded, q.want)
    PROVE  SessionsInv'
<1>1. Typed'
  BY GoesOn DEF SessionsInv, Typed
<1>2. Known'
  BY GoesOn DEF SessionsInv, Known, Exists
<1>3. Kept'
  BY GoesOn DEF SessionsInv, Kept, IsActiveAdmin, RemovesActiveAdmin
<1> QED
  BY <1>1, <1>2, <1>3 DEF SessionsInv, RevocationIsComplete

\* A step on the sessions alone that inserts none.
LEMMA SessionsOnly ==
    ASSUME SessionsInv, UNCHANGED <<user, lock, caller>>,
           failures' \in Nat, guesses' \in Nat,
           session' \in [SessionIds -> SessionRow],
           \A s \in SessionIds :
              session'[s].owner # NoUser /\ ~ session'[s].revoked =>
                 /\ session'[s].owner = session[s].owner
                 /\ session'[s].changes = session[s].changes
                 /\ ~ session[s].revoked
    PROVE  SessionsInv'
<1>1. Typed' /\ Known'
  BY DEF SessionsInv, Typed, Known, Exists
<1>2. Kept'
  BY DEF SessionsInv, Kept, IsActiveAdmin, RemovesActiveAdmin
<1> QED
  BY <1>1, <1>2 DEF SessionsInv, RevocationIsComplete

\* Logins.
LEMMA LoginKeeps ==
    ASSUME SessionsInv, NEW c \in Callers, NEW s \in SessionIds, CommitLogin(c, s)
    PROVE  SessionsInv'
<1> DEFINE u == caller[c].target
           new == [owner |-> u, revoked |-> FALSE, changes |-> user[u].changes]
<1>1. u \in Users /\ user[u] \in UserRow
  BY DEF CommitLogin, SessionsInv, Known, Typed
<1>2. new \in SessionRow
  BY <1>1 DEF UserRow, SessionRow
<1>3. session' = [session EXCEPT ![s] = new]
  BY DEF CommitLogin
<1>4. /\ new.owner = u /\ new.changes = user[u].changes
      /\ session'[s] = new
      /\ \A t \in SessionIds \ {s} : session'[t] = session[t]
      /\ session' \in [SessionIds -> SessionRow]
  BY <1>2, <1>3 DEF SessionsInv, Typed
<1>5. RevocationIsComplete'
  <2> HIDE DEF new
  <2> QED
    BY <1>4 DEF CommitLogin, SessionsInv, RevocationIsComplete
<1>6. Typed'
  BY <1>4, EndCallKeeps DEF CommitLogin, SessionsInv, Typed
<1>7. Known'
  BY EndCallKeeps DEF CommitLogin, SessionsInv, Known, Exists
<1>8. Kept'
  BY EndCallKeeps DEF CommitLogin, SessionsInv, Kept, IsActiveAdmin, RemovesActiveAdmin
<1> QED
  BY <1>5, <1>6, <1>7, <1>8 DEF SessionsInv

\* Creating a user touches none that exists.
LEMMA CreationKeeps ==
    ASSUME SessionsInv, NEW c \in Callers, CommitCreate(c)
    PROVE  SessionsInv'
<1> DEFINE u == caller[c].target
           row == [role |-> caller[c].want, active |-> TRUE, changes |-> 0]
<1>1. u \in Users /\ caller[c].want \in Roles
  BY DEF CommitCreate, SessionsInv, Known
<1>2. CASE Exists(u)
  BY <1>2, EndingKeeps DEF CommitCreate, SessionsInv, Typed
<1>3. CASE ~ Exists(u)
  <2>1. row \in UserRow
    BY <1>1, SessionConstants DEF UserRow
  <2>2. user' = [user EXCEPT ![u] = row]
    BY <1>3 DEF CommitCreate
  <2>3. /\ user' \in [Users -> UserRow]
        /\ user'[u] = row /\ row.changes = 0 /\ row.role \in Roles
        /\ \A v \in Users \ {u} : user'[v] = user[v]
    BY <1>1, <2>1, <2>2 DEF SessionsInv, Typed
  <2>4. user[u].changes = 0
    BY <1>1, <1>3 DEF SessionsInv, Known
  <2>5. user'[u].role # "absent"
    BY <2>3 DEF Roles
  <2> HIDE DEF row
  <2>6. \A v \in Users : user'[v].changes = user[v].changes /\ (Exists(v) => user'[v] = user[v])
    BY <1>3, <2>3, <2>4
  <2>7. Typed'
    BY <2>3, EndCallKeeps DEF CommitCreate, SessionsInv, Typed
  <2>8. Known'
    BY <2>3, <2>5, <2>6, EndCallKeeps DEF CommitCreate, SessionsInv, Known, Exists
  <2>9. Kept'
    BY <2>6, EndCallKeeps
       DEF CommitCreate, SessionsInv, Kept, IsActiveAdmin, RemovesActiveAdmin, Exists
  <2>10. RevocationIsComplete'
    BY <2>6 DEF CommitCreate, SessionsInv, RevocationIsComplete, Typed, SessionRow
  <2> QED
    BY <2>7, <2>8, <2>9, <2>10 DEF SessionsInv
<1> QED
  BY <1>2, <1>3

\* The check of an update locks every other administrator's row.
LEMMA CheckKeeps ==
    ASSUME SessionsInv, NEW c \in Callers, CheckUpdate(c)
    PROVE  SessionsInv'
<1> DEFINE admins == {u \in Users : IsActiveAdmin(u)}
           next == [caller[c] EXCEPT !.pc = "commit"]
<1>1. CASE admins \subseteq {caller[c].target}
  BY <1>1, EndingKeeps DEF CheckUpdate, SessionsInv, Typed
<1>2. CASE ~ (admins \subseteq {caller[c].target})
  <2>1. /\ next \in Call /\ next.pc = "commit"
        /\ next.target = caller[c].target /\ next.loaded = caller[c].loaded
        /\ next.want = caller[c].want
    BY DEF SessionsInv, Typed, Call
  <2>2. /\ caller' = [caller EXCEPT ![c] = next]
        /\ caller[c].pc = "update" /\ UNCHANGED <<user, session, failures, guesses>>
        /\ \A u \in admins : lock[u] \in {c, Free}
        /\ lock' = [u \in Users |-> IF u \in admins THEN c ELSE lock[u]]
    BY <1>2 DEF CheckUpdate, LockUsers, MayWrite
  <2> HIDE DEF next
  <2>3. /\ caller' \in [Callers -> Call] /\ caller'[c] = next
        /\ \A d \in Callers \ {c} : caller'[d] = caller[d]
    BY <2>1, <2>2, GoesOn DEF SessionsInv
  <2>4. Typed'
    BY <2>2, <2>3 DEF SessionsInv, Typed
  <2>5. Known'
    BY <2>1, <2>2, <2>3 DEF SessionsInv, Known, Exists
  <2>6. ASSUME NEW d \in Callers, caller'[d].pc = "commit",
               RemovesActiveAdmin(caller'[d].loaded, caller'[d].want)
        PROVE  \E u \in Users \ {caller'[d].target} : IsActiveAdmin(u)' /\ lock'[u] = d
    <3>1. CASE d = c
      <4>1. PICK u \in admins : u # caller[c].target
        BY <1>2
      <4> QED
        BY <2>1, <2>2, <2>3, <3>1, <4>1 DEF IsActiveAdmin
    <3>2. CASE d # c
      \* Had d found an administrator, c could not have locked its row.
      <4>1. PICK u \in Users \ {caller[d].target} : IsActiveAdmin(u) /\ lock[u] = d
        BY <2>3, <2>6, <3>2 DEF SessionsInv, Kept
      <4> QED
        BY <2>2, <3>2, <4>1, SessionConstants
    <3> QED
      BY <3>1, <3>2
  <2>7. Kept'
    BY <2>6 DEF Kept, IsActiveAdmin, RemovesActiveAdmin
  <2> QED
    BY <2>2, <2>4, <2>5, <2>7 DEF SessionsInv, RevocationIsComplete
<1> QED
  BY <1>1, <1>2

\* A change that does not revoke the sessions does not count, and none
\* makes a user disappear.
LEMMA ChangedRow ==
    ASSUME NEW row \in UserRow, row.changes < MaxChanges,
           NEW loaded \in UserRow, NEW want \in Wishes
    PROVE  /\ Changed(row, loaded, want) \in UserRow
           /\ ~ Revokes(loaded, want) => Changed(row, loaded, want).changes = row.changes
           /\ row.role # "absent" => Changed(row, loaded, want).role # "absent"
<1> DEFINE new == Changed(row, loaded, want)
<1> USE SessionConstants DEF UserRow, Roles, Wishes
<1>1. CASE want \in Roles /\ want # loaded.role
  <2>1. new = [role |-> want, active |-> row.active, changes |-> row.changes + 1]
    BY <1>1 DEF Changed
  <2>2. Revokes(loaded, want)
    BY <1>1, Zenon DEF Revokes
  <2> QED
    BY <1>1, <2>1, <2>2
<1>2. CASE want = "deactivate" /\ loaded.active
  <2>1. new = [role |-> row.role, active |-> FALSE, changes |-> row.changes + 1]
    BY <1>2 DEF Changed
  <2>2. Revokes(loaded, want)
    BY <1>2, Zenon DEF Revokes
  <2> QED
    BY <2>1, <2>2
<1>3. CASE want = "activate" /\ ~ loaded.active
  <2>1. new = [row EXCEPT !.active = TRUE]
    BY <1>3 DEF Changed
  <2> QED
    BY <2>1
<1>4. CASE want = "password"
  <2>1. new = [row EXCEPT !.changes = @ + 1]
    BY <1>4 DEF Changed
  <2> QED
    BY <1>4, <2>1 DEF Revokes
<1>5. CASE /\ ~ (want \in Roles /\ want # loaded.role)
           /\ ~ (want = "deactivate" /\ loaded.active)
           /\ ~ (want = "activate" /\ ~ loaded.active) /\ want # "password"
  <2>1. new = row
    BY <1>5 DEF Changed
  <2> QED
    BY <2>1
<1> QED
  BY <1>1, <1>2, <1>3, <1>4, <1>5

\* A change revokes what it must and leaves the rows others hold.
LEMMA ChangeKeeps ==
    ASSUME SessionsInv, NEW c \in Callers, CommitChange(c)
    PROVE  SessionsInv'
<1> DEFINE t == caller[c].target
           new == Changed(user[t], caller[c].loaded, caller[c].want)
<1>1. /\ t \in Users /\ Exists(t) /\ user[t] \in UserRow
      /\ caller[c].loaded \in UserRow /\ caller[c].want \in Wishes
  BY DEF CommitChange, SessionsInv, Known, Typed, Call
<1>2. /\ new \in UserRow /\ new.role # "absent"
      /\ ~ Revokes(caller[c].loaded, caller[c].want) => new.changes = user[t].changes
  BY <1>1, ChangedRow DEF CommitChange, Exists
<1>3. user' = [user EXCEPT ![t] = new]
  BY DEF CommitChange
<1> HIDE DEF new
<1>4. /\ user' \in [Users -> UserRow] /\ user'[t] = new
      /\ \A v \in Users \ {t} : user'[v] = user[v]
  BY <1>1, <1>2, <1>3 DEF SessionsInv, Typed
<1>5. ASSUME Revokes(caller[c].loaded, caller[c].want)
      PROVE  session' \in [SessionIds -> SessionRow] /\ RevocationIsComplete'
  <2>1. RevokeActiveSessions(t)
    BY <1>5 DEF CommitChange
  <2>2. session' \in [SessionIds -> SessionRow]
    BY <1>1, <2>1, Revoking DEF SessionsInv
  <2>3. RevocationIsComplete'
    BY <1>1, <1>4, <2>1, Revoking DEF SessionsInv, RevocationIsComplete, Typed, SessionRow
  <2> QED
    BY <2>2, <2>3
<1>6. ASSUME ~ Revokes(caller[c].loaded, caller[c].want)
      PROVE  session' \in [SessionIds -> SessionRow] /\ RevocationIsComplete'
  <2>1. session' = session
    BY <1>6 DEF CommitChange
  <2>2. \A v \in Users : user'[v].changes = user[v].changes
    BY <1>2, <1>4, <1>6
  <2> QED
    BY <2>1, <2>2 DEF SessionsInv, RevocationIsComplete, Typed, SessionRow
<1>7. session' \in [SessionIds -> SessionRow] /\ RevocationIsComplete'
  BY <1>5, <1>6
<1>8. Typed'
  BY <1>4, <1>7, EndCallKeeps DEF CommitChange, SessionsInv, Typed
<1>9. Known'
  BY <1>1, <1>2, <1>4, EndCallKeeps DEF CommitChange, SessionsInv, Known, Exists
<1>10. Kept'
  <2> SUFFICES ASSUME NEW d \in Callers, caller'[d].pc = "commit",
                      RemovesActiveAdmin(caller'[d].loaded, caller'[d].want)
               PROVE  \E u \in Users \ {caller'[d].target} :
                         IsActiveAdmin(u)' /\ lock'[u] = d
    BY DEF Kept, IsActiveAdmin, RemovesActiveAdmin
  <2>1. d # c /\ caller'[d] = caller[d]
    BY EndCallKeeps DEF CommitChange, SessionsInv
  <2>2. PICK u \in Users \ {caller[d].target} : IsActiveAdmin(u) /\ lock[u] = d
    BY <2>1 DEF SessionsInv, Kept
  <2>3. u # t
    BY <2>1, <2>2, SessionConstants DEF CommitChange, MayWrite
  <2> QED
    BY <1>4, <2>1, <2>2, <2>3, EndCallKeeps DEF CommitChange, SessionsInv, IsActiveAdmin
<1> QED
  BY <1>7, <1>8, <1>9, <1>10 DEF SessionsInv

-----------------------------------------------------------------------------
\* Every action preserves the inductive invariant.
LEMMA SessionsStepKeeps == SessionsInv /\ [SessionsNext]_sessionVars => SessionsInv'
<1> SUFFICES ASSUME SessionsInv, [SessionsNext]_sessionVars PROVE SessionsInv'
  OBVIOUS
<1>1. CASE UNCHANGED sessionVars
  BY <1>1 DEF sessionVars, SessionsInv, Typed, Known, Kept, RevocationIsComplete,
              Exists, IsActiveAdmin, RemovesActiveAdmin
<1>2. ASSUME NEW c \in Callers, NEW u \in Users, NEW correct \in BOOLEAN,
             ReadLogin(c, u, correct)
      PROVE  SessionsInv'
  <2>1. PICK pc \in {"fail", "login", "count"}, n \in Nat :
           caller' = [caller EXCEPT ![c] = CallOf(pc, u, "none", n)]
    BY <1>2, SessionConstants DEF ReadLogin
  <2> DEFINE q == CallOf(pc, u, "none", n)
  <2>2. q \in Call /\ q.target = u /\ q.pc \in {"fail", "login", "count"}
    BY NoRowIsTyped DEF Call, CallOf, Wishes
  <2>3. caller' = [caller EXCEPT ![c] = q]
    BY <2>1
  <2>4. UNCHANGED <<user, session, failures, guesses, lock>>
    BY <1>2 DEF ReadLogin
  <2> HIDE DEF q
  <2> QED
    BY <2>2, <2>3, <2>4, BeginningKeeps
<1>3. ASSUME NEW c \in Callers, NEW u \in Users, NEW role \in Roles,
             ReadCreate(c, u, role)
      PROVE  SessionsInv'
  <2> DEFINE q == CallOf("create", u, role, 0)
  <2>1. q \in Call /\ q.target = u /\ q.pc = "create" /\ q.want = role
    BY NoRowIsTyped DEF Call, CallOf, Roles, Wishes
  <2> QED
    BY <1>3, <2>1, BeginningKeeps DEF ReadCreate
<1>4. ASSUME NEW c \in Callers, NEW u \in Users, NEW want \in Wishes,
             ReadTarget(c, u, want)
      PROVE  SessionsInv'
  <2> DEFINE q == [pc |-> IF RemovesActiveAdmin(user[u], want) THEN "update" ELSE "commit",
                   target |-> u, loaded |-> user[u], want |-> want, count |-> 0]
  <2>1. q \in Call
    BY DEF Call, SessionsInv, Typed
  <2>2. q.pc = "commit" => ~ RemovesActiveAdmin(q.loaded, q.want)
    BY Zenon
  <2> QED
    BY <1>4, <2>1, <2>2, BeginningKeeps DEF ReadTarget
<1>5. ASSUME NEW c \in Callers, CountFailures(c) PROVE SessionsInv'
  <2> DEFINE q == [caller[c] EXCEPT !.pc = "fail", !.count = failures]
  <2>1. q \in Call /\ q.pc = "fail" /\ q.target = caller[c].target
    BY DEF Call, SessionsInv, Typed
  <2>2. caller' = [caller EXCEPT ![c] = q]
    BY <1>5 DEF CountFailures
  <2>3. q.target \in Users
    BY <1>5, <2>1 DEF CountFailures, SessionsInv, Known
  <2> QED
    BY <1>5, <2>1, <2>2, <2>3, BeginningKeeps DEF CountFailures
<1>6. ASSUME NEW c \in Callers, CommitFailure(c) \/ CallerDies(c) PROVE SessionsInv'
  BY <1>6, EndingKeeps DEF CommitFailure, CallerDies, SessionsInv, Typed
<1>7. ASSUME NEW s \in SessionIds, Logout(s) \/ CleanSession(s) \/ FailuresAge
      PROVE  SessionsInv'
  <2>1. NoSession \in SessionRow /\ NoSession.owner = NoUser
    BY SessionConstants DEF NoSession, SessionRow
  <2>2. /\ session' \in [SessionIds -> SessionRow]
        /\ \A r \in SessionIds :
              session'[r].owner # NoUser /\ ~ session'[r].revoked =>
                 /\ session'[r].owner = session[r].owner
                 /\ session'[r].changes = session[r].changes
                 /\ ~ session[r].revoked
    BY <1>7, <2>1 DEF Logout, CleanSession, FailuresAge, SessionsInv, Typed, SessionRow
  <2> QED
    BY <1>7, <2>2, SessionsOnly DEF Logout, CleanSession, FailuresAge, SessionsInv, Typed
<1>8. ASSUME NEW s \in SessionIds, LogoutAll(s) PROVE SessionsInv'
  <2>1. session[s].owner \in Users
    BY <1>8 DEF LogoutAll, Resolves, SessionsInv, Typed, SessionRow
  <2> QED
    BY <1>8, <2>1, Revoking, SessionsOnly DEF LogoutAll, SessionsInv, Typed
<1>9. CASE FailuresAge
  BY <1>9, SessionsOnly DEF FailuresAge, SessionsInv, Typed
<1> QED
  BY <1>1, <1>2, <1>3, <1>4, <1>5, <1>6, <1>7, <1>8, <1>9, LoginKeeps, CreationKeeps,
     CheckKeeps, ChangeKeeps
     DEF SessionsNext

\* The inductive invariant holds in every reachable state.
THEOREM SessionsInvariance == SessionsSpec => []SessionsInv
BY SessionsInitially, SessionsStepKeeps, PTL DEF SessionsSpec

\* After a new password, a new role or the end of an account no session that
\* there was is valid, whatever requests overlap.
THEOREM RevocationReachesAll == SessionsSpec => []RevocationIsComplete
<1>1. SessionsInv => RevocationIsComplete
  BY DEF SessionsInv
<1> QED
  BY <1>1, SessionsInvariance, PTL

\* The check that another administrator is there holds until the removal commits.
THEOREM AdminsStay == SessionsSpec => []AdminsOutlastChecks
<1>1. SessionsInv => AdminsOutlastChecks
  BY DEF SessionsInv, Kept, AdminsOutlastChecks
<1> QED
  BY <1>1, SessionsInvariance, PTL

-----------------------------------------------------------------------------
(* Guessing passwords                                                      *)

\* The requests that will answer a wrong password as one: they have counted
\* fewer failures than the limit, perhaps long ago.
IsGuess(q) == q.pc = "fail" /\ ~ RateLimited(q.count)
Guessing == {c \in Callers : IsGuess(caller[c])}

\* The failures the limit lets through.
Allowed == FailureLimit - 1

\* Below the limit every answer is one of the failures; from the limit on
\* nobody joins those who are guessing, and one of them has brought it there.
GuessInv ==
    /\ guesses <= failures
    /\ failures <= FailureLimit + Cardinality(Callers)
    /\ failures >= Allowed =>
          guesses + Cardinality(Guessing) <= Allowed + (Cardinality(Callers) - 1)

\* The set of callers is finite and not empty, its parts are not larger.
LEMMA CallersFinite ==
    /\ Cardinality(Callers) \in Nat /\ Cardinality(Callers) > 0
    /\ \A S \in SUBSET Callers :
          /\ IsFiniteSet(S) /\ Cardinality(S) \in Nat
          /\ Cardinality(S) <= Cardinality(Callers)
<1>1. IsFiniteSet(Callers) /\ Callers # {}
  BY SessionConstants
<1>2. Cardinality(Callers) \in Nat /\ Cardinality(Callers) # 0
  BY <1>1, FS_CardinalityType, FS_EmptySet
<1>3. ASSUME NEW S \in SUBSET Callers
      PROVE  /\ IsFiniteSet(S) /\ Cardinality(S) \in Nat
             /\ Cardinality(S) <= Cardinality(Callers)
  <2>1. IsFiniteSet(S) /\ Cardinality(S) <= Cardinality(Callers)
    BY <1>1, FS_Subset
  <2> QED
    BY <2>1, FS_CardinalityType
<1> QED
  BY <1>2, <1>3

\* A part of those who were guessing is not larger either; without one of
\* the callers a set is smaller by one.
LEMMA SmallerPart ==
    ASSUME NEW S \in SUBSET Callers, NEW T \in SUBSET Callers
    PROVE  /\ S \subseteq T => Cardinality(S) <= Cardinality(T)
           /\ \A c \in T : S \subseteq T \ {c} => Cardinality(S) <= Cardinality(T) - 1
<1>1. IsFiniteSet(T) /\ IsFiniteSet(S)
  BY CallersFinite
<1>2. S \subseteq T => Cardinality(S) <= Cardinality(T)
  BY <1>1, FS_Subset
<1>3. ASSUME NEW c \in T, S \subseteq T \ {c}
      PROVE  Cardinality(S) <= Cardinality(T) - 1
  <2>1. IsFiniteSet(T \ {c}) /\ Cardinality(T \ {c}) = Cardinality(T) - 1
    BY <1>1, FS_RemoveElement
  <2> QED
    BY <1>3, <2>1, FS_Subset
<1> QED
  BY <1>2, <1>3

\* A request that moves leaves the guessing ones, unless it joins them.
LEMMA GuessingMoves ==
    ASSUME NEW c \in Callers, \A d \in Callers \ {c} : caller'[d] = caller[d],
           ~ IsGuess(caller'[c])
    PROVE  Guessing' \subseteq Guessing \ {c}
BY DEF Guessing

\* What a step does to the failures and to those who are guessing.
LEMMA GuessingStep ==
    ASSUME SessionsInv, [SessionsNext]_sessionVars
    PROVE  \/ /\ UNCHANGED <<failures, guesses>>
              /\ failures >= Allowed => Guessing' \subseteq Guessing
           \/ \E c \in Callers :
                 /\ CommitFailure(c)
                 /\ Guessing' \subseteq Guessing \ {c}
           \/ failures' = 0 /\ guesses' = 0 /\ Guessing' = Guessing
<1> DEFINE Quiet == /\ UNCHANGED <<failures, guesses>>
                    /\ failures >= Allowed => Guessing' \subseteq Guessing
<1> USE DEF SessionsInv
<1>1. ASSUME UNCHANGED caller PROVE Guessing' = Guessing
  BY <1>1 DEF Guessing
<1>2. ASSUME NEW c \in Callers, EndCall(c) PROVE Guessing' \subseteq Guessing \ {c}
  <2>1. ~ IsGuess(caller'[c])
    BY <1>2, EndCallKeeps DEF IsGuess
  <2>2. \A d \in Callers \ {c} : caller'[d] = caller[d]
    BY <1>2, EndCallKeeps
  <2> QED
    BY <2>1, <2>2, GuessingMoves
<1>3. ASSUME NEW c \in Callers, NEW q, caller' = [caller EXCEPT ![c] = q],
             failures >= Allowed => ~ IsGuess(q), UNCHANGED <<failures, guesses>>
      PROVE  Quiet
  <2>1. caller'[c] = q /\ \A d \in Callers \ {c} : caller'[d] = caller[d]
    BY <1>3 DEF Typed
  <2> QED
    BY <1>3, <2>1, GuessingMoves
<1>4. ASSUME NEW c \in Callers, NEW u \in Users, NEW correct \in BOOLEAN,
             ReadLogin(c, u, correct)
      PROVE  Quiet
  <2>1. PICK q \in {CallOf("fail", u, "none", FailureLimit),
                    CallOf("login", u, "none", 0), CallOf("count", u, "none", 0)} :
           caller' = [caller EXCEPT ![c] = q]
    BY <1>4 DEF ReadLogin
  <2>2. ~ IsGuess(q)
    BY SessionConstants DEF IsGuess, CallOf, RateLimited
  <2> QED
    BY <1>3, <1>4, <2>1, <2>2 DEF ReadLogin
<1>5. ASSUME NEW c \in Callers, NEW u \in Users, NEW role \in Roles,
             ReadCreate(c, u, role)
      PROVE  Quiet
  <2>1. ~ IsGuess(CallOf("create", u, role, 0))
    BY DEF IsGuess, CallOf
  <2> QED
    BY <1>3, <1>5, <2>1 DEF ReadCreate
<1>6. ASSUME NEW c \in Callers, NEW u \in Users, NEW want \in Wishes,
             ReadTarget(c, u, want)
      PROVE  Quiet
  <2> DEFINE q == [pc |-> IF RemovesActiveAdmin(user[u], want) THEN "update" ELSE "commit",
                   target |-> u, loaded |-> user[u], want |-> want, count |-> 0]
  <2>1. caller' = [caller EXCEPT ![c] = q] /\ UNCHANGED <<failures, guesses>>
    BY <1>6 DEF ReadTarget
  <2>2. ~ IsGuess(q)
    BY DEF IsGuess
  <2> HIDE DEF q
  <2> QED
    BY <1>3, <2>1, <2>2
<1>7. ASSUME NEW c \in Callers, CountFailures(c) PROVE Quiet
  <2> DEFINE q == [caller[c] EXCEPT !.pc = "fail", !.count = failures]
  <2>1. q.count = failures
    BY DEF Typed, Call
  <2>2. failures >= Allowed => ~ IsGuess(q)
    BY <2>1 DEF IsGuess, RateLimited, Allowed
  <2>3. caller' = [caller EXCEPT ![c] = q] /\ UNCHANGED <<failures, guesses>>
    BY <1>7 DEF CountFailures
  <2> HIDE DEF q
  <2> QED
    BY <1>3, <2>2, <2>3
<1>8. ASSUME NEW c \in Callers, CommitFailure(c)
      PROVE  Guessing' \subseteq Guessing \ {c}
  BY <1>2, <1>8 DEF CommitFailure
<1>9. ASSUME NEW c \in Callers,
             \/ \E s \in SessionIds : CommitLogin(c, s)
             \/ CommitCreate(c) \/ CommitChange(c) \/ CallerDies(c)
      PROVE  Quiet
  BY <1>2, <1>9 DEF CommitLogin, CommitCreate, CommitChange, CallerDies
<1>10. ASSUME NEW c \in Callers, CheckUpdate(c) PROVE Quiet
  <2>1. CASE EndCall(c)
    BY <1>2, <1>10, <2>1 DEF CheckUpdate
  <2>2. CASE caller' = [caller EXCEPT ![c].pc = "commit"]
    <3>1. [caller[c] EXCEPT !.pc = "commit"].pc = "commit"
      BY DEF Typed, Call
    <3>2. ~ IsGuess([caller[c] EXCEPT !.pc = "commit"])
      BY <3>1 DEF IsGuess
    <3> QED
      BY <1>3, <1>10, <2>2, <3>2 DEF CheckUpdate
  <2> QED
    BY <1>10, <2>1, <2>2 DEF CheckUpdate
<1>11. ASSUME NEW s \in SessionIds, Logout(s) \/ LogoutAll(s) \/ CleanSession(s)
       PROVE  Quiet
  BY <1>1, <1>11 DEF Logout, LogoutAll, CleanSession
<1>12. CASE FailuresAge
  BY <1>1, <1>12 DEF FailuresAge
<1>13. ASSUME UNCHANGED sessionVars PROVE Quiet
  BY <1>1, <1>13 DEF sessionVars
<1> HIDE DEF Quiet
<1>14. Quiet \/ (\E c \in Callers : CommitFailure(c)) \/ FailuresAge
  BY <1>4, <1>5, <1>6, <1>7, <1>9, <1>10, <1>11, <1>13 DEF SessionsNext
<1> QED
  BY <1>1, <1>8, <1>12, <1>14 DEF Quiet, FailuresAge

LEMMA GuessInvStep ==
    SessionsInv /\ GuessInv /\ [SessionsNext]_sessionVars => GuessInv'
<1> SUFFICES ASSUME SessionsInv, GuessInv, [SessionsNext]_sessionVars
             PROVE  GuessInv'
  OBVIOUS
<1> DEFINE N == Cardinality(Callers)
           G == Cardinality(Guessing)
           H == Cardinality(Guessing')
<1>a. /\ FailureLimit \in Nat /\ FailureLimit > 0
      /\ failures \in Nat /\ guesses \in Nat
      /\ Guessing \in SUBSET Callers /\ Guessing' \in SUBSET Callers
  BY SessionConstants DEF SessionsInv, Typed, Guessing
<1>b. N \in Nat /\ N > 0 /\ G \in Nat /\ H \in Nat
  BY <1>a, CallersFinite
<1>c. /\ guesses <= failures /\ failures <= FailureLimit + N
      /\ failures >= FailureLimit - 1 => guesses + G <= FailureLimit - 1 + (N - 1)
  BY DEF GuessInv, Allowed
<1>d. /\ Guessing' \subseteq Guessing => H <= G
      /\ \A c \in Guessing : Guessing' \subseteq Guessing \ {c} => H <= G - 1
      /\ \A c \in Callers : Guessing' \subseteq Guessing \ {c} => H <= N - 1
  <2>1. ASSUME NEW c \in Callers, Guessing' \subseteq Guessing \ {c}
        PROVE  H <= N - 1
    <3>1. Guessing' \subseteq Callers \ {c}
      BY <1>a, <2>1
    <3>2. Callers \in SUBSET Callers
      OBVIOUS
    <3> QED
      BY <1>a, <3>1, <3>2, SmallerPart
  <2> QED
    BY <1>a, <2>1, SmallerPart
<1> HIDE DEF N, G, H
<1>1. CASE /\ UNCHANGED <<failures, guesses>>
           /\ failures >= Allowed => Guessing' \subseteq Guessing
  <2>1. failures >= FailureLimit - 1 => guesses + H <= FailureLimit - 1 + (N - 1)
    BY <1>1, <1>a, <1>b, <1>c, <1>d DEF Allowed
  <2> QED
    BY <1>1, <1>c, <2>1 DEF GuessInv, Allowed, N, H
<1>2. ASSUME NEW c \in Callers, CommitFailure(c), Guessing' \subseteq Guessing \ {c}
      PROVE  GuessInv'
  <2>1. failures' = failures + 1 /\ failures < FailureLimit + N
    BY <1>2 DEF CommitFailure, N
  <2>2. H <= N - 1
    BY <1>2, <1>d
  <2>3. CASE RateLimited(caller[c].count)
    <3>1. guesses' = guesses
      BY <1>2, <2>3 DEF CommitFailure
    <3>2. H <= G
      BY <1>2, <1>d
    <3>3. failures' >= FailureLimit - 1 => guesses' + H <= FailureLimit - 1 + (N - 1)
      BY <1>a, <1>b, <1>c, <2>1, <2>2, <3>1, <3>2
    <3> QED
      BY <1>a, <1>b, <1>c, <2>1, <3>1, <3>3 DEF GuessInv, Allowed, N, H
  <2>4. CASE ~ RateLimited(caller[c].count)
    <3>1. guesses' = guesses + 1 /\ c \in Guessing
      BY <1>2, <2>4 DEF CommitFailure, Guessing, IsGuess
    <3>2. H <= G - 1
      BY <1>2, <1>d, <3>1
    <3>3. failures' >= FailureLimit - 1 => guesses' + H <= FailureLimit - 1 + (N - 1)
      BY <1>a, <1>b, <1>c, <2>1, <2>2, <3>1, <3>2
    <3> QED
      BY <1>a, <1>b, <1>c, <2>1, <3>1, <3>3 DEF GuessInv, Allowed, N, H
  <2> QED
    BY <2>3, <2>4
<1>3. CASE failures' = 0 /\ guesses' = 0 /\ Guessing' = Guessing
  <2>1. FailureLimit = 1 => Guessing = {}
    BY DEF Guessing, IsGuess, RateLimited, SessionsInv, Typed, Call
  <2>2. 0 >= FailureLimit - 1 => H = 0
    BY <1>3, <1>a, <2>1, FS_EmptySet DEF H
  <2>3. failures' >= FailureLimit - 1 => guesses' + H <= FailureLimit - 1 + (N - 1)
    BY <1>3, <1>a, <1>b, <2>2
  <2> QED
    BY <1>3, <1>a, <1>b, <2>3 DEF GuessInv, Allowed, N, H
<1> QED
  BY <1>1, <1>2, <1>3, GuessingStep

LEMMA GuessInvInitially == SessionsInit => GuessInv
<1> SUFFICES ASSUME SessionsInit PROVE GuessInv
  OBVIOUS
<1>1. Guessing = {} /\ failures = 0 /\ guesses = 0
  BY IdleIsCall DEF SessionsInit, Guessing, IsGuess
<1>2. Cardinality(Guessing) = 0
  BY <1>1, FS_EmptySet
<1> QED
  BY <1>1, <1>2, CallersFinite, SessionConstants DEF GuessInv, Allowed

\* The limit on failed logins, counted without a lock: requests that overlap
\* get no more answers than one each beyond it.
THEOREM GuessesBounded == SessionsSpec => []GuessesAreBounded
<1>1. SessionsInv /\ GuessInv => GuessesAreBounded
  <2> SUFFICES ASSUME SessionsInv, GuessInv PROVE GuessesAreBounded
    OBVIOUS
  <2>1. Cardinality(Guessing) \in Nat
    BY CallersFinite DEF Guessing
  <2> QED
    BY <2>1, CallersFinite, SessionConstants
       DEF GuessInv, Allowed, GuessesAreBounded, SessionsInv, Typed
<1> QED
  BY <1>1, GuessInvInitially, GuessInvStep, SessionsInvariance, PTL DEF SessionsSpec

\* Users, sessions, locks and requests keep their types, the counters their
\* bounds.
THEOREM SessionsTyped == SessionsSpec => []SessionsTypeOK
<1>1. SessionsInv /\ GuessInv => SessionsTypeOK
  <2> SUFFICES ASSUME SessionsInv, GuessInv PROVE SessionsTypeOK
    OBVIOUS
  <2>1. \A c \in Callers : caller[c] \in Call
    BY DEF SessionsInv, Typed
  <2>2. {failures, guesses} \subseteq 0 .. FailureLimit + Cardinality(Callers)
    BY CallersFinite, SessionConstants DEF GuessInv, SessionsInv, Typed
  <2> QED
    BY <2>1, <2>2 DEF SessionsTypeOK, SessionsInv, Typed, Call
<1> QED
  BY <1>1, GuessInvInitially, GuessInvStep, SessionsInvariance, PTL DEF SessionsSpec
=============================================================================
