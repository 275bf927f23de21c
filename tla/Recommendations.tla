--------------------------- MODULE Recommendations ---------------------------
(***************************************************************************)
(* Match runs of one resume: a request reads a watermark (the confirmed    *)
(* profile and the current graph version), reuses the run of that          *)
(* watermark or scores every role of the catalog and stores a run, while   *)
(* profiles are confirmed and graph versions published.                    *)
(*                                                                         *)
(* The request locks the resume row from its first read to its commit;     *)
(* publishing a graph version takes other locks.  How roles are scored is  *)
(* the module MatchScoring.                                                *)
(***************************************************************************)
EXTENDS Naturals

CONSTANTS
    Askers,        \* concurrent requests for recommendations
    MaxConfirmed,  \* bound: profiles confirmed one after the other
    MaxGraphs      \* bound: graph versions published

Nobody == "nobody"

ASSUME RecommendationConstants ==
    /\ MaxConfirmed \in Nat \ {0} /\ MaxGraphs \in Nat \ {0}
    /\ Nobody \notin Askers

VARIABLES
    confirmed,   \* version of the confirmed profile, 0: none
    archived,    \* parse_status of the resume is archived
    graph,       \* the current graph version, 0: none
    consistent,  \* the current catalog belongs to the current graph and its
                 \* roles can be scored
    matchRuns,   \* matchRuns[p][g]: who made the run of profile p and graph g
    holder,      \* who holds the lock of the resume row
    asker        \* what each request has read and does next

matchVars == <<confirmed, archived, graph, consistent, matchRuns, holder, asker>>

IdleAsker == [pc |-> "idle", profile |-> 0, graph |-> 0]
Asker == [pc : {"idle", "find", "score", "insert"}, profile : 0 .. MaxConfirmed,
          graph : 0 .. MaxGraphs]

MatchTypeOK ==
    /\ confirmed \in 0 .. MaxConfirmed
    /\ graph \in 0 .. MaxGraphs
    /\ archived \in BOOLEAN /\ consistent \in BOOLEAN
    /\ matchRuns \in [1 .. MaxConfirmed -> [1 .. MaxGraphs -> Askers \cup {Nobody}]]
    /\ holder \in Askers \cup {Nobody}
    /\ asker \in [Askers -> Asker]

MatchInit ==
    /\ confirmed = 0 /\ graph = 0
    /\ archived = FALSE /\ consistent = TRUE
    /\ matchRuns = [p \in 1 .. MaxConfirmed |-> [g \in 1 .. MaxGraphs |-> Nobody]]
    /\ holder = Nobody
    /\ asker = [a \in Askers |-> IdleAsker]

-----------------------------------------------------------------------------
(* The rest of the system                                                  *)

\* Confirming another profile and archiving need the resume's lock.
ConfirmProfile ==
    /\ holder = Nobody /\ ~ archived
    /\ confirmed < MaxConfirmed
    /\ confirmed' = confirmed + 1
    /\ UNCHANGED <<archived, graph, consistent, matchRuns, holder, asker>>

ArchiveResume ==
    /\ holder = Nobody /\ ~ archived
    /\ archived' = TRUE
    /\ UNCHANGED <<confirmed, graph, consistent, matchRuns, holder, asker>>

PublishGraph ==
    /\ graph < MaxGraphs
    /\ graph' = graph + 1
    /\ consistent' \in BOOLEAN
    /\ UNCHANGED <<confirmed, archived, matchRuns, holder, asker>>

-----------------------------------------------------------------------------
(* A request                                                               *)

\* Mutant: the resume is read without FOR UPDATE.
NoLock(a) == TRUE

\* get_visible_resume with for_update.
MayLock(a) == holder = Nobody

Step(a, pc) == asker' = [asker EXCEPT ![a].pc = pc]
Done(a) ==
    /\ asker' = [asker EXCEPT ![a] = IdleAsker]
    /\ holder' = IF holder = a THEN Nobody ELSE holder

\* load_match_watermark, refused for an archived resume, without a confirmed
\* profile, a published graph or a catalog that belongs to it.
LoadWatermark(a) ==
    /\ asker[a].pc = "idle"
    /\ MayLock(a)
    /\ ~ archived /\ confirmed > 0 /\ graph > 0 /\ consistent
    /\ holder' = a
    /\ asker' = [asker EXCEPT ![a] = [pc |-> "find", profile |-> confirmed,
                                      graph |-> graph]]
    /\ UNCHANGED <<confirmed, archived, graph, consistent, matchRuns>>

RunOf(a) == matchRuns[asker[a].profile][asker[a].graph]

\* _find_match_run: an earlier run is the answer.
FindMatchRun(a) ==
    /\ asker[a].pc = "find"
    /\ IF RunOf(a) # Nobody THEN Done(a) ELSE Step(a, "score") /\ UNCHANGED holder
    /\ UNCHANGED <<confirmed, archived, graph, consistent, matchRuns>>

\* load_scoring_inputs and the scoring.  The roles are the watermark's, but
\* whether they and their capabilities are active and valid is read now.
ScoreRoles(a) ==
    /\ asker[a].pc = "score"
    /\ IF consistent THEN Step(a, "insert") /\ UNCHANGED holder ELSE Done(a)
    /\ UNCHANGED <<confirmed, archived, graph, consistent, matchRuns>>

\* The flush and the commit.  A conflict on uq_match_runs_profile_graph_weight
\* ends with an error: the user it answers for has expired with the rollback.
InsertMatchRun(a) ==
    /\ asker[a].pc = "insert"
    /\ IF RunOf(a) # Nobody
       THEN UNCHANGED matchRuns
       ELSE matchRuns' = [matchRuns EXCEPT ![asker[a].profile][asker[a].graph] = a]
    /\ Done(a)
    /\ UNCHANGED <<confirmed, archived, graph, consistent>>

AskerDies(a) ==
    /\ asker[a].pc # "idle"
    /\ Done(a)
    /\ UNCHANGED <<confirmed, archived, graph, consistent, matchRuns>>

MatchNext ==
    \/ ConfirmProfile \/ ArchiveResume \/ PublishGraph
    \/ \E a \in Askers :
          \/ LoadWatermark(a) \/ FindMatchRun(a) \/ ScoreRoles(a)
          \/ InsertMatchRun(a) \/ AskerDies(a)

\* A request that has found no run scores the profile that is still the
\* confirmed one of a resume that is not archived, and no other request can
\* store that run first: the handler of the conflict, which could not answer,
\* is never reached.
MatchRunsNeverConflict ==
    \A a \in Askers : asker[a].pc \in {"score", "insert"} =>
        /\ asker[a].profile = confirmed /\ ~ archived
        /\ RunOf(a) = Nobody
        /\ \A b \in Askers \ {a} : asker[b].pc = "idle"
=============================================================================
