------------------------------ MODULE Discovery ------------------------------
(***************************************************************************)
(* Discovery of skill combinations: the run that is created over imported  *)
(* job postings, its worker (app.discover_skill_combinations), which       *)
(* analyses every posting once and mines the candidates, and the proposals *)
(* made of them, over the run lifecycle of ProcessingRuns.                 *)
(*                                                                         *)
(* A processing run has a discovery run of its own; a retried one clones   *)
(* that of the run it retries.  The worker takes no row lock.  What the    *)
(* mining computes is the module SkillMining.                              *)
(***************************************************************************)
EXTENDS ProcessingRuns

CONSTANTS
    JobCount,         \* the normalized postings of the batches
    DiscoveryChunk,   \* CHUNK_SIZE
    Miners            \* Celery worker slots

ASSUME DiscoveryConstants ==
    /\ JobCount \in Nat \ {0}
    /\ DiscoveryChunk \in Nat \ {0}

VARIABLES
    discovery,   \* discovery[n]: the discovery run of processing run n
    analysed,    \* analysed[j]: the analysis profiles of posting j
    started,     \* history: how many workers have begun processing run n
    miner        \* what each worker has loaded and does next

discoveryVars == <<discovery, analysed, started, miner>>

Jobs == 1 .. JobCount
DiscoveryStatus == {"absent", "pending", "running", "completed", "failed", "cancelled"}
\* found: its candidates - none stored, none to store, listed, or one of them
\* proposed for review.
Found == {"none", "empty", "listed", "proposed"}
DiscoveryRun == [status : DiscoveryStatus, found : Found]
AbsentDiscovery == [status |-> "absent", found |-> "none"]

\* was, its: the statuses of the run and the discovery run in its session;
\* known: the postings it has found analysed; pos: those it has committed.
IdleMiner == [pc |-> "idle", run |-> NoRun, was |-> "absent", its |-> "absent",
              clone |-> FALSE, known |-> {}, pos |-> 0]
Miner == [pc : {"idle", "start", "load", "map", "mapped", "persist"},
          run : Runs \cup {NoRun}, was : Status, its : DiscoveryStatus,
          clone : BOOLEAN, known : SUBSET Jobs, pos : Nat]

DiscoveryTypeOK ==
    /\ discovery \in [Runs -> DiscoveryRun]
    /\ analysed \in [Jobs -> Nat]
    /\ started \in [Runs -> Nat]
    /\ miner \in [Miners -> Miner]

DiscoveryInit ==
    /\ discovery = [n \in Runs |-> AbsentDiscovery]
    /\ analysed = [j \in Jobs |-> 0]
    /\ started = [n \in Runs |-> 0]
    /\ miner = [w \in Miners |-> IdleMiner]

-----------------------------------------------------------------------------
(* The requests                                                            *)

\* create_discovery_run, once its batches are imported.
CreateDiscovery(r, n) ==
    /\ NewRun(r, n, "discover_skill_combinations", NoRun, 0)
    /\ discovery' = [discovery EXCEPT ![n].status = "pending"]
    /\ UNCHANGED <<analysed, started, miner>>

\* A proposal is made of one of the candidates.
ProposeCandidate(n) ==
    /\ discovery[n].found = "listed"
    /\ discovery' = [discovery EXCEPT ![n].found = "proposed"]
    /\ UNCHANGED <<lifeVars, analysed, started, miner>>

-----------------------------------------------------------------------------
(* The worker                                                              *)

\* Mutant: a retry goes on with the discovery run of the run it retries.
SharedDiscovery(n) == IF run[n].retryOf # NoRun THEN run[n].retryOf ELSE n

\* The discovery run a processing run works on.
OwnDiscovery(n) == n

Row(w) == OwnDiscovery(miner[w].run)

\* The statuses at a commit: one equal to the one loaded is not written.
WriteRow(w, status, found) ==
    discovery' = [discovery EXCEPT ![Row(w)] =
        [status |-> IF miner[w].its = status THEN @.status ELSE status,
         found |-> found]]

WriteMinerRun(w, status) ==
    run' = [run EXCEPT ![miner[w].run] =
              [Overwritten(miner[w].run, miner[w].was, status) EXCEPT !.silent = FALSE]]

Turns(w, m) == miner' = [miner EXCEPT ![w] = m]
Quits(w) == Turns(w, IdleMiner)

\* process_discovery_run up to its first write.  The run a retry clones may
\* never have had a discovery run, if it was a retry no worker took: the
\* retry fails with DISCOVERY_RUN_NOT_FOUND, whatever its status.
MinerTake(w, n) ==
    LET own   == discovery[OwnDiscovery(n)].status # "absent"
        clone == ~ own /\ run[n].retryOf # NoRun
        lost  == IF clone THEN discovery[run[n].retryOf].status = "absent" ELSE ~ own
    IN  /\ miner[w].pc = "idle"
        /\ Receive(n)
        /\ IF lost THEN SetStatus(n, "failed") ELSE UNCHANGED run
        /\ IF lost \/ run[n].status \in Ended
           THEN UNCHANGED miner
           ELSE Turns(w, [IdleMiner EXCEPT !.pc = "start", !.run = n,
                   !.was = run[n].status, !.clone = clone,
                   !.its = IF clone THEN "pending" ELSE discovery[OwnDiscovery(n)].status])
        /\ UNCHANGED <<request, batch, stale, discovery, analysed, started>>

\* The first commit: the clone, if there is to be one, and either the
\* cancellation or both rows running.  uq_discovery_runs_processing_run.
MinerStart(w) ==
    LET n == miner[w].run
        status == IF run[n].flag THEN "cancelled" ELSE "running"
    IN  /\ miner[w].pc = "start"
        /\ IF miner[w].clone /\ discovery[Row(w)].status # "absent"
           THEN Quits(w) /\ UNCHANGED <<run, discovery, started>>
           ELSE /\ WriteMinerRun(w, status)
                /\ WriteRow(w, status, discovery[Row(w)].found)
                /\ IF status = "cancelled"
                   THEN Quits(w) /\ UNCHANGED started
                   ELSE /\ Turns(w, [miner[w] EXCEPT !.pc = "load", !.was = "running",
                                                     !.its = "running"])
                        /\ started' = [started EXCEPT ![n] = @ + 1]
        /\ UNCHANGED <<queue, request, batch, stale, analysed>>

\* _fail_run: no capability is active.
MinerFails(w) ==
    /\ miner[w].pc = "load"
    /\ WriteMinerRun(w, "failed")
    /\ WriteRow(w, "failed", discovery[Row(w)].found)
    /\ Quits(w)
    /\ UNCHANGED <<queue, request, batch, stale, analysed, started>>

\* The catalog and the postings are loaded, the candidates deleted - a
\* proposal made of one keeps none (ON DELETE SET NULL) - and, after that
\* commit, the existing profiles read.
MinerLoads(w) ==
    /\ miner[w].pc = "load"
    /\ run' = [run EXCEPT ![miner[w].run] = [@ EXCEPT !.total = 1, !.silent = FALSE]]
    /\ discovery' = [discovery EXCEPT ![Row(w)].found = "none"]
    /\ Turns(w, [miner[w] EXCEPT !.pc = "map",
                                 !.known = {j \in Jobs : analysed[j] > 0}])
    /\ UNCHANGED <<queue, request, batch, stale, analysed, started>>

\* The next k postings are analysed.  One that was not known and has a
\* profile by now violates uq_job_analysis_profiles_job_extraction.
Unknown(w, k) == (miner[w].pos + 1 .. miner[w].pos + k) \ miner[w].known
AlreadyAnalysed(js) == \E j \in js : analysed[j] > 0
Analyse(js) == analysed' = [j \in Jobs |-> IF j \in js THEN analysed[j] + 1 ELSE analysed[j]]

\* Every DiscoveryChunk postings one commit; a cancellation is looked for
\* before the first of them all and before the last of each chunk.
MapChunk(w) ==
    LET js == Unknown(w, DiscoveryChunk)
    IN  /\ miner[w].pc = "map"
        /\ miner[w].pos + DiscoveryChunk <= JobCount
        /\ ~ run[miner[w].run].flag
        /\ IF AlreadyAnalysed(js)
           THEN Quits(w) /\ UNCHANGED <<run, analysed>>
           ELSE /\ Analyse(js)
                /\ WriteMinerRun(w, miner[w].was)
                /\ Turns(w, [miner[w] EXCEPT !.pos = @ + DiscoveryChunk])
        /\ UNCHANGED <<queue, request, batch, stale, discovery, started>>

\* The postings after the last full chunk, without a check.
MapRest(w) ==
    LET js == Unknown(w, JobCount - miner[w].pos)
    IN  /\ miner[w].pc = "map"
        /\ JobCount - miner[w].pos < DiscoveryChunk
        /\ IF AlreadyAnalysed(js)
           THEN Quits(w) /\ UNCHANGED <<run, analysed>>
           ELSE /\ Analyse(js)
                /\ WriteMinerRun(w, miner[w].was)
                /\ Turns(w, [miner[w] EXCEPT !.pc = "mapped", !.pos = JobCount])
        /\ UNCHANGED <<queue, request, batch, stale, discovery, started>>

\* _cancel_run: what has been analysed stays.
MinerCancels(w, k) ==
    LET js == Unknown(w, k)
    IN  /\ miner[w].pc \in {"map", "mapped"}
        /\ run[miner[w].run].flag
        /\ \/ miner[w].pc = "map" /\ miner[w].pos = 0 /\ k = 0
           \/ /\ miner[w].pc = "map" /\ k = DiscoveryChunk - 1
              /\ miner[w].pos + DiscoveryChunk <= JobCount
           \/ miner[w].pc = "mapped" /\ k = 0
        /\ IF AlreadyAnalysed(js)
           THEN UNCHANGED <<run, discovery, analysed>>
           ELSE /\ Analyse(js)
                /\ WriteMinerRun(w, "cancelled")
                /\ WriteRow(w, "cancelled", discovery[Row(w)].found)
        /\ Quits(w)
        /\ UNCHANGED <<queue, request, batch, stale, started>>

\* Stage mining.
MinerMines(w) ==
    /\ miner[w].pc = "mapped"
    /\ ~ run[miner[w].run].flag
    /\ WriteMinerRun(w, miner[w].was)
    /\ Turns(w, [miner[w] EXCEPT !.pc = "persist"])
    /\ UNCHANGED <<queue, request, batch, stale, discovery, analysed, started>>

HasCandidates(n) == discovery[n].found \in {"listed", "proposed"}

\* The candidates, if the mining has come to any, and the outcome in one
\* commit.  The same candidates, stored by another worker meanwhile, violate
\* uq_skill_combination_candidates_run_name.
MinerEnds(w, mined) ==
    /\ miner[w].pc = "persist"
    /\ IF mined = "listed" /\ HasCandidates(Row(w))
       THEN UNCHANGED <<run, discovery>>
       ELSE /\ WriteMinerRun(w, "completed")
            /\ WriteRow(w, "completed", IF HasCandidates(Row(w))
                                       THEN discovery[Row(w)].found ELSE mined)
    /\ Quits(w)
    /\ UNCHANGED <<queue, request, batch, stale, analysed, started>>

MinerCrash(w) ==
    /\ TasksMayDie
    /\ miner[w].pc # "idle"
    /\ Quits(w)
    /\ UNCHANGED <<lifeVars, discovery, analysed, started>>

DiscoveryNext ==
    \/ LifeNext /\ UNCHANGED discoveryVars
    \/ \E r \in Requests, n \in Runs : CreateDiscovery(r, n)
    \/ \E r \in Requests, old, new \in Runs :
          RetryRun(r, old, new) /\ UNCHANGED discoveryVars
    \/ \E n \in Runs : ProposeCandidate(n)
    \/ \E w \in Miners :
          \/ \E n \in Runs : MinerTake(w, n)
          \/ MinerStart(w) \/ MinerFails(w) \/ MinerLoads(w)
          \/ MapChunk(w) \/ MapRest(w)
          \/ \E k \in 0 .. DiscoveryChunk - 1 : MinerCancels(w, k)
          \/ MinerMines(w)
          \/ \E mined \in {"empty", "listed"} : MinerEnds(w, mined)
          \/ MinerCrash(w)

-----------------------------------------------------------------------------
(* Properties                                                              *)

\* A completed discovery has analysed every posting exactly once, however
\* many runs share the postings, and keeps what it mined, if that came to any
\* candidate: only a second worker on the same run can take it away, never the
\* retry of a run whose slow worker completes it after all.
CompletedDiscoveryIsWhole ==
    \A n \in Runs : discovery[n].status = "completed" =>
        /\ \A j \in Jobs : analysed[j] = 1
        /\ started[n] <= 1 => discovery[n].found # "none"
=============================================================================
