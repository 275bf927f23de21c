------------------------- MODULE RecruitmentCandidates -------------------------
(***************************************************************************)
(* The candidates of one recruitment project: the upload of a batch and    *)
(* the worker that parses it, one candidate after the other                *)
(* (app.parse_recruitment_candidates).                                     *)
(*                                                                         *)
(* The worker's session keeps the rows it has loaded: SELECT ... FOR       *)
(* UPDATE locks a candidate but does not refresh it, so what the worker    *)
(* checks and writes after the LLM has answered is decided by the row it   *)
(* read before.  A rollback inside a transaction expires the loaded run,   *)
(* and _fail_candidate then dies reading its id.                           *)
(***************************************************************************)
EXTENDS ProcessingRuns

CONSTANTS
    Candidates,     \* recruitment_candidates rows, in the order of their ids
    BatchTasks      \* worker slots parsing candidates

ASSUME CandidateConstants == Candidates \subseteq Nat

VARIABLES
    candidate,    \* the candidates and whether they have a profile
    inputs,       \* candidate_ids of a run's input_snapshot
    batchTask     \* what each worker has read and does next

candidateVars == <<candidate, inputs, batchTask>>

CandidateStatus == {"absent", "uploaded", "processing", "ready", "failed"}
Candidate == [status : CandidateStatus, latest : Runs \cup {NoRun},
              profile : BOOLEAN]
AbsentCandidate == [status |-> "absent", latest |-> NoRun, profile |-> FALSE]

\* todo: the candidates not yet handled; bad: whether one has failed; seen:
\* the run's status when it was refreshed last.
IdleBatch == [pc |-> "idle", run |-> NoRun, todo |-> {}, bad |-> FALSE,
              seen |-> "absent"]
BatchTask == [pc : {"idle", "next", "parse"}, run : Runs \cup {NoRun},
              todo : SUBSET Candidates, bad : BOOLEAN, seen : Status]

CandidatesTypeOK ==
    /\ candidate \in [Candidates -> Candidate]
    /\ inputs \in [Runs -> SUBSET Candidates]
    /\ batchTask \in [BatchTasks -> BatchTask]

CandidatesInit ==
    /\ candidate = [c \in Candidates |-> AbsentCandidate]
    /\ inputs = [n \in Runs |-> {}]
    /\ batchTask = [w \in BatchTasks |-> IdleBatch]

IsBatchRun(n) == run[n].type = "parse_recruitment_candidates"
Uploaded == {c \in Candidates : candidate[c].status # "absent"}

-----------------------------------------------------------------------------
(* Upload and retry                                                        *)

\* upload_candidates; ids are given in order and without gaps.
UploadCandidates(r, n, batchOf) ==
    /\ batchOf # {} /\ batchOf \cap Uploaded = {}
    /\ \A c \in batchOf, d \in Candidates \ batchOf : d < c <=> d \in Uploaded
    /\ NewRun(r, n, "parse_recruitment_candidates", NoRun, 1)
    /\ inputs' = [inputs EXCEPT ![n] = batchOf]
    /\ candidate' = [c \in Candidates |->
                       IF c \in batchOf
                       THEN [status |-> "uploaded", latest |-> n, profile |-> FALSE]
                       ELSE candidate[c]]
    /\ UNCHANGED batchTask

RetryBatch(r, old, new) ==
    /\ IsBatchRun(old)
    /\ RetryRun(r, old, new)
    /\ inputs' = [inputs EXCEPT ![new] = inputs[old]]
    /\ UNCHANGED <<candidate, batchTask>>

-----------------------------------------------------------------------------
(* The worker                                                              *)

BatchIgnored == {"completed", "failed", "enqueue_failed", "cancelled"}

BatchReceive(w, n) ==
    /\ batchTask[w].pc = "idle"
    /\ IsBatchRun(n)
    /\ Receive(n)

BatchStartIgnored(w, n) ==
    /\ BatchReceive(w, n)
    /\ run[n].status \in BatchIgnored
    /\ UNCHANGED <<run, request, batch, stale, candidateVars>>

BatchStartCancelled(w, n) ==
    /\ BatchReceive(w, n)
    /\ run[n].status \notin BatchIgnored
    /\ CancelSeen(n)
    /\ SetStatus(n, "cancelled")
    /\ UNCHANGED <<request, batch, stale, candidateVars>>

\* total_count is set again, so that a retry's counts are in order here.
BatchStart(w, n) ==
    /\ BatchReceive(w, n)
    /\ run[n].status \notin BatchIgnored
    /\ ~ CancelSeen(n)
    /\ run' = [run EXCEPT ![n] = [Written(@, "running") EXCEPT !.total = 1]]
    /\ batchTask' = [batchTask EXCEPT ![w] =
                       [IdleBatch EXCEPT !.pc = "next", !.run = n,
                                         !.todo = inputs[n], !.seen = "running"]]
    /\ UNCHANGED <<request, batch, stale, candidate, inputs>>

Current(t) == CHOOSE c \in t.todo : \A d \in t.todo : c <= d

\* Between two candidates the run is refreshed; the steps below need its
\* cancellation not to be seen.
Proceeds(w) ==
    /\ batchTask[w].pc = "next"
    /\ batchTask[w].todo # {}
    /\ ~ CancelSeen(batchTask[w].run)

\* _cancel_candidate_run leaves the candidates not handled as they are.
BatchCancels(w) ==
    /\ batchTask[w].pc = "next"
    /\ batchTask[w].todo # {}
    /\ CancelSeen(batchTask[w].run)
    /\ SetStatus(batchTask[w].run, "cancelled")
    /\ batchTask' = [batchTask EXCEPT ![w] = IdleBatch]
    /\ UNCHANGED <<queue, request, batch, stale, candidate, inputs>>

\* Mutant: any run takes a candidate over.
TakesOverAny(n, c) == TRUE

TakesOver(n, c) == candidate[c].latest \in {n, run[n].retryOf}

\* The candidate belongs to another run: the task dies of the rollback.
TakeSuperseded(w) ==
    /\ Proceeds(w)
    /\ ~ TakesOver(batchTask[w].run, Current(batchTask[w]))
    /\ batchTask' = [batchTask EXCEPT ![w] = IdleBatch]
    /\ UNCHANGED <<lifeVars, candidate, inputs>>

\* A task that is done with its current candidate.
Handled(t, failed) ==
    [t EXCEPT !.pc = "next", !.todo = @ \ {Current(t)}, !.bad = @ \/ failed]

\* Counting a candidate refreshes the heartbeat.
Counted(n) == run' = [run EXCEPT ![n].silent = FALSE]

\* The candidate has a profile.
TakeReady(w) ==
    LET n == batchTask[w].run
        c == Current(batchTask[w])
    IN  /\ Proceeds(w)
        /\ TakesOver(n, c)
        /\ candidate[c].profile
        /\ candidate' = [candidate EXCEPT ![c].status = "ready", ![c].latest = n]
        /\ batchTask' = [batchTask EXCEPT ![w] =
                           [Handled(@, FALSE) EXCEPT !.seen = run[n].status]]
        /\ Counted(n)
        /\ UNCHANGED <<queue, request, batch, stale, inputs>>

TakeToParse(w) ==
    LET n == batchTask[w].run
        c == Current(batchTask[w])
    IN  /\ Proceeds(w)
        /\ TakesOver(n, c)
        /\ ~ candidate[c].profile
        /\ candidate' = [candidate EXCEPT ![c].status = "processing",
                                          ![c].latest = n]
        /\ batchTask' = [batchTask EXCEPT ![w].pc = "parse",
                                          ![w].seen = run[n].status]
        /\ UNCHANGED <<lifeVars, inputs>>

\* Mutant: the status and the profile are committed one after the other.
ProfileLater == FALSE

\* The profile is inserted in the transaction that makes the candidate ready.
ProfileStored == TRUE

\* The profile is stored; whoever owns the candidate now is not noticed.
StoreProfile(w) ==
    LET n == batchTask[w].run
        c == Current(batchTask[w])
    IN  /\ batchTask[w].pc = "parse"
        /\ ~ candidate[c].profile
        /\ candidate' = [candidate EXCEPT ![c].status = "ready",
                                          ![c].profile = ProfileStored]
        /\ batchTask' = [batchTask EXCEPT ![w] = Handled(@, FALSE)]
        /\ Counted(n)
        /\ UNCHANGED <<queue, request, batch, stale, inputs>>

\* The document or the LLM's answer is unusable: _fail_candidate compares the
\* owner it wrote itself and marks the candidate failed.
ParseFailed(w) ==
    LET n == batchTask[w].run
        c == Current(batchTask[w])
    IN  /\ batchTask[w].pc = "parse"
        /\ candidate' = [candidate EXCEPT ![c].status = "failed"]
        /\ batchTask' = [batchTask EXCEPT ![w] = Handled(@, TRUE)]
        /\ Counted(n)
        /\ UNCHANGED <<queue, request, batch, stale, inputs>>

\* A database error while the profile is stored (one profile per candidate
\* is one) rolls back, and the task dies.
StoreFails(w) ==
    /\ batchTask[w].pc = "parse"
    /\ batchTask' = [batchTask EXCEPT ![w] = IdleBatch]
    /\ UNCHANGED <<lifeVars, candidate, inputs>>

\* Mutant: the outcome of a batch forgets the candidates that failed.
AlwaysCompleted(t) == "completed"

\* Mutant: a status that is none.
PartialOutcome(t) == IF t.bad THEN "partially_failed" ELSE "completed"

BatchOutcome(t) == IF t.bad THEN "failed" ELSE "completed"

\* The last commit; a status equal to the one refreshed is not written.
BatchEnds(w) ==
    LET t == batchTask[w]
    IN  /\ t.pc = "next" /\ t.todo = {}
        /\ IF t.seen = BatchOutcome(t) THEN Counted(t.run)
                                       ELSE SetStatus(t.run, BatchOutcome(t))
        /\ batchTask' = [batchTask EXCEPT ![w] = IdleBatch]
        /\ UNCHANGED <<queue, request, batch, stale, candidate, inputs>>

BatchCrash(w) ==
    /\ TasksMayDie
    /\ batchTask[w].pc # "idle"
    /\ batchTask' = [batchTask EXCEPT ![w] = IdleBatch]
    /\ UNCHANGED <<lifeVars, candidate, inputs>>

-----------------------------------------------------------------------------
CandidatesOwnerStep ==
    \/ \E r \in Requests, n \in Runs, batchOf \in SUBSET Candidates :
          UploadCandidates(r, n, batchOf)
    \/ \E r \in Requests, old, new \in Runs : RetryBatch(r, old, new)

BatchWorkerStep(w) ==
    \/ \E n \in Runs : \/ BatchStartIgnored(w, n)
                     \/ BatchStartCancelled(w, n)
                     \/ BatchStart(w, n)
    \/ BatchCancels(w)
    \/ TakeSuperseded(w)
    \/ TakeReady(w)
    \/ TakeToParse(w)
    \/ StoreProfile(w)
    \/ ParseFailed(w)
    \/ StoreFails(w)
    \/ BatchEnds(w)
    \/ BatchCrash(w)

CandidatesNext == CandidatesOwnerStep \/ \E w \in BatchTasks : BatchWorkerStep(w)
=============================================================================
