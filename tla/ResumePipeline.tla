---------------------------- MODULE ResumePipeline ----------------------------
(***************************************************************************)
(* One resume: the worker that parses it (app.parse_resume), the profile   *)
(* versions it accumulates, and the owner's operations on both, over the   *)
(* run lifecycle of ProcessingRuns.                                        *)
(*                                                                         *)
(* The worker holds the resume's row lock in its first and in its last     *)
(* transaction and no lock while it reads the file and waits for the LLM.  *)
(* The operations on profiles hold it from their first read to their       *)
(* commit, so each of them is one action.                                  *)
(***************************************************************************)
EXTENDS ProcessingRuns

CONSTANTS
    Workers,       \* Celery worker slots
    Contents,      \* what a profile may say
    MaxProfiles    \* bound: profile versions of the resume

ASSUME ResumeConstants == MaxProfiles \in Nat /\ Contents # {}

VARIABLES
    resume,     \* Resume.parse_status ("absent": not uploaded yet)
    profiles,   \* the profile versions, version_no is the index
    worker      \* what each worker has read and does next

vars == <<lifeVars, resume, profiles, worker>>

ParseStatus   == {"absent", "uploaded", "processing", "ready", "failed", "archived"}
ProfileStatus == {"candidate", "draft", "confirmed", "superseded"}
\* base: base_profile_id, 0 for an extracted profile.
Profile == [status : ProfileStatus, base : Nat, content : Contents]

\* done: the run, read again after the parse, had the status to be written;
\* hasProfile: _cancel_run has found a profile.
IdleWorker == [pc |-> "idle", run |-> NoRun, done |-> FALSE, hasProfile |-> FALSE]
Worker == [pc : {"idle", "parse", "cancel", "persist", "fail"},
           run : Runs \cup {NoRun}, done : BOOLEAN, hasProfile : BOOLEAN]

TypeOK ==
    /\ LifeTypeOK
    /\ resume \in ParseStatus
    /\ profiles \in Seq(Profile)
    /\ worker \in [Workers -> Worker]

Init ==
    /\ LifeInit
    /\ resume = "absent"
    /\ profiles = <<>>
    /\ worker = [w \in Workers |-> IdleWorker]

-----------------------------------------------------------------------------
(* The check constraints of resumes and of the run a parse ends            *)

\* (parse_status = 'archived') = (archived_at IS NOT NULL)
ArchiveRefused == resume = "archived"

\* Writing the outcome of a parse sets processed_count to 1 and parse_status.
OutcomeRefused(n) == CountRefused(n) \/ ArchiveRefused

Extracted == {v \in 1 .. Len(profiles) : profiles[v].base = 0}

-----------------------------------------------------------------------------
(* Upload and retry                                                        *)

\* create_resume: the resume is processing from the start.
CreateResume(r, n) ==
    /\ resume = "absent"
    /\ NewRun(r, n, "parse_resume", NoRun, 1)
    /\ resume' = "processing"
    /\ UNCHANGED <<profiles, worker>>

Retry(r, old, new) ==
    /\ RetryRun(r, old, new)
    /\ UNCHANGED <<resume, profiles, worker>>

-----------------------------------------------------------------------------
(* The worker                                                              *)

Ignored == {"completed", "failed", "enqueue_failed"}

\* Statuses a message finds and whose run it goes on to parse.
Startable(n) == run[n].status \notin Ignored \cup {"cancelled"} /\ ~ run[n].flag

Taken(w, n) == worker[w].pc = "idle" /\ Receive(n)

\* A message about a run that has ended, or is still enqueue_failed, is
\* dropped.  So is one whose first transaction violates a check constraint,
\* as the transaction that records the failure violates it too.
StartIgnored(w, n) ==
    /\ Taken(w, n)
    /\ \/ run[n].status \in Ignored
       \/ ArchiveRefused
       \/ Startable(n) /\ Extracted # {} /\ CountRefused(n)
    /\ UNCHANGED <<run, request, batch, stale, resume, profiles, worker>>

\* Mutant: the resume is given back as if a profile had been extracted.
RestoredReady(hasProfile) == "ready"

\* Mutant: a status of runs is written to the resume.
RestoredPending(hasProfile) == IF hasProfile THEN "ready" ELSE "pending"

\* parse_status of a resume whose run is cancelled.
Restored(hasProfile) == IF hasProfile THEN "ready" ELSE "uploaded"

\* _cancel_run as the first transaction.
StartCancelled(w, n) ==
    /\ Taken(w, n)
    /\ run[n].status \notin Ignored
    /\ ~ Startable(n)
    /\ ~ ArchiveRefused
    /\ SetStatus(n, "cancelled")
    /\ resume' = Restored(profiles # <<>>)
    /\ UNCHANGED <<request, batch, stale, profiles, worker>>

\* An extracted profile of this pipeline version is reused.
StartReuse(w, n) ==
    /\ Taken(w, n)
    /\ Startable(n)
    /\ Extracted # {}
    /\ ~ OutcomeRefused(n)
    /\ SetStatus(n, "completed")
    /\ resume' = "ready"
    /\ UNCHANGED <<request, batch, stale, profiles, worker>>

StartParse(w, n) ==
    /\ Taken(w, n)
    /\ Startable(n)
    /\ Extracted = {}
    /\ ~ ArchiveRefused
    /\ run' = [run EXCEPT ![n].status = "running", ![n].silent = FALSE]
    /\ resume' = "processing"
    /\ worker' = [worker EXCEPT ![w] = [IdleWorker EXCEPT !.pc = "parse", !.run = n]]
    /\ UNCHANGED <<request, batch, stale, profiles>>

\* _set_stage: every stage refreshes the heartbeat.
Heartbeat(w) ==
    LET n == worker[w].run
    IN  /\ worker[w].pc \in {"parse", "persist"}
        /\ run[n].silent
        /\ run' = [run EXCEPT ![n].silent = FALSE]
        /\ UNCHANGED <<queue, request, batch, stale, resume, profiles, worker>>

\* An exception leads to _fail_run, which forgets what was read.
Failing(m) == [IdleWorker EXCEPT !.pc = "fail", !.run = m.run]

\* The file is missing, the document or the LLM's answer is unusable.
ParseFails(w) ==
    /\ worker[w].pc = "parse"
    /\ worker' = [worker EXCEPT ![w] = Failing(@)]
    /\ UNCHANGED <<lifeVars, resume, profiles>>

\* The LLM has answered: the run is read again, without a lock, and so is
\* the existence of a profile if the run is to be cancelled.
ParseEnds(w) ==
    LET n == worker[w].run
    IN  /\ worker[w].pc = "parse"
        /\ worker' = [worker EXCEPT ![w] =
              IF CancelSeen(n)
              THEN [@ EXCEPT !.pc = "cancel", !.done = run[n].status = "cancelled",
                             !.hasProfile = profiles # <<>>]
              ELSE [@ EXCEPT !.pc = "persist", !.done = run[n].status = "completed"]]
        /\ UNCHANGED <<lifeVars, resume, profiles>>

\* The commit of _cancel_run.
WorkerCancels(w) ==
    LET n == worker[w].run
    IN  /\ worker[w].pc = "cancel"
        /\ IF ArchiveRefused
           THEN /\ worker' = [worker EXCEPT ![w] = Failing(@)]
                /\ UNCHANGED <<run, resume>>
           ELSE /\ IF worker[w].done THEN UNCHANGED run
                                     ELSE SetStatus(n, "cancelled")
                /\ resume' = Restored(worker[w].hasProfile)
                /\ worker' = [worker EXCEPT ![w] = IdleWorker]
        /\ UNCHANGED <<queue, request, batch, stale, profiles>>

\* Mutant: the profile found missing when the parse began is inserted.
ReusedNever == FALSE

\* Under the resume's lock, an extracted profile that exists is reused.
Reused == Extracted # {}

\* persist_extracted_profile: profile, resume and run in one transaction.  A
\* status that equals the one read after the parse is not written.
Persist(w, content) ==
    LET n == worker[w].run
    IN  /\ worker[w].pc = "persist"
        /\ ~ OutcomeRefused(n)
        /\ Reused \/ Len(profiles) < MaxProfiles
        /\ profiles' = IF Reused THEN profiles
                       ELSE Append(profiles, [status |-> "candidate", base |-> 0,
                                              content |-> content])
        /\ IF worker[w].done THEN UNCHANGED run
                                           ELSE SetStatus(n, "completed")
        /\ resume' = "ready"
        /\ worker' = [worker EXCEPT ![w] = IdleWorker]
        /\ UNCHANGED <<queue, request, batch, stale>>

\* The transaction violates a constraint, or the database fails.
PersistFails(w) ==
    /\ worker[w].pc = "persist"
    /\ worker' = [worker EXCEPT ![w] = Failing(@)]
    /\ UNCHANGED <<lifeVars, resume, profiles>>

\* _fail_run reads run and resume again and overwrites both.  When it is
\* refused too, the task dies with the error.
WorkerFails(w) ==
    LET n == worker[w].run
    IN  /\ worker[w].pc = "fail"
        /\ IF OutcomeRefused(n)
           THEN UNCHANGED <<run, resume>>
           ELSE SetStatus(n, "failed") /\ resume' = "failed"
        /\ worker' = [worker EXCEPT ![w] = IdleWorker]
        /\ UNCHANGED <<queue, request, batch, stale, profiles>>

WorkerCrash(w) ==
    /\ TasksMayDie
    /\ worker[w].pc # "idle"
    /\ worker' = [worker EXCEPT ![w] = IdleWorker]
    /\ UNCHANGED <<lifeVars, resume, profiles>>

-----------------------------------------------------------------------------
(* The owner's operations                                                  *)

Archivable == resume \in {"uploaded", "ready", "failed"}

Archive ==
    /\ Archivable
    /\ resume' = "archived"
    /\ UNCHANGED <<lifeVars, profiles, worker>>

\* Mutant: only the resume's existence is checked.
OpenUnchecked == resume # "absent"

Open == resume \notin {"absent", "archived"}

RevisionSource == {"candidate", "confirmed"}

\* create_manual_revision
Revise(v) ==
    /\ Open
    /\ profiles[v].status \in RevisionSource
    /\ Len(profiles) < MaxProfiles
    /\ profiles' = Append(profiles, [status |-> "draft", base |-> v,
                                     content |-> profiles[v].content])
    /\ UNCHANGED <<lifeVars, resume, worker>>

\* Mutant: any manual revision may be edited, a confirmed one included.
EditableRevision(v) == profiles[v].base # 0

Editable(v) == profiles[v].base # 0 /\ profiles[v].status = "draft"

\* replace_manual_draft
Replace(v, content) ==
    /\ Open
    /\ Editable(v)
    /\ profiles[v].content # content
    /\ profiles' = [profiles EXCEPT ![v].content = content]
    /\ UNCHANGED <<lifeVars, resume, worker>>

Confirmable == {"candidate", "draft"}

\* Mutant: the profile confirmed so far stays confirmed.
NotSuperseded(status) == status

Superseded(status) == IF status = "confirmed" THEN "superseded" ELSE status

\* confirm_profile: the confirmed profile, if any, is superseded first.
Confirm(v) ==
    /\ Open
    /\ profiles[v].status \in Confirmable
    /\ profiles' = [u \in DOMAIN profiles |->
                      [profiles[u] EXCEPT !.status =
                         IF u = v THEN "confirmed" ELSE Superseded(@)]]
    /\ UNCHANGED <<lifeVars, resume, worker>>

-----------------------------------------------------------------------------
WorkerStep(w) ==
    \/ \E n \in Runs : \/ StartIgnored(w, n) \/ StartCancelled(w, n)
                       \/ StartReuse(w, n) \/ StartParse(w, n)
    \/ ParseFails(w) \/ ParseEnds(w)
    \/ WorkerCancels(w)
    \/ \E content \in Contents : Persist(w, content)
    \/ PersistFails(w)
    \/ WorkerFails(w)

OwnerStep ==
    \/ \E r \in Requests, n \in Runs : CreateResume(r, n)
    \/ \E r \in Requests, old, new \in Runs : Retry(r, old, new)
    \/ Archive
    \/ \E v \in DOMAIN profiles : Revise(v) \/ Confirm(v)
    \/ \E v \in DOMAIN profiles, content \in Contents : Replace(v, content)

Next ==
    \/ LifeNext /\ UNCHANGED <<resume, profiles, worker>>
    \/ \E w \in Workers : WorkerStep(w) \/ Heartbeat(w) \/ WorkerCrash(w)
    \/ OwnerStep

Spec == Init /\ [][Next]_vars

\* Requests are carried through, workers finish what they took, Beat starts
\* its two tasks every minute and its process does not die in each of them,
\* and time passes.  Owners need do nothing.
FairSpec ==
    /\ Spec
    /\ \A r \in Requests : WF_vars(RequestStep(r) /\ UNCHANGED <<resume, profiles, worker>>)
    /\ \A w \in Workers : WF_vars(WorkerStep(w))
    /\ WF_vars(RedispatchStep /\ UNCHANGED <<resume, profiles, worker>>)
    /\ WF_vars(MarkStaleRead /\ UNCHANGED <<resume, profiles, worker>>)
    /\ SF_vars(MarkStaleCommit /\ UNCHANGED <<resume, profiles, worker>>)
    /\ \A n \in Runs : WF_vars(FallSilent(n) /\ UNCHANGED <<resume, profiles, worker>>)

-----------------------------------------------------------------------------
(* Properties                                                              *)

\* What a run or a resume claims to have is there: a completed run and a
\* ready resume have a profile, whichever worker wrote the status last.
ResultsAreBacked ==
    /\ (\E n \in Runs : run[n].status = "completed") => Extracted # {}
    /\ resume = "ready" => profiles # <<>>

\* However many workers parse the resume at once (duplicate messages, a retry
\* of a run that was only slow), one extracted profile comes of it.
OneExtraction == Cardinality(Extracted) <= 1

\* At most one profile is confirmed, and every revision is derived from an
\* older profile that was never a mere draft.
ProfileHistoryIsSound ==
    /\ \A u, v \in DOMAIN profiles :
          profiles[u].status = "confirmed" /\ profiles[v].status = "confirmed" => u = v
    /\ \A v \in DOMAIN profiles : profiles[v].base # 0 =>
          profiles[v].base < v /\ profiles[profiles[v].base].status # "draft"

\* What was confirmed once is never edited, deleted or made a draft again.
ConfirmedIsImmutable ==
    [][\A v \in DOMAIN profiles :
          profiles[v].status \in {"confirmed", "superseded"} =>
             /\ v \in DOMAIN profiles'
             /\ profiles'[v].content = profiles[v].content
             /\ profiles'[v].status \in {"superseded", profiles[v].status}]_vars

\* Nothing touches an archived resume: not its owner, not a worker that was
\* still parsing, not a retry.
ArchivedIsFrozen ==
    [][resume = "archived" => UNCHANGED <<resume, profiles>>]_vars

\* No run stays running: its worker ends it, or falls silent and
\* mark_stale_runs fails it.
RunningEnds == \A n \in Runs : run[n].status = "running" ~> run[n].status # "running"

(***************************************************************************)
(* What the design documents say and the code does not do                  *)
(***************************************************************************)
\* While no process dies, a run that reads running has a worker at work on it:
\* a worker leaves its run completed, cancelled or failed.
WorkersEndTheirRuns ==
    \A n \in Runs : run[n].status = "running" => \E w \in Workers : worker[w].run = n

\* Celery Beat redelivers pending runs, so that none stays pending.
PendingEnds == \A n \in Runs : run[n].status = "pending" ~> run[n].status # "pending"
=============================================================================
