----------------------------- MODULE RecruitmentJD -----------------------------
(***************************************************************************)
(* The job description of one recruitment project: submission, the worker  *)
(* that parses it (app.parse_recruitment_jd), the editing of the draft and *)
(* its confirmation.                                                       *)
(*                                                                         *)
(* The HR's operations hold the project's row lock from their first read   *)
(* to their commit.  The worker holds it in its first transaction only;    *)
(* everything it writes later is decided by the row it read then.  A job   *)
(* description is named by the run that was submitted with it.             *)
(***************************************************************************)
EXTENDS ProcessingRuns

CONSTANTS
    JDTasks,        \* worker slots parsing job descriptions
    Drafts,         \* what a draft may say
    Mapped,         \* the drafts with a required skill that is mapped
    MaxRevisions    \* bound: confirmed revisions

ASSUME JDConstants ==
    /\ Mapped \subseteq Drafts
    /\ MaxRevisions \in Nat

VARIABLES
    jd,           \* the columns of the project about its job description
    confirmed,    \* the confirmed requirements
    jdTask        \* what each worker has read and does next

jdVars == <<jd, confirmed, jdTask>>

JDStatus == {"empty", "processing", "ready", "failed"}

\* A draft: the job description it was extracted from, the run that did it
\* (source_run_id), and what it says.
Draft == [of : Runs, by : Runs, says : Drafts]
NoDraft == [of |-> NoRun, by |-> NoRun, says |-> "nothing"]

\* source, file: the job description submitted last, and whether it is a file;
\* text: the job description whose text is in jd_source_text;
\* latest: latest_jd_run_id.
JD == [status : JDStatus, source : Runs \cup {NoRun}, file : BOOLEAN,
       text : Runs \cup {NoRun}, latest : Runs \cup {NoRun},
       draft : Draft \cup {NoDraft}]

\* What is confirmed, and hashed: the source, its text and the draft.
Confirmation == [source : Runs, file : BOOLEAN, text : Runs \cup {NoRun},
                 of : Runs, says : Drafts]
Unconfirmed == [source |-> NoRun, file |-> FALSE, text |-> NoRun,
                of |-> NoRun, says |-> "nothing"]

\* source, text: the columns as loaded in the first transaction; mine, done:
\* what _fail_run has found, that the project is still its run's and not
\* failed yet, and that the run has failed already.
IdleJD == [pc |-> "idle", run |-> NoRun, source |-> NoRun, text |-> NoRun,
           mine |-> FALSE, done |-> FALSE]
JDTask == [pc : {"idle", "extract", "llm", "fail", "failed"},
           run : Runs \cup {NoRun}, source : Runs \cup {NoRun},
           text : Runs \cup {NoRun}, mine : BOOLEAN, done : BOOLEAN]

JDTypeOK ==
    /\ jd \in JD
    /\ confirmed \in [revision : 0 .. MaxRevisions,
                      content : Confirmation \cup {Unconfirmed}]
    /\ jdTask \in [JDTasks -> JDTask]

JDInit ==
    /\ jd = [status |-> "empty", source |-> NoRun, file |-> FALSE,
             text |-> NoRun, latest |-> NoRun, draft |-> NoDraft]
    /\ confirmed = [revision |-> 0, content |-> Unconfirmed]
    /\ jdTask = [w \in JDTasks |-> IdleJD]

-----------------------------------------------------------------------------
(* The HR's operations                                                     *)

\* A run that is cancel_requested does not count, its worker or not.
IsJDRun(n) == run[n].type = "parse_recruitment_jd"
JDActive == \E n \in Runs : IsJDRun(n) /\ run[n].status \in {"pending", "running"}

\* Mutant: a submission leaves the status as it was.
StatusKept == jd.status

SubmittedStatus == "processing"

\* submit_jd
SubmitJD(r, n, file) ==
    /\ ~ JDActive
    /\ NewRun(r, n, "parse_recruitment_jd", NoRun, 1)
    /\ jd' = [status |-> SubmittedStatus, source |-> n, file |-> file,
              text |-> IF file THEN NoRun ELSE n, latest |-> n,
              draft |-> NoDraft]
    /\ UNCHANGED <<confirmed, jdTask>>

RetryJD(r, old, new) ==
    /\ IsJDRun(old)
    /\ RetryRun(r, old, new)
    /\ UNCHANGED jdVars

\* replace_requirements: the draft keeps its source_run_id.
ReplaceRequirements(says) ==
    /\ jd.draft \notin {NoDraft, [jd.draft EXCEPT !.says = says]}
    /\ jd' = [jd EXCEPT !.draft.says = says]
    /\ UNCHANGED <<lifeVars, confirmed, jdTask>>

Content == [source |-> jd.source, file |-> jd.file, text |-> jd.text,
            of |-> jd.draft.of, says |-> jd.draft.says]

\* confirm_requirements: contents that are confirmed already change nothing.
ConfirmRequirements ==
    /\ jd.draft # NoDraft
    /\ jd.draft.says \in Mapped
    /\ Content # confirmed.content
    /\ confirmed.revision < MaxRevisions
    /\ confirmed' = [revision |-> confirmed.revision + 1, content |-> Content]
    /\ UNCHANGED <<lifeVars, jd, jdTask>>

-----------------------------------------------------------------------------
(* The worker                                                              *)

JDIgnored == {"completed", "failed", "enqueue_failed", "cancelled"}

JDReceive(w, n) ==
    /\ jdTask[w].pc = "idle"
    /\ IsJDRun(n)
    /\ Receive(n)

JDStartIgnored(w, n) ==
    /\ JDReceive(w, n)
    /\ run[n].status \in JDIgnored
    /\ UNCHANGED <<run, request, batch, stale, jdVars>>

\* A run may work on the project that is its own or its predecessor's.
TakesOverJD(n) == jd.latest \in {n, run[n].retryOf}

JDStartSuperseded(w, n) ==
    /\ JDReceive(w, n)
    /\ run[n].status \notin JDIgnored
    /\ ~ TakesOverJD(n)
    /\ jdTask' = [jdTask EXCEPT ![w] = [IdleJD EXCEPT !.pc = "fail", !.run = n]]
    /\ UNCHANGED <<run, request, batch, stale, jd, confirmed>>

\* The worker looks at no cancellation: a run that is cancel_requested is
\* running again.
JDStart(w, n) ==
    /\ JDReceive(w, n)
    /\ run[n].status \notin JDIgnored
    /\ TakesOverJD(n)
    /\ SetStatus(n, "running")
    /\ jd' = [jd EXCEPT !.status = "processing", !.latest = n]
    /\ jdTask' = [jdTask EXCEPT ![w] =
                    [IdleJD EXCEPT !.pc = IF jd.file THEN "extract" ELSE "llm",
                                   !.run = n, !.source = jd.source,
                                   !.text = jd.text]]
    /\ UNCHANGED <<request, batch, stale, confirmed>>

\* The text of the file is stored unless it is the text that was loaded.
JDExtract(w) ==
    LET t == jdTask[w]
    IN  /\ t.pc = "extract"
        /\ IF t.text = t.source THEN UNCHANGED jd
                                ELSE jd' = [jd EXCEPT !.text = t.source]
        /\ jdTask' = [jdTask EXCEPT ![w].pc = "llm", ![w].text = t.source]
        /\ UNCHANGED <<lifeVars, confirmed>>

\* _set_stage
JDHeartbeat(w) ==
    LET n == jdTask[w].run
    IN  /\ jdTask[w].pc = "llm"
        /\ run[n].silent
        /\ run' = [run EXCEPT ![n].silent = FALSE]
        /\ UNCHANGED <<queue, request, batch, stale, jdVars>>

\* The last transaction writes the draft whatever the project has become.
\* latest_jd_run_id is the run's own in the row loaded and is not written.
JDPersist(w, says) ==
    LET t == jdTask[w]
    IN  /\ t.pc = "llm"
        /\ ~ CountRefused(t.run)
        /\ jd' = [jd EXCEPT !.status = "ready",
                            !.draft = [of |-> t.text, by |-> t.run, says |-> says]]
        /\ SetStatus(t.run, "completed")
        /\ jdTask' = [jdTask EXCEPT ![w] = IdleJD]
        /\ UNCHANGED <<queue, request, batch, stale, confirmed>>

\* A transaction fails that reads the file, maps the skills or persists the
\* draft.  Its rollback expires the rows the session has loaded.
JDFails(w) ==
    /\ jdTask[w].pc \in {"extract", "llm"}
    /\ jdTask' = [jdTask EXCEPT ![w] = [IdleJD EXCEPT !.pc = "fail",
                                                      !.run = jdTask[w].run]]
    /\ UNCHANGED <<lifeVars, jd, confirmed>>

\* The text is empty, the LLM fails or its evidence does, with no transaction
\* open: the rollback does nothing, and _fail_run finds the rows as this worker
\* has committed them, the project its run's and neither of them failed.
JDFailsAsLoaded(w) ==
    /\ jdTask[w].pc = "llm"
    /\ jdTask' = [jdTask EXCEPT ![w] = [IdleJD EXCEPT !.pc = "failed",
                                                      !.run = jdTask[w].run,
                                                      !.mine = TRUE]]
    /\ UNCHANGED <<lifeVars, jd, confirmed>>

\* Expired rows _fail_run reads again, without locks ...
JDFailRead(w) ==
    LET n == jdTask[w].run
    IN  /\ jdTask[w].pc = "fail"
        /\ jdTask' = [jdTask EXCEPT
              ![w].pc = "failed",
              ![w].mine = jd.latest = n /\ jd.status # "failed",
              ![w].done = run[n].status = "failed"]
        /\ UNCHANGED <<lifeVars, jd, confirmed>>

\* ... and commits, unless the run's counts refuse it.
JDFailCommit(w) ==
    LET t == jdTask[w]
    IN  /\ t.pc = "failed"
        /\ IF CountRefused(t.run)
           THEN UNCHANGED <<run, jd>>
           ELSE /\ IF t.done THEN UNCHANGED run ELSE SetStatus(t.run, "failed")
                /\ IF t.mine THEN jd' = [jd EXCEPT !.status = "failed"]
                             ELSE UNCHANGED jd
        /\ jdTask' = [jdTask EXCEPT ![w] = IdleJD]
        /\ UNCHANGED <<queue, request, batch, stale, confirmed>>

JDCrash(w) ==
    /\ TasksMayDie
    /\ jdTask[w].pc # "idle"
    /\ jdTask' = [jdTask EXCEPT ![w] = IdleJD]
    /\ UNCHANGED <<lifeVars, jd, confirmed>>

-----------------------------------------------------------------------------
JDOwnerStep ==
    \/ \E r \in Requests, n \in Runs, file \in BOOLEAN : SubmitJD(r, n, file)
    \/ \E r \in Requests, old, new \in Runs : RetryJD(r, old, new)
    \/ \E says \in Drafts : ReplaceRequirements(says)
    \/ ConfirmRequirements

JDWorkerStep(w) ==
    \/ \E n \in Runs : \/ JDStartIgnored(w, n)
                       \/ JDStartSuperseded(w, n)
                       \/ JDStart(w, n)
    \/ JDExtract(w)
    \/ JDHeartbeat(w)
    \/ \E says \in Drafts : JDPersist(w, says)
    \/ JDFails(w)
    \/ JDFailsAsLoaded(w)
    \/ JDFailRead(w)
    \/ JDFailCommit(w)
    \/ JDCrash(w)

JDNext == JDOwnerStep \/ \E w \in JDTasks : JDWorkerStep(w)
=============================================================================
