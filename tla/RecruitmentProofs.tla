-------------------------- MODULE RecruitmentProofs --------------------------
(***************************************************************************)
(* Proofs about Recruitment, for any sets of runs, requests, candidates    *)
(* and workers and any bounds.                                             *)
(*                                                                         *)
(* The argument: the job description and the candidates share the runs and *)
(* nothing else.  A run is born with the type it keeps (Continues, Born),  *)
(* so that a worker's run stays of its worker's type; a job description's  *)
(* run has no candidates, so that completing it completes no batch; and a  *)
(* candidate's profile is never removed, so that what a batch has handled  *)
(* stays handled.                                                          *)
(***************************************************************************)
EXTENDS Recruitment, ProcessingRunsProofs

\* A row of processing_runs that a request has just inserted.
Born(n) == run[n].status = "absent" /\ run'[n].status = "pending"

RunsSound == \A n \in Runs : run[n].status = "absent" => run[n].type = NoRun

\* Whatever worker is late, the text it writes is that of a job description,
\* and a project whose job description is parsed has one.
JDWorkersSound ==
    \A w \in JDTasks :
        /\ jdTask[w].pc # "idle" => jdTask[w].run \in Runs /\ IsJDRun(jdTask[w].run)
        /\ jdTask[w].pc = "extract" => jdTask[w].source \in Runs
        /\ jdTask[w].pc = "llm" => jdTask[w].text \in Runs

JDSound ==
    /\ (\E n \in Runs : IsJDRun(n)) => jd.source \in Runs
    /\ jd.draft # NoDraft => jd.source \in Runs
    /\ jd.source \in Runs /\ ~ jd.file => jd.text \in Runs
    /\ confirmed.revision > 0 => confirmed.content \in Confirmation

\* What a batch has handled without a failure has a profile.
BatchesSound ==
    \A w \in BatchTasks :
        LET t == batchTask[w]
        IN  t.pc # "idle" =>
              /\ t.run \in Runs /\ IsBatchRun(t.run)
              /\ ~ t.bad => \A c \in inputs[t.run] \ t.todo : candidate[c].profile

ProfilesSound ==
    /\ \A c \in Candidates :
          /\ candidate[c].status = "absent" => ~ candidate[c].profile
          /\ candidate[c].status = "ready" => candidate[c].profile
    /\ \A n \in Runs : ~ IsBatchRun(n) => inputs[n] = {}

IInv ==
    /\ TypeOK
    /\ RunsSound
    /\ JDWorkersSound /\ JDSound /\ ReadyHasDraft
    /\ BatchesSound /\ ProfilesSound /\ CompletedBatchIsWhole

-----------------------------------------------------------------------------
(* What one half of the project does to the other                          *)

LEMMA RunsKept ==
    ASSUME RunsSound, \A n \in Runs : Continues(n) \/ Born(n)
    PROVE  RunsSound'
BY DEF RunsSound, Continues, Born

\* What the job description's steps, and the runs', do to the candidates.
LEMMA CandidatesUndisturbed ==
    ASSUME TypeOK, RunsSound, BatchesSound, ProfilesSound, CompletedBatchIsWhole,
           UNCHANGED candidateVars,
           \A n \in Runs : \/ Continues(n) /\ (IsBatchRun(n) => NotCompleted(n))
                           \/ Born(n)
    PROVE  CandidatesTypeOK' /\ BatchesSound' /\ ProfilesSound' /\ CompletedBatchIsWhole'
<1>1. \A n \in Runs : run[n].status = "absent" => ~ IsBatchRun(n) /\ inputs[n] = {}
  BY DEF RunsSound, ProfilesSound, IsBatchRun, NoRun
<1>2. CandidatesTypeOK'
  BY DEF TypeOK, CandidatesTypeOK, candidateVars
<1>3. \A n \in Runs : IsBatchRun(n) => IsBatchRun(n)'
  BY <1>1 DEF Continues, Born, IsBatchRun
<1>4. BatchesSound'
  BY <1>3 DEF BatchesSound, candidateVars
<1>5. ProfilesSound'
  BY <1>1, <1>3 DEF ProfilesSound, candidateVars, Continues, Born, IsBatchRun
<1>6. CompletedBatchIsWhole'
  BY <1>1 DEF CompletedBatchIsWhole, ProfilesSound, candidateVars, Continues, Born, NotCompleted
<1> QED
  BY <1>2, <1>4, <1>5, <1>6

\* What the candidates' steps, and the runs', do to the job description.
LEMMA JDUndisturbed ==
    ASSUME TypeOK, RunsSound, JDWorkersSound, JDSound, ReadyHasDraft,
           UNCHANGED jdVars,
           \A n \in Runs : \/ Continues(n)
                           \/ Born(n) /\ run'[n].type # "parse_recruitment_jd"
    PROVE  JDTypeOK' /\ JDWorkersSound' /\ JDSound' /\ ReadyHasDraft'
<1>1. \A n \in Runs : IsJDRun(n)' <=> IsJDRun(n)
  BY DEF RunsSound, IsJDRun, NoRun, Continues, Born
<1> QED
  BY <1>1 DEF TypeOK, JDTypeOK, JDWorkersSound, JDSound, ReadyHasDraft, jdVars

-----------------------------------------------------------------------------
(* The job description                                                     *)

\* What a step of the job description's owner or worker leaves of the runs.
JDRuns ==
    /\ LifeTypeOK'
    /\ \A n \in Runs : \/ Continues(n) /\ (~ IsJDRun(n) => NotCompleted(n))
                       \/ Born(n)

LEMMA JDRunsUnchanged ==
    ASSUME TypeOK, UNCHANGED lifeVars
    PROVE  JDRuns /\ \A n \in Runs : IsJDRun(n)' <=> IsJDRun(n)
BY DEF TypeOK, LifeTypeOK, lifeVars, JDRuns, Continues, NotCompleted, IsJDRun

\* A status written by the job description's worker.
LEMMA JDRunsWritten ==
    ASSUME TypeOK, NEW n \in Runs, IsJDRun(n), NEW status \in Status \ {"absent"},
           SetStatus(n, status), queue' \in [Runs -> Nat],
           UNCHANGED <<request, batch, stale>>
    PROVE  JDRuns /\ \A m \in Runs : IsJDRun(m)' <=> IsJDRun(m)
<1>1. /\ run' \in [Runs -> Run]
      /\ \A m \in Runs : Continues(m)
      /\ \A m \in Runs : m # n => run'[m] = run[m]
  BY SetStatusKeeps DEF TypeOK
<1> QED
  BY <1>1 DEF TypeOK, LifeTypeOK, JDRuns, Continues, NotCompleted, IsJDRun

\* The owner's operations.
LEMMA JDOwnerKeeps ==
    ASSUME IInv, JDOwnerStep
    PROVE  JDRuns /\ JDTypeOK' /\ JDWorkersSound' /\ JDSound' /\ ReadyHasDraft'
<1> DEFINE Goal == JDRuns /\ JDTypeOK' /\ JDWorkersSound' /\ JDSound' /\ ReadyHasDraft'
<1> USE DEF IInv
<1>1. TypeOK /\ LifeTypeOK /\ JDTypeOK
  BY DEF TypeOK
<1>2. ASSUME NEW n \in Runs, NEW type, run[n].status = "absent",
             run'[n].status = "pending", run'[n].type = type,
             type = "parse_recruitment_jd",
             \A m \in Runs \ {n} : run'[m] = run[m], LifeTypeOK'
      PROVE  JDRuns /\ \A m \in Runs : IsJDRun(m)' <=> IsJDRun(m) \/ m = n
  BY <1>2 DEF JDRuns, Born, Continues, NotCompleted, IsJDRun
<1>3. ASSUME NEW r \in Requests, NEW n \in Runs, NEW file \in BOOLEAN, SubmitJD(r, n, file)
      PROVE  Goal
  <2>1. NewRun(r, n, "parse_recruitment_jd", NoRun, 1)
    BY <1>3 DEF SubmitJD
  <2>2. "parse_recruitment_jd" \in RunType \cup {NoRun} /\ NoRun \in Runs \cup {NoRun}
    BY DEF RunType
  <2>3. /\ LifeTypeOK' /\ run[n].status = "absent" /\ run'[n].status = "pending"
        /\ run'[n].type = "parse_recruitment_jd"
        /\ \A m \in Runs \ {n} : run'[m] = run[m]
    BY <1>1, <2>1, <2>2, NewRunKeeps
  <2>4. JDRuns /\ \A m \in Runs : IsJDRun(m)' <=> IsJDRun(m) \/ m = n
    BY <1>2, <2>3
  <2>5. JDTypeOK'
    BY <1>1, <1>3 DEF SubmitJD, JDTypeOK, JD, JDStatus, SubmittedStatus
  <2>6. JDWorkersSound'
    BY <1>3, <2>4 DEF SubmitJD, JDWorkersSound
  <2>7. JDSound' /\ ReadyHasDraft'
    BY <1>3 DEF SubmitJD, JDSound, ReadyHasDraft, SubmittedStatus
  <2> QED
    BY <2>4, <2>5, <2>6, <2>7
<1>4. ASSUME NEW r \in Requests, NEW old \in Runs, NEW new \in Runs, RetryJD(r, old, new)
      PROVE  Goal
  <2>1. /\ LifeTypeOK' /\ run[new].status = "absent" /\ run'[new].status = "pending"
        /\ run'[new].type = run[old].type
        /\ \A m \in Runs \ {new} : run'[m] = run[m]
    BY <1>1, <1>4, RetryRunKeeps DEF RetryJD
  <2>2. IsJDRun(old) /\ UNCHANGED jdVars
    BY <1>4 DEF RetryJD
  <2>3. JDRuns /\ \A m \in Runs : IsJDRun(m)' <=> IsJDRun(m) \/ m = new
    BY <1>2, <2>1, <2>2 DEF IsJDRun
  <2> QED
    BY <1>1, <2>2, <2>3 DEF jdVars, JDTypeOK, JDWorkersSound, JDSound, ReadyHasDraft
<1>5. ASSUME NEW says \in Drafts, ReplaceRequirements(says) PROVE Goal
  <2>1. JDRuns /\ \A n \in Runs : IsJDRun(n)' <=> IsJDRun(n)
    BY <1>1, <1>5, JDRunsUnchanged DEF ReplaceRequirements
  <2>2. jd.draft \in Draft
    BY <1>1, <1>5 DEF ReplaceRequirements, JDTypeOK, JD
  <2>3. [jd.draft EXCEPT !.says = says] \in Draft
    BY <2>2 DEF Draft
  <2>4. \A d \in Draft : d # NoDraft
    BY RunConstants DEF Draft, NoDraft
  <2>5. jd' = [jd EXCEPT !.draft = [jd.draft EXCEPT !.says = says]]
    BY <1>1, <1>5 DEF ReplaceRequirements, JDTypeOK, JD
  <2>6. jd' \in JD /\ jd'.draft # NoDraft /\ jd'.status = jd.status
        /\ jd'.source = jd.source /\ jd'.file = jd.file /\ jd'.text = jd.text
    BY <1>1, <2>3, <2>4, <2>5 DEF JDTypeOK, JD
  <2>7. jd.draft # NoDraft /\ UNCHANGED <<confirmed, jdTask>>
    BY <1>5 DEF ReplaceRequirements
  <2> QED
    BY <1>1, <2>1, <2>6, <2>7 DEF JDTypeOK, JDWorkersSound, JDSound, ReadyHasDraft
<1>6. CASE ConfirmRequirements
  <2>1. JDRuns /\ \A n \in Runs : IsJDRun(n)' <=> IsJDRun(n)
    BY <1>1, <1>6, JDRunsUnchanged DEF ConfirmRequirements
  <2>2. jd.draft \in Draft /\ jd.source \in Runs
    BY <1>1, <1>6 DEF ConfirmRequirements, JDTypeOK, JD, JDSound
  <2>3. Content \in Confirmation
    BY <1>1, <2>2 DEF Content, Confirmation, JDTypeOK, JD, Draft
  <2>4. confirmed' = [revision |-> confirmed.revision + 1, content |-> Content]
    BY <1>6 DEF ConfirmRequirements
  <2>5. confirmed.revision + 1 \in 0 .. MaxRevisions
    BY <1>1, <1>6, JDConstants DEF ConfirmRequirements, JDTypeOK
  <2> QED
    BY <1>1, <1>6, <2>1, <2>3, <2>4, <2>5
       DEF ConfirmRequirements, JDTypeOK, JDWorkersSound, JDSound, ReadyHasDraft
<1> QED
  BY <1>3, <1>4, <1>5, <1>6 DEF JDOwnerStep

\* The steps of a worker.
LEMMA JDWorkerKeeps ==
    ASSUME IInv, NEW w \in JDTasks, JDWorkerStep(w)
    PROVE  JDRuns /\ JDTypeOK' /\ JDWorkersSound' /\ JDSound' /\ ReadyHasDraft'
<1> DEFINE Goal == JDRuns /\ JDTypeOK' /\ JDWorkersSound' /\ JDSound' /\ ReadyHasDraft'
           \* A worker's row that is of its type and sound.
           Sound(t) == /\ t \in JDTask
                       /\ t.pc # "idle" => t.run \in Runs /\ IsJDRun(t.run)
                       /\ t.pc = "extract" => t.source \in Runs
                       /\ t.pc = "llm" => t.text \in Runs
           \* A row of the project that is of its type and sound.
           JDRow(d) == /\ d \in JD /\ d.source = jd.source /\ d.file = jd.file
                       /\ d.text = jd.text \/ d.text \in Runs
                       /\ d.draft = jd.draft \/ d.draft \in Draft
                       /\ d.status = "ready" => d.draft # NoDraft
                       /\ d.status # "empty"
           SameTypes == \A n \in Runs : IsJDRun(n)' <=> IsJDRun(n)
<1> USE DEF IInv
<1>1. TypeOK /\ LifeTypeOK /\ JDTypeOK /\ JDWorkersSound /\ JDSound /\ ReadyHasDraft
  BY DEF TypeOK
<1>2. /\ jdTask[w] \in JDTask /\ jd \in JD
      /\ Sound(jdTask[w])
  BY <1>1 DEF JDTypeOK, JDWorkersSound
<1>3. Sound(IdleJD)
  BY DEF IdleJD, JDTask
<1>4. \A d \in Draft : d # NoDraft
  BY RunConstants DEF Draft, NoDraft
<1>5. ASSUME NEW t, Sound(t), jdTask' = [jdTask EXCEPT ![w] = t] \/ UNCHANGED jdTask,
             SameTypes
      PROVE  jdTask' \in [JDTasks -> JDTask] /\ JDWorkersSound'
  BY <1>1, <1>5 DEF JDTypeOK, JDWorkersSound
<1>6. ASSUME NEW d, JDRow(d), jd' = d, UNCHANGED confirmed, SameTypes,
             d.draft # NoDraft => jd.source \in Runs
      PROVE  jd' \in JD /\ JDSound' /\ ReadyHasDraft'
  BY <1>1, <1>6 DEF JDSound, ReadyHasDraft
<1>7. ASSUME UNCHANGED <<jd, confirmed>>, SameTypes
      PROVE  jd' \in JD /\ JDSound' /\ ReadyHasDraft'
  BY <1>1, <1>7 DEF JDTypeOK, JDSound, ReadyHasDraft
<1>8. UNCHANGED confirmed /\ jd' \in JD /\ jdTask' \in [JDTasks -> JDTask] => JDTypeOK'
  BY <1>1 DEF JDTypeOK
<1>9. UNCHANGED lifeVars => JDRuns /\ SameTypes
  BY <1>1, JDRunsUnchanged
<1>10. ASSUME NEW n \in Runs, JDReceive(w, n)
       PROVE  queue' \in [Runs -> Nat] /\ IsJDRun(n) /\ jd.source \in Runs
  BY <1>1, <1>10, ReceiveKeeps DEF JDReceive, JDSound
<1>11. jdTask[w].pc # "idle" => jdTask[w].run \in Runs /\ IsJDRun(jdTask[w].run)
                               /\ jd.source \in Runs
  BY <1>1 DEF JDWorkersSound, JDSound
<1>12. queue \in [Runs -> Nat]
  BY <1>1 DEF LifeTypeOK
<1>14. ASSUME NEW n \in Runs, JDStartIgnored(w, n) PROVE Goal
  <2>1. JDReceive(w, n) /\ UNCHANGED <<run, request, batch, stale, jdVars>>
    BY <1>14 DEF JDStartIgnored
  <2>2. JDRuns /\ SameTypes
    BY <1>1, <1>10, <2>1 DEF LifeTypeOK, JDRuns, Continues, NotCompleted, IsJDRun
  <2> QED
    BY <1>2, <1>5, <1>7, <1>8, <2>1, <2>2 DEF jdVars
<1>15. ASSUME NEW n \in Runs, JDStartSuperseded(w, n) PROVE Goal
  <2> DEFINE t == [IdleJD EXCEPT !.pc = "fail", !.run = n]
  <2>1. /\ JDReceive(w, n) /\ UNCHANGED <<run, request, batch, stale, jd, confirmed>>
        /\ jdTask' = [jdTask EXCEPT ![w] = t]
    BY <1>15 DEF JDStartSuperseded
  <2>2. JDRuns /\ SameTypes
    BY <1>1, <1>10, <2>1 DEF LifeTypeOK, JDRuns, Continues, NotCompleted, IsJDRun
  <2>3. Sound(t)
    BY <1>10, <2>1 DEF IdleJD, JDTask
  <2> HIDE DEF t, Sound
  <2> QED
    BY <1>5, <1>7, <1>8, <2>1, <2>2, <2>3
<1>16. ASSUME NEW n \in Runs, JDStart(w, n) PROVE Goal
  <2> DEFINE t == [IdleJD EXCEPT !.pc = IF jd.file THEN "extract" ELSE "llm",
                                 !.run = n, !.source = jd.source, !.text = jd.text]
             d == [jd EXCEPT !.status = "processing", !.latest = n]
  <2>1. /\ JDReceive(w, n) /\ SetStatus(n, "running") /\ jd' = d
        /\ jdTask' = [jdTask EXCEPT ![w] = t]
        /\ UNCHANGED <<request, batch, stale, confirmed>>
    BY <1>16 DEF JDStart
  <2>2. "running" \in Status \ {"absent"}
    BY DEF Status
  <2>3. JDRuns /\ SameTypes
    BY <1>1, <1>10, <2>1, <2>2, JDRunsWritten
  <2>4. jd.source \in Runs /\ (~ jd.file => jd.text \in Runs)
    BY <1>1, <1>10, <2>1 DEF JDSound
  <2>5. Sound(t)
    BY <1>2, <1>10, <2>1, <2>4 DEF IdleJD, JDTask, JD
  <2>6. JDRow(d)
    BY <1>2 DEF JD, JDStatus
  <2> HIDE DEF t, d, Sound, JDRow
  <2> QED
    BY <1>5, <1>6, <1>8, <2>1, <2>3, <2>4, <2>5, <2>6
<1>17. CASE JDExtract(w)
  <2> DEFINE old == jdTask[w]
             s == [old EXCEPT !.pc = "llm"]
             t == [s EXCEPT !.text = old.source]
             d == [jd EXCEPT !.text = old.source]
  <2>1. /\ old.pc = "extract" /\ (UNCHANGED jd \/ jd' = d)
        /\ UNCHANGED <<lifeVars, confirmed>>
        /\ jdTask' = [jdTask EXCEPT ![w].pc = "llm", ![w].text = old.source]
    BY <1>17 DEF JDExtract
  <2>2. old.source \in Runs /\ old \in JDTask /\ Sound(old)
    BY <1>2, <2>1
  <2>3. s \in JDTask /\ s.pc = "llm" /\ s.run = old.run
    BY <2>2 DEF JDTask
  <2>4. t \in JDTask /\ t.pc = "llm" /\ t.run = old.run /\ t.text = old.source
    BY <2>2, <2>3 DEF JDTask
  <2>5. jdTask' = [jdTask EXCEPT ![w] = t]
    BY <1>1, <2>1 DEF JDTypeOK
  <2>6. Sound(t)
    BY <2>1, <2>2, <2>4
  <2>7. d \in JD /\ d.source = jd.source /\ d.file = jd.file /\ d.text \in Runs
        /\ d.draft = jd.draft /\ d.status = jd.status
    BY <1>2, <2>2 DEF JD
  <2>8. jd' \in JD /\ JDSound' /\ ReadyHasDraft'
    BY <1>1, <1>7, <1>9, <2>1, <2>7 DEF JDSound, ReadyHasDraft
  <2> HIDE DEF t, Sound
  <2> QED
    BY <1>5, <1>8, <1>9, <2>1, <2>5, <2>6, <2>8
<1>18. CASE JDHeartbeat(w)
  <2>1. \A m \in Run : LET q == [m EXCEPT !.silent = FALSE]
                       IN  /\ q \in Run /\ q.type = m.type /\ q.retryOf = m.retryOf
                           /\ q.status = m.status
    BY DEF Run
  <2>2. /\ run' = [run EXCEPT ![jdTask[w].run] = [@ EXCEPT !.silent = FALSE]]
        /\ UNCHANGED <<queue, request, batch, stale, jdVars>>
    BY <1>18 DEF JDHeartbeat
  <2>3. JDRuns /\ SameTypes
    BY <1>1, <2>1, <2>2 DEF LifeTypeOK, JDRuns, Continues, NotCompleted, IsJDRun
  <2> QED
    BY <1>2, <1>5, <1>7, <1>8, <2>2, <2>3 DEF jdVars
<1>19. ASSUME NEW says \in Drafts, JDPersist(w, says) PROVE Goal
  <2> DEFINE old == jdTask[w]
             p == [of |-> old.text, by |-> old.run, says |-> says]
             s == [jd EXCEPT !.status = "ready"]
             d == [s EXCEPT !.draft = p]
  <2>1. /\ old.pc = "llm" /\ SetStatus(old.run, "completed")
        /\ jdTask' = [jdTask EXCEPT ![w] = IdleJD]
        /\ UNCHANGED <<queue, request, batch, stale, confirmed>>
    BY <1>19 DEF JDPersist
  <2>2. jd' = d
    BY <1>2, <1>19 DEF JDPersist, JD
  <2>3. /\ old.run \in Runs /\ IsJDRun(old.run) /\ old.text \in Runs
        /\ jd.source \in Runs /\ "completed" \in Status \ {"absent"}
    BY <1>2, <1>11, <2>1 DEF Status
  <2>4. JDRuns /\ SameTypes
    BY <1>1, <1>12, <2>1, <2>3, JDRunsWritten
  <2>5. p \in Draft
    BY <2>3 DEF Draft
  <2> HIDE DEF p
  <2>6. s \in JD /\ s.source = jd.source /\ s.file = jd.file /\ s.text = jd.text
        /\ s.status = "ready"
    BY <1>2 DEF JD, JDStatus
  <2> HIDE DEF s
  <2>7. d \in JD /\ d.source = s.source /\ d.file = s.file /\ d.text = s.text
        /\ d.status = s.status /\ d.draft = p
    BY <2>5, <2>6 DEF JD
  <2>8. JDRow(d)
    BY <1>4, <2>5, <2>6, <2>7
  <2> HIDE DEF d, Sound, JDRow
  <2> QED
    BY <1>3, <1>5, <1>6, <1>8, <2>1, <2>2, <2>3, <2>4, <2>8
<1>20. CASE JDFails(w)
  <2> DEFINE t == [IdleJD EXCEPT !.pc = "fail", !.run = jdTask[w].run]
  <2>1. /\ jdTask[w].pc # "idle" /\ jdTask' = [jdTask EXCEPT ![w] = t]
        /\ UNCHANGED <<lifeVars, jd, confirmed>>
    BY <1>20 DEF JDFails
  <2>2. Sound(t)
    BY <1>11, <2>1 DEF IdleJD, JDTask
  <2> HIDE DEF t, Sound
  <2> QED
    BY <1>5, <1>7, <1>8, <1>9, <2>1, <2>2
<1>20a. CASE JDFailsAsLoaded(w)
  <2> DEFINE t == [IdleJD EXCEPT !.pc = "failed", !.run = jdTask[w].run, !.mine = TRUE]
  <2>1. /\ jdTask[w].pc # "idle" /\ jdTask' = [jdTask EXCEPT ![w] = t]
        /\ UNCHANGED <<lifeVars, jd, confirmed>>
    BY <1>20a DEF JDFailsAsLoaded
  <2>2. Sound(t)
    BY <1>11, <2>1 DEF IdleJD, JDTask
  <2> HIDE DEF t, Sound
  <2> QED
    BY <1>5, <1>7, <1>8, <1>9, <2>1, <2>2
<1>21. CASE JDFailRead(w)
  <2> DEFINE old == jdTask[w]
             n == old.run
             x == jd.latest = n /\ jd.status # "failed"
             y == run[n].status = "failed"
             s == [old EXCEPT !.pc = "failed"]
             u == [s EXCEPT !.mine = x]
             t == [u EXCEPT !.done = y]
  <2>1. /\ old.pc = "fail" /\ UNCHANGED <<lifeVars, jd, confirmed>>
    BY <1>21 DEF JDFailRead
  <2>2. jdTask' = [jdTask EXCEPT ![w] = t]
    BY <1>1, <1>21 DEF JDFailRead, JDTypeOK
  <2>3. x \in BOOLEAN /\ y \in BOOLEAN
    OBVIOUS
  <2> HIDE DEF x, y
  <2>4. s \in JDTask /\ s.pc = "failed" /\ s.run = old.run
    BY <1>2 DEF JDTask
  <2> HIDE DEF s
  <2>5. u \in JDTask /\ u.pc = "failed" /\ u.run = old.run
    BY <2>3, <2>4 DEF JDTask
  <2> HIDE DEF u
  <2>6. t \in JDTask /\ t.pc = "failed" /\ t.run = old.run
    BY <2>3, <2>5 DEF JDTask
  <2> HIDE DEF t
  <2>7. Sound(t)
    BY <1>11, <2>1, <2>6
  <2> HIDE DEF Sound
  <2> QED
    BY <1>5, <1>7, <1>8, <1>9, <2>1, <2>2, <2>7
<1>22. CASE JDFailCommit(w)
  <2> DEFINE old == jdTask[w]
             d == [jd EXCEPT !.status = "failed"]
  <2>1. /\ old.pc # "idle" /\ (UNCHANGED run \/ SetStatus(old.run, "failed"))
        /\ UNCHANGED jd \/ jd' = d
        /\ jdTask' = [jdTask EXCEPT ![w] = IdleJD]
        /\ UNCHANGED <<queue, request, batch, stale, confirmed>>
    BY <1>22 DEF JDFailCommit
  <2>2. /\ old.run \in Runs /\ IsJDRun(old.run) /\ jd.source \in Runs
        /\ "failed" \in Status \ {"absent"}
    BY <1>11, <2>1 DEF Status
  <2>3. JDRuns /\ SameTypes
    <3>1. CASE SetStatus(old.run, "failed")
      BY <1>1, <1>12, <2>1, <2>2, <3>1, JDRunsWritten
    <3>2. CASE UNCHANGED run
      BY <1>9, <2>1, <3>2 DEF lifeVars
    <3> QED
      BY <2>1, <3>1, <3>2
  <2>4. JDRow(d)
    BY <1>2 DEF JD, JDStatus
  <2> HIDE DEF d, Sound, JDRow
  <2> QED
    BY <1>3, <1>5, <1>6, <1>7, <1>8, <2>1, <2>2, <2>3, <2>4
<1>23. CASE JDCrash(w)
  BY <1>3, <1>5, <1>7, <1>8, <1>9, <1>23 DEF JDCrash
<1> QED
  BY <1>14, <1>15, <1>16, <1>17, <1>18, <1>19, <1>20, <1>20a, <1>21, <1>22, <1>23
     DEF JDWorkerStep

-----------------------------------------------------------------------------
(* The candidates                                                          *)

\* What a step of the candidates' owner or worker leaves of the runs.
BatchRuns ==
    /\ LifeTypeOK'
    /\ \A n \in Runs : \/ Continues(n)
                       \/ Born(n) /\ run'[n].type # "parse_recruitment_jd"

\* Profiles are never removed.
ProfilesGrow ==
    \A c \in Candidates : candidate[c].profile => candidate'[c].profile

BatchGoal ==
    BatchRuns /\ CandidatesTypeOK' /\ BatchesSound' /\ ProfilesSound' /\ CompletedBatchIsWhole'

\* A batch, new or retried, is a run nobody works on.
LEMMA BatchBorn ==
    ASSUME IInv, NEW n \in Runs, NEW ids \in SUBSET Candidates, LifeTypeOK',
           run[n].status = "absent", run'[n].status = "pending",
           run'[n].type = "parse_recruitment_candidates",
           \A m \in Runs \ {n} : run'[m] = run[m],
           inputs' = [inputs EXCEPT ![n] = ids], UNCHANGED batchTask,
           candidate' \in [Candidates -> Candidate], ProfilesGrow,
           \A c \in Candidates : /\ candidate'[c].status = "absent" => ~ candidate'[c].profile
                                 /\ candidate'[c].status = "ready" => candidate'[c].profile
    PROVE  BatchGoal
<1> USE DEF IInv
<1>1. /\ inputs \in [Runs -> SUBSET Candidates] /\ ~ IsBatchRun(n)
      /\ batchTask \in [BatchTasks -> BatchTask]
  BY DEF TypeOK, CandidatesTypeOK, RunsSound, IsBatchRun, NoRun
<1>2. /\ inputs'[n] = ids /\ \A m \in Runs \ {n} : inputs'[m] = inputs[m]
      /\ inputs' \in [Runs -> SUBSET Candidates]
      /\ IsBatchRun(n)' /\ \A m \in Runs \ {n} : IsBatchRun(m)' <=> IsBatchRun(m)
  BY <1>1 DEF IsBatchRun
<1>3. BatchRuns
  BY DEF BatchRuns, Continues, Born
<1>4. CandidatesTypeOK'
  BY <1>1, <1>2 DEF CandidatesTypeOK
<1>5. BatchesSound'
  <2>1. ASSUME NEW w \in BatchTasks, batchTask[w].pc # "idle"
        PROVE  LET t == batchTask[w]
               IN  /\ t.run \in Runs /\ IsBatchRun(t.run)'
                   /\ ~ t.bad => \A c \in inputs'[t.run] \ t.todo : candidate'[c].profile
    <3>1. batchTask[w].run \in Runs \ {n}
      BY <1>1, <2>1 DEF BatchesSound
    <3> QED
      BY <1>1, <1>2, <2>1, <3>1 DEF BatchesSound, ProfilesGrow
  <2> QED
    BY <2>1 DEF BatchesSound
<1>6. ProfilesSound'
  <2>1. \A m \in Runs : ~ IsBatchRun(m)' => inputs'[m] = {}
    BY <1>2 DEF ProfilesSound
  <2> QED
    BY <2>1 DEF ProfilesSound
<1>7. CompletedBatchIsWhole'
  BY <1>1, <1>2 DEF CompletedBatchIsWhole, ProfilesGrow
<1> QED
  BY <1>3, <1>4, <1>5, <1>6, <1>7 DEF BatchGoal

LEMMA CandidatesOwnerKeeps == ASSUME IInv, CandidatesOwnerStep PROVE BatchGoal
<1> USE DEF IInv
<1>1. LifeTypeOK /\ CandidatesTypeOK
  BY DEF TypeOK
<1>2. "parse_recruitment_candidates" \in RunType \cup {NoRun} /\ NoRun \in Runs \cup {NoRun}
  BY DEF RunType
<1>3. ASSUME NEW r \in Requests, NEW n \in Runs, NEW batchOf \in SUBSET Candidates,
             UploadCandidates(r, n, batchOf)
      PROVE  BatchGoal
  <2>1. NewRun(r, n, "parse_recruitment_candidates", NoRun, 1)
    BY <1>3 DEF UploadCandidates
  <2>2. /\ LifeTypeOK' /\ run[n].status = "absent" /\ run'[n].status = "pending"
        /\ run'[n].type = "parse_recruitment_candidates"
        /\ \A m \in Runs \ {n} : run'[m] = run[m]
    BY <1>1, <1>2, <2>1, NewRunKeeps
  <2> DEFINE x == [status |-> "uploaded", latest |-> n, profile |-> FALSE]
  <2>3. x \in Candidate
    BY DEF Candidate, CandidateStatus
  <2>4. candidate' = [c \in Candidates |-> IF c \in batchOf THEN x ELSE candidate[c]]
    BY <1>3 DEF UploadCandidates
  <2>5. \A c \in batchOf : candidate[c].status = "absent"
    BY <1>3 DEF UploadCandidates, Uploaded
  <2>6. x.status = "uploaded"
    OBVIOUS
  <2> HIDE DEF x
  <2>7. candidate' \in [Candidates -> Candidate]
    BY <1>1, <2>3, <2>4 DEF CandidatesTypeOK
  <2>8. ProfilesGrow
    BY <2>4, <2>5 DEF ProfilesGrow, ProfilesSound
  <2>9. \A c \in Candidates : /\ candidate'[c].status = "absent" => ~ candidate'[c].profile
                              /\ candidate'[c].status = "ready" => candidate'[c].profile
    BY <2>4, <2>6 DEF ProfilesSound
  <2>10. inputs' = [inputs EXCEPT ![n] = batchOf] /\ UNCHANGED batchTask
    BY <1>3 DEF UploadCandidates
  <2> QED
    BY <2>2, <2>7, <2>8, <2>9, <2>10, BatchBorn
<1>4. ASSUME NEW r \in Requests, NEW old \in Runs, NEW new \in Runs, RetryBatch(r, old, new)
      PROVE  BatchGoal
  <2>1. /\ LifeTypeOK' /\ run[new].status = "absent" /\ run'[new].status = "pending"
        /\ run'[new].type = run[old].type
        /\ \A m \in Runs \ {new} : run'[m] = run[m]
    BY <1>1, <1>4, RetryRunKeeps DEF RetryBatch
  <2>2. /\ run'[new].type = "parse_recruitment_candidates"
        /\ inputs' = [inputs EXCEPT ![new] = inputs[old]]
        /\ UNCHANGED <<candidate, batchTask>> /\ inputs[old] \in SUBSET Candidates
    BY <1>1, <1>4, <2>1 DEF RetryBatch, IsBatchRun, CandidatesTypeOK
  <2>3. candidate' \in [Candidates -> Candidate] /\ ProfilesGrow
    BY <1>1, <2>2 DEF CandidatesTypeOK, ProfilesGrow
  <2>4. \A c \in Candidates : /\ candidate'[c].status = "absent" => ~ candidate'[c].profile
                              /\ candidate'[c].status = "ready" => candidate'[c].profile
    BY <2>2 DEF ProfilesSound
  <2> QED
    BY <2>1, <2>2, <2>3, <2>4, BatchBorn
<1> QED
  BY <1>3, <1>4 DEF CandidatesOwnerStep

\* What a worker's step leaves: its row t sound, profiles where they were and
\* no run completed but a batch that is whole.
LEMMA BatchWorked ==
    ASSUME IInv, NEW w \in BatchTasks, NEW t \in BatchTask,
           LifeTypeOK', \A n \in Runs : Continues(n), UNCHANGED inputs,
           batchTask' = [batchTask EXCEPT ![w] = t],
           candidate' \in [Candidates -> Candidate], ProfilesGrow,
           \A c \in Candidates : /\ candidate'[c].status = "absent" => ~ candidate'[c].profile
                                 /\ candidate'[c].status = "ready" => candidate'[c].profile,
           t.pc # "idle" => /\ t.run \in Runs /\ IsBatchRun(t.run)
                            /\ ~ t.bad => \A c \in inputs[t.run] \ t.todo : candidate'[c].profile,
           \A n \in Runs : \/ NotCompleted(n)
                           \/ \A c \in inputs[n] : candidate[c].profile
    PROVE  BatchGoal
<1> USE DEF IInv
<1>1. /\ inputs \in [Runs -> SUBSET Candidates]
      /\ batchTask \in [BatchTasks -> BatchTask]
  BY DEF TypeOK, CandidatesTypeOK
<1>2. batchTask' \in [BatchTasks -> BatchTask]
      /\ batchTask'[w] = t /\ \A v \in BatchTasks \ {w} : batchTask'[v] = batchTask[v]
  BY <1>1
<1>3. \A n \in Runs : IsBatchRun(n)' <=> IsBatchRun(n)
  BY DEF Continues, IsBatchRun
<1>4. BatchRuns
  BY DEF BatchRuns
<1>5. CandidatesTypeOK'
  BY <1>1, <1>2 DEF CandidatesTypeOK
<1>6. BatchesSound'
  BY <1>1, <1>2, <1>3 DEF BatchesSound, ProfilesGrow
<1>7. ProfilesSound'
  <2>1. \A m \in Runs : ~ IsBatchRun(m)' => inputs'[m] = {}
    BY <1>3 DEF ProfilesSound
  <2> QED
    BY <2>1 DEF ProfilesSound
<1>8. CompletedBatchIsWhole'
  BY <1>1 DEF CompletedBatchIsWhole, NotCompleted, ProfilesGrow
<1> QED
  BY <1>4, <1>5, <1>6, <1>7, <1>8 DEF BatchGoal

\* Counting a candidate writes no status.
LEMMA CountedKeeps ==
    ASSUME TypeOK, NEW n, Counted(n), UNCHANGED <<queue, request, batch, stale>>
    PROVE  LifeTypeOK' /\ \A m \in Runs : Continues(m) /\ NotCompleted(m)
<1>1. \A m \in Run : LET q == [m EXCEPT !.silent = FALSE]
                     IN  /\ q \in Run /\ q.type = m.type /\ q.retryOf = m.retryOf
                         /\ q.status = m.status
  BY DEF Run
<1>2. run' = [run EXCEPT ![n] = [@ EXCEPT !.silent = FALSE]]
  BY DEF Counted
<1> QED
  BY <1>1, <1>2 DEF TypeOK, LifeTypeOK, Continues, NotCompleted

\* Taking a candidate over: the profiles stay what they are.
Taking(c, status, n) ==
    candidate' = [candidate EXCEPT ![c].status = status, ![c].latest = n]

LEMMA CandidateTaken ==
    ASSUME CandidatesTypeOK, NEW c, NEW status \in CandidateStatus, NEW n \in Runs,
           Taking(c, status, n)
    PROVE  /\ candidate' \in [Candidates -> Candidate]
           /\ \A d \in Candidates :
                 /\ candidate'[d].profile = candidate[d].profile
                 /\ candidate'[d].status = IF d = c THEN status ELSE candidate[d].status
                 /\ candidate'[d].latest = IF d = c THEN n ELSE candidate[d].latest
<1> DEFINE a(x) == [x EXCEPT !.status = status]
           u(x) == [a(x) EXCEPT !.latest = n]
<1>1. ASSUME NEW x \in Candidate
      PROVE  /\ a(x) \in Candidate /\ a(x).profile = x.profile
             /\ a(x).status = status /\ a(x).latest = x.latest
  BY DEF Candidate, CandidateStatus
<1> HIDE DEF a
<1>2. ASSUME NEW x \in Candidate
      PROVE  /\ u(x) \in Candidate /\ u(x).profile = x.profile
             /\ u(x).status = status /\ u(x).latest = n
  BY <1>1 DEF Candidate
<1>3. candidate' = [candidate EXCEPT ![c] = u(@)]
  BY DEF CandidatesTypeOK, a, Taking
<1> HIDE DEF u
<1>4. ASSUME NEW d \in Candidates
      PROVE  /\ candidate'[d] \in Candidate
             /\ candidate'[d].profile = candidate[d].profile
             /\ candidate'[d].status = IF d = c THEN status ELSE candidate[d].status
             /\ candidate'[d].latest = IF d = c THEN n ELSE candidate[d].latest
  <2>1. candidate[d] \in Candidate
    BY DEF CandidatesTypeOK
  <2>2. candidate'[d] = IF d = c THEN u(candidate[d]) ELSE candidate[d]
    BY <1>3 DEF CandidatesTypeOK
  <2> QED
    BY <1>2, <2>1, <2>2
<1>5. candidate' \in [Candidates -> Candidate]
  BY <1>3, <1>4 DEF CandidatesTypeOK
<1> QED
  BY <1>4, <1>5

LEMMA CandidateFailed ==
    ASSUME CandidatesTypeOK, NEW c, candidate' = [candidate EXCEPT ![c].status = "failed"]
    PROVE  /\ candidate' \in [Candidates -> Candidate]
           /\ \A d \in Candidates :
                 /\ candidate'[d].profile = candidate[d].profile
                 /\ candidate'[d].status = IF d = c THEN "failed" ELSE candidate[d].status
                 /\ candidate'[d].latest = candidate[d].latest
<1> DEFINE u(x) == [x EXCEPT !.status = "failed"]
<1>1. ASSUME NEW x \in Candidate
      PROVE  /\ u(x) \in Candidate /\ u(x).profile = x.profile
             /\ u(x).status = "failed" /\ u(x).latest = x.latest
  BY DEF Candidate, CandidateStatus
<1>2. candidate' = [candidate EXCEPT ![c] = u(@)]
  OBVIOUS
<1> HIDE DEF u
<1>3. ASSUME NEW d \in Candidates
      PROVE  /\ candidate'[d] \in Candidate
             /\ candidate'[d].profile = candidate[d].profile
             /\ candidate'[d].status = IF d = c THEN "failed" ELSE candidate[d].status
             /\ candidate'[d].latest = candidate[d].latest
  <2>1. candidate[d] \in Candidate
    BY DEF CandidatesTypeOK
  <2>2. candidate'[d] = IF d = c THEN u(candidate[d]) ELSE candidate[d]
    BY <1>2 DEF CandidatesTypeOK
  <2> QED
    BY <1>1, <2>1, <2>2
<1>4. candidate' \in [Candidates -> Candidate]
  BY <1>2, <1>3 DEF CandidatesTypeOK
<1> QED
  BY <1>3, <1>4

\* A candidate that gets its profile is ready in the same transaction.
LEMMA CandidateStored ==
    ASSUME CandidatesTypeOK, NEW c,
           candidate' = [candidate EXCEPT ![c].status = "ready", ![c].profile = ProfileStored]
    PROVE  /\ candidate' \in [Candidates -> Candidate]
           /\ \A d \in Candidates :
                 /\ d = c => candidate'[d].profile /\ candidate'[d].status = "ready"
                 /\ d # c => candidate'[d] = candidate[d]
                 /\ candidate'[d].latest = candidate[d].latest
<1> DEFINE a(x) == [x EXCEPT !.status = "ready"]
           u(x) == [a(x) EXCEPT !.profile = ProfileStored]
<1>1. ASSUME NEW x \in Candidate
      PROVE  /\ a(x) \in Candidate /\ a(x).profile = x.profile
             /\ a(x).status = "ready" /\ a(x).latest = x.latest
  BY DEF Candidate, CandidateStatus
<1> HIDE DEF a
<1>2. ASSUME NEW x \in Candidate
      PROVE  /\ u(x) \in Candidate /\ u(x).profile
             /\ u(x).status = "ready" /\ u(x).latest = x.latest
  <2>1. ASSUME NEW y \in Candidate
        PROVE  LET z == [y EXCEPT !.profile = TRUE]
               IN  /\ z \in Candidate /\ z.status = y.status
                   /\ z.latest = y.latest
    BY DEF Candidate
  <2>2. ASSUME NEW y \in Candidate PROVE [y EXCEPT !.profile = TRUE].profile
    BY DEF Candidate
  <2> QED
    BY <1>1, <2>1, <2>2 DEF ProfileStored
<1>3. candidate' = [candidate EXCEPT ![c] = u(@)]
  BY DEF CandidatesTypeOK, a
<1> HIDE DEF u
<1>4. ASSUME NEW d \in Candidates
      PROVE  /\ candidate'[d] \in Candidate
             /\ d = c => candidate'[d].profile /\ candidate'[d].status = "ready"
             /\ d # c => candidate'[d] = candidate[d]
             /\ candidate'[d].latest = candidate[d].latest
  <2>1. candidate[d] \in Candidate
    BY DEF CandidatesTypeOK
  <2>2. candidate'[d] = IF d = c THEN u(candidate[d]) ELSE candidate[d]
    BY <1>3 DEF CandidatesTypeOK
  <2> QED
    BY <1>2, <2>1, <2>2
<1>5. candidate' \in [Candidates -> Candidate]
  BY <1>3, <1>4 DEF CandidatesTypeOK
<1> QED
  BY <1>4, <1>5

\* A worker's row that is done with a candidate.
LEMMA HandledRow ==
    ASSUME NEW t \in BatchTask, NEW failed \in BOOLEAN
    PROVE  LET h == Handled(t, failed)
           IN  /\ h \in BatchTask /\ h.pc = "next" /\ h.run = t.run
               /\ h.todo = t.todo \ {Current(t)}
               /\ ~ h.bad => ~ t.bad /\ ~ failed
<1> DEFINE rest == t.todo \ {Current(t)}
           b == t.bad \/ failed
           x == [t EXCEPT !.pc = "next"]
           y == [x EXCEPT !.todo = rest]
           z == [y EXCEPT !.bad = b]
<1>1. rest \in SUBSET Candidates /\ b \in BOOLEAN
  BY DEF BatchTask
<1>2. Handled(t, failed) = z
  BY DEF Handled, BatchTask
<1>3. ~ b => ~ t.bad /\ ~ failed
  OBVIOUS
<1> HIDE DEF rest, b
<1>4. x \in BatchTask /\ x.pc = "next" /\ x.run = t.run
  BY DEF BatchTask
<1> HIDE DEF x
<1>5. y \in BatchTask /\ y.pc = "next" /\ y.run = t.run /\ y.todo = rest
  BY <1>1, <1>4 DEF BatchTask
<1> HIDE DEF y
<1>6. z \in BatchTask /\ z.pc = "next" /\ z.run = t.run /\ z.todo = rest /\ z.bad = b
  BY <1>1, <1>5 DEF BatchTask
<1> HIDE DEF z
<1> QED
  BY <1>2, <1>3, <1>6 DEF rest

LEMMA SeenRow ==
    ASSUME NEW t \in BatchTask, NEW status \in Status
    PROVE  LET h == [t EXCEPT !.seen = status]
           IN  /\ h \in BatchTask /\ h.pc = t.pc /\ h.run = t.run
               /\ h.todo = t.todo /\ h.bad = t.bad
BY DEF BatchTask

LEMMA BatchWorkerKeeps ==
    ASSUME IInv, NEW w \in BatchTasks, BatchWorkerStep(w) PROVE BatchGoal
<1> DEFINE old == batchTask[w]
           n == old.run
           c == Current(old)
           ids == inputs[n]
           Fitting == \A d \in Candidates :
                         /\ candidate'[d].status = "absent" => ~ candidate'[d].profile
                         /\ candidate'[d].status = "ready" => candidate'[d].profile
           Sound(t) == t.pc # "idle" =>
                         /\ t.run \in Runs /\ IsBatchRun(t.run)
                         /\ ~ t.bad => \A d \in inputs[t.run] \ t.todo : candidate'[d].profile
           Quiet == LifeTypeOK' /\ \A m \in Runs : Continues(m) /\ NotCompleted(m)
           Profiles == candidate' \in [Candidates -> Candidate] /\ ProfilesGrow /\ Fitting
<1> USE DEF IInv
<1>1. TypeOK /\ LifeTypeOK /\ CandidatesTypeOK /\ BatchesSound /\ ProfilesSound
  BY DEF TypeOK
<1>2. old \in BatchTask /\ IdleBatch \in BatchTask /\ IdleBatch.pc = "idle"
  BY <1>1 DEF CandidatesTypeOK, IdleBatch, BatchTask, Status
<1>3. UNCHANGED candidate => Profiles
  BY <1>1 DEF CandidatesTypeOK, ProfilesSound, ProfilesGrow
<1>4. UNCHANGED lifeVars => Quiet
  BY <1>1 DEF lifeVars, LifeTypeOK, Continues, NotCompleted
<1>5. queue \in [Runs -> Nat]
  BY <1>1 DEF LifeTypeOK
<1>6. ASSUME NEW m \in Runs, BatchReceive(w, m)
      PROVE  queue' \in [Runs -> Nat] /\ IsBatchRun(m)
  BY <1>1, <1>6, ReceiveKeeps DEF BatchReceive
<1>7. ASSUME NEW m, NEW status \in Status \ {"absent"}, SetStatus(m, status),
             queue' \in [Runs -> Nat], UNCHANGED <<request, batch, stale>>
      PROVE  /\ LifeTypeOK' /\ \A k \in Runs : Continues(k)
             /\ \A k \in Runs : k # m \/ status # "completed" => NotCompleted(k)
  <2>1. /\ run' \in [Runs -> Run] /\ \A k \in Runs : Continues(k)
        /\ \A k \in Runs : run'[k] = IF k = m THEN Written(run[k], status) ELSE run[k]
    BY <1>1, <1>7, SetStatusKeeps
  <2>2. \A k \in Runs : k # m \/ status # "completed" => NotCompleted(k)
    BY <1>1, <2>1, WrittenRow DEF NotCompleted, LifeTypeOK
  <2> QED
    BY <1>1, <1>7, <2>1, <2>2 DEF LifeTypeOK
<1>8. "cancelled" \in Status \ {"absent"} /\ "failed" \in Status \ {"absent"}
      /\ "completed" \in Status \ {"absent"}
  BY DEF Status
<1>9. ASSUME NEW t \in BatchTask, batchTask' = [batchTask EXCEPT ![w] = t], Sound(t),
             Quiet, Profiles, UNCHANGED inputs
      PROVE  BatchGoal
  BY <1>9, BatchWorked
<1>10. ASSUME batchTask' = [batchTask EXCEPT ![w] = IdleBatch], Quiet,
              UNCHANGED <<candidate, inputs>>
       PROVE  BatchGoal
  BY <1>2, <1>3, <1>9, <1>10
<1>11. ASSUME Quiet, UNCHANGED candidateVars PROVE BatchGoal
  <2>1. batchTask' = [batchTask EXCEPT ![w] = old] /\ UNCHANGED <<candidate, inputs>>
    BY <1>1, <1>11 DEF candidateVars, CandidatesTypeOK
  <2>2. Sound(old)
    BY <1>1, <2>1 DEF BatchesSound
  <2> HIDE DEF Sound, Quiet, Profiles, old
  <2> QED
    BY <1>2, <1>3, <1>9, <1>11, <2>1, <2>2
<1>12. old.pc # "idle" =>
          /\ n \in Runs /\ IsBatchRun(n)
          /\ ~ old.bad => \A d \in ids \ old.todo : candidate[d].profile
          /\ ids \in SUBSET Candidates
          /\ run[n].status \in Status
  <2>1. old.pc # "idle" =>
           /\ n \in Runs /\ IsBatchRun(n)
           /\ ~ old.bad => \A d \in ids \ old.todo : candidate[d].profile
    BY <1>1 DEF BatchesSound
  <2> QED
    BY <1>1, <2>1 DEF CandidatesTypeOK, LifeTypeOK, Run
<1> HIDE DEF Quiet
<1>13. ASSUME NEW m \in Runs, BatchStartIgnored(w, m) PROVE BatchGoal
  <2>1. BatchReceive(w, m) /\ UNCHANGED <<run, request, batch, stale, candidateVars>>
    BY <1>13 DEF BatchStartIgnored
  <2>2. Quiet
    BY <1>1, <1>6, <2>1 DEF Quiet, LifeTypeOK, Continues, NotCompleted
  <2> QED
    BY <1>11, <2>1, <2>2
<1>14. ASSUME NEW m \in Runs, BatchStartCancelled(w, m) PROVE BatchGoal
  <2>1. /\ BatchReceive(w, m) /\ SetStatus(m, "cancelled")
        /\ UNCHANGED <<request, batch, stale, candidateVars>>
    BY <1>14 DEF BatchStartCancelled
  <2>2. Quiet
    BY <1>6, <1>7, <1>8, <2>1 DEF Quiet
  <2> QED
    BY <1>11, <2>1, <2>2
<1>15. ASSUME NEW m \in Runs, BatchStart(w, m) PROVE BatchGoal
  <2> DEFINE t == [IdleBatch EXCEPT !.pc = "next", !.run = m,
                                    !.todo = inputs[m], !.seen = "running"]
             r(x) == [Written(x, "running") EXCEPT !.total = 1]
  <2>1. /\ BatchReceive(w, m) /\ run' = [run EXCEPT ![m] = r(@)]
        /\ batchTask' = [batchTask EXCEPT ![w] = t]
        /\ UNCHANGED <<request, batch, stale, candidate, inputs>>
    BY <1>15 DEF BatchStart
  <2>2. ASSUME NEW x \in Run
        PROVE  /\ r(x) \in Run /\ r(x).type = x.type /\ r(x).retryOf = x.retryOf
               /\ r(x).status = "running"
    <3>1. LET y == Written(x, "running")
          IN  y \in Run /\ y.type = x.type /\ y.retryOf = x.retryOf /\ y.status = "running"
      BY WrittenRow DEF Status
    <3> QED
      BY <3>1 DEF Run
  <2> HIDE DEF r
  <2>3. Quiet
    BY <1>1, <1>6, <2>1, <2>2 DEF Quiet, LifeTypeOK, Continues, NotCompleted
  <2>4. inputs[m] \in SUBSET Candidates /\ IsBatchRun(m)
    BY <1>1, <1>6, <2>1 DEF CandidatesTypeOK
  <2>5. t \in BatchTask /\ t.run = m /\ t.todo = inputs[m]
    BY <2>4 DEF IdleBatch, BatchTask, Status
  <2> HIDE DEF t
  <2>6. Sound(t)
    BY <2>4, <2>5
  <2> QED
    BY <1>3, <1>9, <2>1, <2>3, <2>5, <2>6
<1>16. CASE BatchCancels(w)
  <2>1. Quiet
    BY <1>5, <1>7, <1>8, <1>16 DEF BatchCancels, Quiet
  <2> QED
    BY <1>10, <1>16, <2>1 DEF BatchCancels
<1>17. CASE TakeSuperseded(w) \/ StoreFails(w) \/ BatchCrash(w)
  BY <1>4, <1>10, <1>17 DEF TakeSuperseded, StoreFails, BatchCrash
\* The profiles, when none is removed and the one status written fits.
<1>18. ASSUME candidate' \in [Candidates -> Candidate],
              \A d \in Candidates :
                 /\ candidate'[d].profile = candidate[d].profile
                 /\ \/ candidate'[d].status = candidate[d].status
                    \/ candidate'[d].status \in {"processing", "failed"}
                    \/ candidate'[d].status = "ready" /\ candidate[d].profile
       PROVE  Profiles
  BY <1>1, <1>18 DEF ProfilesSound, ProfilesGrow
\* A worker that has handled its candidate, not well or with a profile.
<1>19. ASSUME NEW failed \in BOOLEAN, NEW t \in BatchTask, old.pc # "idle",
              t.pc = "next", t.run = n, t.todo = old.todo \ {c},
              ~ t.bad => ~ old.bad /\ ~ failed,
              ~ failed => \A d \in Candidates : d = c => candidate'[d].profile, ProfilesGrow
       PROVE  Sound(t)
  <2>1. n \in Runs /\ IsBatchRun(n) /\ ids \in SUBSET Candidates
    BY <1>12, <1>19
  <2>2. ASSUME ~ t.bad, NEW d \in ids \ t.todo PROVE candidate'[d].profile
    <3>1. CASE d = c
      BY <1>19, <2>1, <2>2, <3>1
    <3>2. CASE d # c
      BY <1>12, <1>19, <2>1, <2>2, <3>2 DEF ProfilesGrow
    <3> QED
      BY <3>1, <3>2
  <2> QED
    BY <1>19, <2>1, <2>2
<1> HIDE DEF Sound, Profiles, c
<1>20. ASSUME NEW failed \in BOOLEAN, Counted(n), UNCHANGED <<queue, request, batch, stale>>
       PROVE  /\ Quiet
              /\ LET h == Handled(old, failed)
                 IN  /\ h \in BatchTask /\ h.pc = "next" /\ h.run = n
                     /\ h.todo = old.todo \ {c}
                     /\ ~ h.bad => ~ old.bad /\ ~ failed
  BY <1>1, <1>2, <1>20, CountedKeeps, HandledRow DEF Quiet, c
<1>21. ASSUME NEW t \in BatchTask, NEW failed \in BOOLEAN, old.pc # "idle",
              batchTask' = [batchTask EXCEPT ![w] = t],
              t.pc = "next", t.run = n, t.todo = old.todo \ {c},
              ~ t.bad => ~ old.bad /\ ~ failed,
              ~ failed => \A d \in Candidates : d = c => candidate'[d].profile,
              Quiet, Profiles, UNCHANGED inputs
       PROVE  BatchGoal
  <2>1. ProfilesGrow
    BY <1>21 DEF Profiles
  <2>2. Sound(t)
    BY <1>19, <1>21, <2>1
  <2> QED
    BY <1>9, <1>21, <2>2
<1>22. CASE TakeReady(w)
  <2> DEFINE h == Handled(old, FALSE)
             t == [h EXCEPT !.seen = run[n].status]
  <2>0. Taking(c, "ready", n)
    BY <1>22 DEF TakeReady, Taking, c
  <2>1. /\ old.pc = "next" /\ candidate[c].profile /\ Counted(n)
        /\ UNCHANGED <<queue, request, batch, stale, inputs>>
    BY <1>22 DEF TakeReady, Proceeds, c
  <2>2. batchTask' = [batchTask EXCEPT ![w] = t]
    BY <1>1, <1>22 DEF TakeReady, CandidatesTypeOK
  <2>3. /\ Quiet /\ h \in BatchTask /\ h.pc = "next" /\ h.run = n
        /\ h.todo = old.todo \ {c} /\ (~ h.bad => ~ old.bad)
    BY <1>20, <2>1
  <2>4. run[n].status \in Status /\ n \in Runs
    BY <1>12, <2>1
  <2> HIDE DEF h
  <2>5. /\ t \in BatchTask /\ t.pc = "next" /\ t.run = n
        /\ t.todo = old.todo \ {c} /\ (~ t.bad => ~ old.bad)
    BY <2>3, <2>4, SeenRow
  <2>6. "ready" \in CandidateStatus
    BY DEF CandidateStatus
  <2>7. /\ candidate' \in [Candidates -> Candidate]
        /\ \A d \in Candidates :
              /\ candidate'[d].profile = candidate[d].profile
              /\ candidate'[d].status = IF d = c THEN "ready" ELSE candidate[d].status
    BY <1>1, <2>0, <2>4, <2>6, CandidateTaken
  <2>8. Profiles
    BY <1>18, <2>1, <2>7
  <2>9. \A d \in Candidates : d = c => candidate'[d].profile
    BY <2>1, <2>7
  <2> HIDE DEF t
  <2> QED
    BY <1>21, <2>1, <2>2, <2>3, <2>5, <2>8, <2>9
<1>23. CASE TakeToParse(w)
  <2> DEFINE h == [old EXCEPT !.pc = "parse"]
             t == [h EXCEPT !.seen = run[n].status]
  <2>1. old.pc = "next" /\ Taking(c, "processing", n) /\ UNCHANGED <<lifeVars, inputs>>
    BY <1>23 DEF TakeToParse, Proceeds, Taking, c
  <2>2. batchTask' = [batchTask EXCEPT ![w] = t]
    BY <1>1, <1>23 DEF TakeToParse, CandidatesTypeOK
  <2>3. /\ h \in BatchTask /\ h.run = n /\ h.todo = old.todo /\ h.bad = old.bad
    BY <1>2 DEF BatchTask
  <2>4. run[n].status \in Status /\ n \in Runs
    BY <1>12, <2>1
  <2> HIDE DEF h
  <2>5. t \in BatchTask /\ t.run = n /\ t.todo = old.todo /\ t.bad = old.bad
    BY <2>3, <2>4, SeenRow
  <2>6. "processing" \in CandidateStatus
    BY DEF CandidateStatus
  <2>7. /\ candidate' \in [Candidates -> Candidate]
        /\ \A d \in Candidates :
              /\ candidate'[d].profile = candidate[d].profile
              /\ candidate'[d].status = IF d = c THEN "processing" ELSE candidate[d].status
    BY <1>1, <2>1, <2>4, <2>6, CandidateTaken
  <2>8. Profiles
    BY <1>18, <2>7
  <2>9. Sound(t)
    BY <1>12, <2>1, <2>5, <2>7 DEF Sound
  <2> HIDE DEF t
  <2> QED
    BY <1>4, <1>9, <2>1, <2>2, <2>5, <2>8, <2>9
<1>24. CASE StoreProfile(w)
  <2>1. /\ old.pc = "parse" /\ Counted(n)
        /\ candidate' = [candidate EXCEPT ![c].status = "ready", ![c].profile = ProfileStored]
        /\ UNCHANGED <<queue, request, batch, stale, inputs>>
        /\ batchTask' = [batchTask EXCEPT ![w] = Handled(old, FALSE)]
    BY <1>24 DEF StoreProfile, c
  <2>2. /\ candidate' \in [Candidates -> Candidate]
        /\ \A d \in Candidates :
              /\ d = c => candidate'[d].profile /\ candidate'[d].status = "ready"
              /\ d # c => candidate'[d] = candidate[d]
    BY <1>1, <2>1, CandidateStored
  <2>3. Profiles
    BY <1>1, <2>2 DEF Profiles, ProfilesGrow, ProfilesSound
  <2> QED
    BY <1>20, <1>21, <2>1, <2>2, <2>3
<1>25. CASE ParseFailed(w)
  <2>1. /\ old.pc = "parse" /\ Counted(n)
        /\ candidate' = [candidate EXCEPT ![c].status = "failed"]
        /\ UNCHANGED <<queue, request, batch, stale, inputs>>
        /\ batchTask' = [batchTask EXCEPT ![w] = Handled(old, TRUE)]
    BY <1>25 DEF ParseFailed, c
  <2>2. /\ candidate' \in [Candidates -> Candidate]
        /\ \A d \in Candidates :
              /\ candidate'[d].profile = candidate[d].profile
              /\ candidate'[d].status = IF d = c THEN "failed" ELSE candidate[d].status
    BY <1>1, <2>1, CandidateFailed
  <2>3. Profiles
    BY <1>18, <2>2
  <2> QED
    BY <1>20, <1>21, <2>1, <2>2, <2>3
<1>26. CASE BatchEnds(w)
  <2>1. /\ old.pc = "next" /\ old.todo = {}
        /\ Counted(n) \/ SetStatus(n, BatchOutcome(old))
        /\ batchTask' = [batchTask EXCEPT ![w] = IdleBatch]
        /\ UNCHANGED <<queue, request, batch, stale, candidate, inputs>>
    BY <1>26 DEF BatchEnds
  <2>2. CASE Counted(n)
    BY <1>1, <1>10, <2>1, <2>2, CountedKeeps DEF Quiet
  <2>3. CASE SetStatus(n, BatchOutcome(old))
    <3>1. BatchOutcome(old) \in Status \ {"absent"}
      BY <1>8 DEF BatchOutcome
    <3>2. /\ LifeTypeOK' /\ \A k \in Runs : Continues(k)
          /\ \A k \in Runs : k # n \/ BatchOutcome(old) # "completed" => NotCompleted(k)
      BY <1>5, <1>7, <2>1, <2>3, <3>1
    <3>3. BatchOutcome(old) = "completed" => \A d \in ids : candidate[d].profile
      BY <1>12, <2>1 DEF BatchOutcome
    <3>4. \A k \in Runs : NotCompleted(k) \/ \A d \in inputs[k] : candidate[d].profile
      BY <3>2, <3>3
    <3>5. Profiles
      BY <1>3, <2>1
    <3> QED
      BY <1>2, <2>1, <3>2, <3>4, <3>5, BatchWorked DEF Profiles
  <2> QED
    BY <2>1, <2>2, <2>3
<1> QED
  BY <1>13, <1>14, <1>15, <1>16, <1>17, <1>22, <1>23, <1>24, <1>25, <1>26
     DEF BatchWorkerStep

-----------------------------------------------------------------------------
(* The inductive invariant                                                 *)

LEMMA Initially == Init => IInv
<1> SUFFICES ASSUME Init PROVE IInv
  OBVIOUS
<1>1. /\ run = [n \in Runs |-> AbsentRun]
      /\ AbsentRun.status = "absent" /\ AbsentRun.type = NoRun
  BY DEF Init, LifeInit, AbsentRun, RunRow
<1>2. \A n \in Runs : ~ IsJDRun(n) /\ ~ IsBatchRun(n) /\ run[n].status = "absent"
  BY <1>1 DEF IsJDRun, IsBatchRun, NoRun
<1>3. TypeOK
  <2>1. JDTypeOK
    BY JDConstants DEF Init, JDInit, JDTypeOK, JD, JDStatus, IdleJD, JDTask
  <2>2. CandidatesTypeOK
    BY DEF Init, CandidatesInit, CandidatesTypeOK, AbsentCandidate, Candidate,
           CandidateStatus, IdleBatch, BatchTask, Status
  <2> QED
    BY <2>1, <2>2, LifeInitially DEF Init, TypeOK
<1>4. RunsSound
  BY <1>1 DEF RunsSound
<1>5. JDWorkersSound /\ JDSound /\ ReadyHasDraft
  BY <1>2, RunConstants DEF Init, JDInit, JDWorkersSound, JDSound, ReadyHasDraft, IdleJD
<1>6. BatchesSound /\ ProfilesSound /\ CompletedBatchIsWhole
  BY <1>2 DEF Init, CandidatesInit, BatchesSound, ProfilesSound, CompletedBatchIsWhole,
              IdleBatch, AbsentCandidate
<1> QED
  BY <1>3, <1>4, <1>5, <1>6 DEF IInv

LEMMA NextKeeps == ASSUME IInv, [Next]_vars PROVE IInv'
<1> USE DEF IInv
<1>1. LifeTypeOK /\ JDTypeOK /\ CandidatesTypeOK /\ matches \subseteq Match
  BY DEF TypeOK
<1>2. ASSUME LifeTypeOK', UNCHANGED <<jdVars, candidateVars>>, matches' \subseteq Match,
             \A n \in Runs : Continues(n) /\ NotCompleted(n)
      PROVE  IInv'
  BY <1>2, RunsKept, CandidatesUndisturbed, JDUndisturbed DEF TypeOK
<1>3. UNCHANGED lifeVars => LifeTypeOK' /\ \A n \in Runs : Continues(n) /\ NotCompleted(n)
  BY <1>1 DEF lifeVars, LifeTypeOK, Continues, NotCompleted
<1>4. CASE UNCHANGED vars
  BY <1>1, <1>2, <1>3, <1>4 DEF vars
<1>5. CASE LifeNext /\ UNCHANGED <<jdVars, candidateVars, matches>>
  BY <1>1, <1>2, <1>5, LifeKeeps
<1>6. CASE JDNext /\ UNCHANGED <<candidateVars, matches>>
  <2>1. JDRuns /\ JDTypeOK' /\ JDWorkersSound' /\ JDSound' /\ ReadyHasDraft'
    BY <1>6, JDOwnerKeeps, JDWorkerKeeps DEF JDNext
  <2>2. \A n \in Runs : IsBatchRun(n) => ~ IsJDRun(n)
    BY DEF IsBatchRun, IsJDRun
  <2>3. \A n \in Runs : \/ Continues(n) /\ (IsBatchRun(n) => NotCompleted(n))
                       \/ Born(n)
    BY <2>1, <2>2 DEF JDRuns
  <2>4. CandidatesTypeOK' /\ BatchesSound' /\ ProfilesSound' /\ CompletedBatchIsWhole'
    BY <1>6, <2>3, CandidatesUndisturbed
  <2>5. RunsSound'
    BY <2>3, RunsKept
  <2>6. TypeOK'
    BY <1>1, <1>6, <2>1, <2>4 DEF TypeOK, JDRuns
  <2> QED
    BY <2>1, <2>4, <2>5, <2>6
<1>7. CASE CandidatesNext /\ UNCHANGED <<jdVars, matches>>
  <2>1. BatchGoal
    BY <1>7, CandidatesOwnerKeeps, BatchWorkerKeeps DEF CandidatesNext
  <2>2. JDTypeOK' /\ JDWorkersSound' /\ JDSound' /\ ReadyHasDraft'
    BY <1>7, <2>1, JDUndisturbed DEF BatchGoal, BatchRuns
  <2>3. RunsSound'
    BY <2>1, RunsKept DEF BatchGoal, BatchRuns
  <2>4. TypeOK'
    BY <1>1, <1>7, <2>1, <2>2 DEF TypeOK, BatchGoal, BatchRuns
  <2> QED
    BY <2>1, <2>2, <2>3, <2>4 DEF BatchGoal
<1>8. CASE CreateMatchRun
  <2> DEFINE m == [requirements |-> confirmed.content,
                   ready |-> WithStatus("ready"), skipped |-> WithStatus("failed")]
  <2>1. /\ confirmed.revision > 0 /\ matches' = matches \cup {m}
        /\ UNCHANGED <<lifeVars, jdVars, candidateVars>>
    BY <1>8 DEF CreateMatchRun
  <2>2. confirmed.content \in Confirmation
    BY <2>1 DEF JDSound
  <2>3. m \in Match
    BY <2>2 DEF Match, WithStatus
  <2> HIDE DEF m
  <2>4. matches' \subseteq Match
    BY <1>1, <2>1, <2>3
  <2> QED
    BY <1>2, <1>3, <2>1, <2>4
<1> QED
  BY <1>4, <1>5, <1>6, <1>7, <1>8 DEF Next

-----------------------------------------------------------------------------
(* The theorems                                                            *)

\* The inductive invariant: types, what the workers hold, what the project and
\* its candidates claim.
THEOREM Invariance == Spec => []IInv
<1>1. IInv /\ [Next]_vars => IInv'
  BY NextKeeps
<1> QED
  BY <1>1, Initially, PTL DEF Spec

\* The tables, and what a worker carries through its awaits, are of their types;
\* a match run and a confirmation name a job description that was submitted.
THEOREM TypeCorrect == Spec => []TypeOK
<1>1. IInv => TypeOK
  BY DEF IInv
<1> QED
  BY <1>1, Invariance, PTL

\* A ready candidate has a profile, whatever other run's worker wrote it last:
\* matching never answers CANDIDATE_PROFILE_MISSING.
THEOREM ReadyBacked == Spec => []ReadyHasProfile
<1>1. IInv => ReadyHasProfile
  BY DEF IInv, ProfilesSound, ReadyHasProfile, CandidateProfileMissing, WithStatus
<1> QED
  BY <1>1, Invariance, PTL

\* A completed batch is whole: what its worker has handled without a failure
\* keeps its profile while other runs take the candidates over.
THEOREM CompletedWhole == Spec => []CompletedBatchIsWhole
<1>1. IInv => CompletedBatchIsWhole
  BY DEF IInv
<1> QED
  BY <1>1, Invariance, PTL

\* A ready project has a draft, an empty one nothing, whichever worker is late.
THEOREM DraftThere == Spec => []ReadyHasDraft
<1>1. IInv => ReadyHasDraft
  BY DEF IInv
<1> QED
  BY <1>1, Invariance, PTL

\* A project or a candidate passes from its owner to a new run or to a retry of
\* its owner: a run that was replaced never gets it back.
THEOREM OwnershipMoves == Spec => OwnershipMovesOn
<1> DEFINE Moves ==
             /\ PassesOn(jd.latest, jd'.latest)
             /\ \A c \in Candidates : PassesOn(candidate[c].latest, candidate'[c].latest)
<1>1. ASSUME IInv, [Next]_vars PROVE Moves
  <2>0. TypeOK /\ CandidatesTypeOK /\ JDTypeOK /\ BatchesSound
    BY <1>1 DEF IInv, TypeOK
  <2>1. \A n \in Runs : n # NoRun
    BY RunConstants
  <2>2. ASSUME UNCHANGED candidateVars PROVE \A c \in Candidates :
                  PassesOn(candidate[c].latest, candidate'[c].latest)
    BY <2>2 DEF candidateVars, PassesOn
  <2>3. UNCHANGED jdVars => PassesOn(jd.latest, jd'.latest)
    BY DEF jdVars, PassesOn
  <2>4. ASSUME JDNext PROVE PassesOn(jd.latest, jd'.latest)
    <3>1. ASSUME jd'.latest = jd.latest PROVE PassesOn(jd.latest, jd'.latest)
      BY <3>1 DEF PassesOn
    <3>2. ASSUME NEW r \in Requests, NEW n \in Runs, NEW file \in BOOLEAN, SubmitJD(r, n, file)
          PROVE  PassesOn(jd.latest, jd'.latest)
      <4>1. jd'.latest = n /\ run[n].status = "absent"
        BY <3>2 DEF SubmitJD, NewRun
      <4> QED
        BY <2>1, <4>1 DEF PassesOn
    <3>3. ASSUME NEW w \in JDTasks, NEW n \in Runs, JDStart(w, n)
          PROVE  PassesOn(jd.latest, jd'.latest)
      <4>1. jd'.latest = n
        BY <2>0, <3>3 DEF JDStart, JDTypeOK, JD
      <4>2. jd.latest \in {n, run[n].retryOf}
        BY <3>3 DEF JDStart, TakesOverJD
      <4> QED
        BY <2>1, <4>1, <4>2 DEF PassesOn
    <3>4. ASSUME UNCHANGED jd PROVE jd'.latest = jd.latest
      BY <3>4
    <3>5. ASSUME NEW says \in Drafts, ReplaceRequirements(says) PROVE jd'.latest = jd.latest
      BY <2>0, <3>5 DEF ReplaceRequirements, JDTypeOK, JD
    <3>6. ASSUME NEW w \in JDTasks, NEW says \in Drafts, JDPersist(w, says)
          PROVE  jd'.latest = jd.latest
      BY <2>0, <3>6 DEF JDPersist, JDTypeOK, JD
    <3>7. ASSUME NEW w \in JDTasks, JDExtract(w) \/ JDFailCommit(w)
          PROVE  jd'.latest = jd.latest
      BY <2>0, <3>7 DEF JDExtract, JDFailCommit, JDTypeOK, JD
    <3> QED
      BY <2>4, <3>1, <3>2, <3>3, <3>4, <3>5, <3>6, <3>7
         DEF JDNext, JDOwnerStep, JDWorkerStep, RetryJD, ConfirmRequirements, jdVars,
             JDStartIgnored, JDStartSuperseded, JDHeartbeat, JDFails, JDFailsAsLoaded,
             JDFailRead, JDCrash
  <2>5. ASSUME CandidatesNext, NEW c \in Candidates
        PROVE  PassesOn(candidate[c].latest, candidate'[c].latest)
    <3>1. ASSUME candidate'[c].latest = candidate[c].latest
          PROVE  PassesOn(candidate[c].latest, candidate'[c].latest)
      BY <3>1 DEF PassesOn
    <3>2. ASSUME NEW r \in Requests, NEW n \in Runs, NEW batchOf \in SUBSET Candidates,
                 UploadCandidates(r, n, batchOf)
          PROVE  PassesOn(candidate[c].latest, candidate'[c].latest)
      <4>1. /\ run[n].status = "absent"
            /\ candidate'[c].latest = IF c \in batchOf THEN n ELSE candidate[c].latest
        BY <3>2 DEF UploadCandidates, NewRun
      <4> QED
        BY <2>1, <4>1 DEF PassesOn
    <3>3. ASSUME NEW w \in BatchTasks, TakeReady(w) \/ TakeToParse(w)
          PROVE  PassesOn(candidate[c].latest, candidate'[c].latest)
      <4> DEFINE n == batchTask[w].run
                 d == Current(batchTask[w])
      <4>1. n \in Runs
        BY <2>0, <3>3 DEF TakeReady, TakeToParse, Proceeds, BatchesSound
      <4>2. candidate[d].latest \in {n, run[n].retryOf}
        BY <3>3 DEF TakeReady, TakeToParse, TakesOver
      <4>3. Taking(d, "ready", n) \/ Taking(d, "processing", n)
        BY <3>3 DEF TakeReady, TakeToParse, Taking
      <4> HIDE DEF d, n
      <4>4. candidate'[c].latest = IF c = d THEN n ELSE candidate[c].latest
        <5>1. "ready" \in CandidateStatus /\ "processing" \in CandidateStatus
          BY DEF CandidateStatus
        <5> QED
          BY <2>0, <4>1, <4>3, <5>1, CandidateTaken
      <4> QED
        BY <2>1, <4>1, <4>2, <4>4 DEF PassesOn
    <3>4. ASSUME NEW w \in BatchTasks, StoreProfile(w) \/ ParseFailed(w)
          PROVE  candidate'[c].latest = candidate[c].latest
      <4> DEFINE d == Current(batchTask[w])
      <4>1. \/ candidate' = [candidate EXCEPT ![d].status = "failed"]
            \/ candidate' = [candidate EXCEPT ![d].status = "ready",
                                             ![d].profile = ProfileStored]
        BY <3>4 DEF StoreProfile, ParseFailed
      <4> HIDE DEF d
      <4> QED
        BY <2>0, <4>1, CandidateFailed, CandidateStored
    <3> QED
      BY <2>5, <3>1, <3>2, <3>3, <3>4
         DEF CandidatesNext, CandidatesOwnerStep, BatchWorkerStep, RetryBatch,
             BatchStartIgnored, BatchStartCancelled, BatchStart, BatchCancels,
             TakeSuperseded, StoreFails, BatchEnds, BatchCrash, candidateVars
  <2> QED
    BY <1>1, <2>2, <2>3, <2>4, <2>5 DEF Next, vars, CreateMatchRun
<1>2. IInv /\ [Next]_vars => [Moves]_vars
  BY <1>1
<1> HIDE DEF Moves
<1>3. Spec => [][Moves]_vars
  BY <1>2, Invariance, PTL DEF Spec
<1> QED
  BY <1>3 DEF OwnershipMovesOn, Moves
=============================================================================
