------------------------- MODULE ResumePipelineProofs -------------------------
(***************************************************************************)
(* Proofs about ResumePipeline, for any sets of runs, requests, workers    *)
(* and contents and any bounds.                                            *)
(*                                                                         *)
(* The argument: profiles are only ever added, each with the base it keeps *)
(* (Grows), so that what a worker has found stays there while it holds no  *)
(* lock (Remembered); and the one transaction that adds an extracted       *)
(* profile looks for one under the lock (OneExtracted).                    *)
(***************************************************************************)
EXTENDS ResumePipeline, ProcessingRunsProofs, SequenceTheorems, FiniteSetTheorems

\* A worker that has found a profile is not deceived.
Remembered == \A w \in Workers : worker[w].hasProfile => profiles # <<>>

\* OneExtraction without the cardinality.
OneExtracted == \A u, v \in Extracted : u = v

IInv ==
    /\ TypeOK
    /\ Remembered
    /\ ResultsAreBacked
    /\ OneExtracted
    /\ ProfileHistoryIsSound

\* Profiles are added at the end and keep the base they have.
Grows ==
    /\ Len(profiles') \in Len(profiles) .. Len(profiles) + 1
    /\ \A v \in DOMAIN profiles : profiles'[v].base = profiles[v].base

-----------------------------------------------------------------------------
(* Profiles                                                                *)

LEMMA ProfilesAreSeq ==
    ASSUME TypeOK
    PROVE  /\ Len(profiles) \in Nat
           /\ DOMAIN profiles = 1 .. Len(profiles)
           /\ \A v \in 1 .. Len(profiles) : profiles[v] \in Profile
           /\ profiles # <<>> <=> Len(profiles) > 0
BY LenProperties, ElementOfSeq, EmptySeq DEF TypeOK

LEMMA AddProfile ==
    ASSUME TypeOK, NEW p \in Profile, profiles' = Append(profiles, p)
    PROVE  /\ profiles' \in Seq(Profile) /\ Grows
           /\ profiles' # <<>>
           /\ DOMAIN profiles' = 1 .. Len(profiles) + 1
           /\ \A v \in 1 .. Len(profiles) : profiles'[v] = profiles[v]
           /\ profiles'[Len(profiles) + 1] = p
<1>1. profiles \in Seq(Profile)
  BY DEF TypeOK
<1>2. /\ profiles' \in Seq(Profile)
      /\ profiles' # <<>>
      /\ Len(profiles') = Len(profiles) + 1
      /\ \A v \in 1 .. Len(profiles) : profiles'[v] = profiles[v]
      /\ profiles'[Len(profiles) + 1] = p
  BY <1>1, AppendProperties
<1>3. DOMAIN profiles' = 1 .. Len(profiles')
  BY <1>2, LenProperties
<1> QED
  BY <1>2, <1>3, ProfilesAreSeq DEF Grows

\* What is extracted stays extracted, and there stays something.
LEMMA ExtractedStays ==
    ASSUME TypeOK, TypeOK', Grows
    PROVE  /\ Extracted # {} => Extracted' # {}
           /\ profiles # <<>> => profiles' # <<>>
<1>1. Extracted \subseteq Extracted'
  BY ProfilesAreSeq DEF Extracted, Grows
<1>2. Len(profiles) > 0 => profiles' # <<>>
  <2>1. TypeOK' => (profiles' # <<>> <=> Len(profiles') > 0)
    BY EmptySeq DEF TypeOK
  <2> QED
    BY <2>1, ProfilesAreSeq DEF Grows
<1> QED
  BY <1>1, <1>2, ProfilesAreSeq

-----------------------------------------------------------------------------
(* The steps that write profiles                                           *)

LEMMA RevisedProfile ==
    ASSUME TypeOK, NEW v \in DOMAIN profiles, Revise(v)
    PROVE  LET p == [status |-> "draft", base |-> v, content |-> profiles[v].content]
           IN  p \in Profile /\ profiles' = Append(profiles, p)
BY ProfilesAreSeq DEF Revise, Profile, ProfileStatus

LEMMA ReplacedProfile ==
    ASSUME TypeOK, NEW v \in DOMAIN profiles, NEW content \in Contents, Replace(v, content)
    PROVE  /\ profiles' \in Seq(Profile) /\ Len(profiles') = Len(profiles)
           /\ \A u \in 1 .. Len(profiles) :
                 profiles'[u] = IF u = v THEN [profiles[u] EXCEPT !.content = content]
                                         ELSE profiles[u]
<1>1. profiles' = [profiles EXCEPT ![v] = [profiles[v] EXCEPT !.content = content]]
  BY DEF Replace
<1>2. [profiles[v] EXCEPT !.content = content] \in Profile
  BY ProfilesAreSeq DEF Profile
<1>3. profiles \in Seq(Profile) /\ v \in 1 .. Len(profiles)
  BY ProfilesAreSeq DEF TypeOK
<1> QED
  BY <1>1, <1>2, <1>3, ExceptSeq

LEMMA ConfirmedProfile ==
    ASSUME TypeOK, NEW v \in DOMAIN profiles, Confirm(v)
    PROVE  /\ profiles' \in Seq(Profile) /\ Len(profiles') = Len(profiles)
           /\ \A u \in 1 .. Len(profiles) :
                 /\ profiles'[u].base = profiles[u].base
                 /\ profiles'[u].content = profiles[u].content
                 /\ profiles'[u].status =
                       IF u = v THEN "confirmed" ELSE Superseded(profiles[u].status)
<1> DEFINE status(u) == IF u = v THEN "confirmed" ELSE Superseded(profiles[u].status)
           p(u) == [profiles[u] EXCEPT !.status = status(u)]
<1>1. profiles' = [u \in 1 .. Len(profiles) |-> p(u)]
  BY ProfilesAreSeq DEF Confirm
<1>2. ASSUME NEW u \in 1 .. Len(profiles)
      PROVE  /\ p(u) \in Profile
             /\ p(u).base = profiles[u].base /\ p(u).content = profiles[u].content
             /\ p(u).status = status(u)
  <2>1. profiles[u] \in Profile
    BY ProfilesAreSeq
  <2>2. status(u) \in ProfileStatus
    BY <2>1 DEF Superseded, Profile, ProfileStatus
  <2> HIDE DEF status
  <2> QED
    BY <2>1, <2>2 DEF Profile
<1> HIDE DEF p
<1>3. profiles' \in [1 .. Len(profiles) -> Profile]
  BY <1>1, <1>2
<1>4. Len(profiles) \in Nat
  BY ProfilesAreSeq
<1>5. profiles' \in Seq(Profile)
  BY <1>3, <1>4, SeqDef
<1>6. Len(profiles') = Len(profiles)
  BY <1>3, <1>4, <1>5, LenProperties
<1> QED
  BY <1>1, <1>2, <1>5, <1>6

LEMMA PersistedProfile ==
    ASSUME NEW w \in Workers, NEW content \in Contents, Persist(w, content)
    PROVE  LET p == [status |-> "candidate", base |-> 0, content |-> content]
           IN  /\ p \in Profile
               /\ IF Extracted # {} THEN UNCHANGED profiles
                                    ELSE profiles' = Append(profiles, p)
BY DEF Persist, Reused, Profile, ProfileStatus

-----------------------------------------------------------------------------
(* The steps of the worker                                                 *)

LEMMA WorkerRows ==
    /\ IdleWorker \in Worker /\ ~ IdleWorker.hasProfile
    /\ \A m \in Worker : Failing(m) \in Worker /\ ~ Failing(m).hasProfile
    /\ \A n \in Runs : LET m == [IdleWorker EXCEPT !.pc = "parse", !.run = n]
                       IN  m \in Worker /\ ~ m.hasProfile
<1>1. IdleWorker \in Worker /\ ~ IdleWorker.hasProfile
  BY DEF IdleWorker, Worker
<1>2. \A pc \in {"fail", "parse"}, n \in Runs \cup {NoRun} :
         LET m == [IdleWorker EXCEPT !.pc = pc, !.run = n]
         IN  m \in Worker /\ ~ m.hasProfile
  <2>1. ASSUME NEW pc \in {"fail", "parse"}
        PROVE  LET m == [IdleWorker EXCEPT !.pc = pc]
               IN  m \in Worker /\ ~ m.hasProfile
    BY <1>1 DEF Worker
  <2>2. ASSUME NEW m \in Worker, ~ m.hasProfile, NEW n \in Runs \cup {NoRun}
        PROVE  [m EXCEPT !.run = n] \in Worker /\ ~ [m EXCEPT !.run = n].hasProfile
    BY <2>2 DEF Worker
  <2> QED
    BY <2>1, <2>2
<1>3. \A m \in Worker : Failing(m) \in Worker /\ ~ Failing(m).hasProfile
  <2>1. \A m \in Worker : m.run \in Runs \cup {NoRun}
    BY DEF Worker
  <2> QED
    BY <1>2, <2>1 DEF Failing
<1> QED
  BY <1>1, <1>2, <1>3

\* Taking a message and writing the run.
LEMMA TakenKeeps ==
    ASSUME TypeOK, NEW w \in Workers, NEW n \in Runs, Taken(w, n),
           run' \in [Runs -> Run], UNCHANGED <<request, batch, stale>>
    PROVE  LifeTypeOK'
BY ReceiveKeeps DEF Taken, TypeOK, LifeTypeOK

\* What the last transaction of a worker writes, or leaves, of the run.
LEMMA RunWritten ==
    ASSUME TypeOK, NEW n, NEW status \in Status \ {"absent"},
           SetStatus(n, status) \/ UNCHANGED run
    PROVE  /\ run' \in [Runs -> Run]
           /\ status # "completed" => \A m \in Runs : NotCompleted(m)
<1>1. CASE UNCHANGED run
  BY <1>1 DEF TypeOK, LifeTypeOK, NotCompleted
<1>2. CASE SetStatus(n, status)
  BY <1>2, SetStatusKeeps, WrittenRow DEF TypeOK, NotCompleted, LifeTypeOK
<1> QED
  BY <1>1, <1>2

\* What a step that is neither Persist nor StartReuse does to the runs, the
\* resume and the workers.
Modest ==
    /\ LifeTypeOK' /\ \A n \in Runs : NotCompleted(n)
    /\ resume' \in ParseStatus
    /\ resume' = "ready" => resume = "ready" \/ profiles # <<>>
    /\ worker' \in [Workers -> Worker]
    /\ \A w \in Workers : worker'[w].hasProfile => worker[w].hasProfile \/ profiles # <<>>

LEMMA LifeIsModest ==
    ASSUME TypeOK, LifeNext, UNCHANGED <<resume, worker>> PROVE Modest
BY LifeKeeps DEF TypeOK, Modest

LEMMA OwnerIsModest == ASSUME TypeOK, OwnerStep PROVE Modest
<1>1. ASSUME UNCHANGED worker, resume' \in ParseStatus,
             resume' = "ready" => resume = "ready",
             LifeTypeOK', \A n \in Runs : NotCompleted(n)
      PROVE  Modest
  BY <1>1 DEF TypeOK, Modest
<1>2. ASSUME UNCHANGED lifeVars PROVE LifeTypeOK' /\ \A n \in Runs : NotCompleted(n)
  BY <1>2 DEF TypeOK, LifeTypeOK, lifeVars, NotCompleted
<1>3. ASSUME NEW r \in Requests, NEW n \in Runs, CreateResume(r, n) PROVE Modest
  <2>1. NewRun(r, n, "parse_resume", NoRun, 1)
    BY <1>3 DEF CreateResume
  <2>2. LifeTypeOK' /\ \A m \in Runs : NotCompleted(m)
    BY <2>1, NewRunKeeps DEF TypeOK, RunType, NotCompleted
  <2> QED
    BY <1>1, <1>3, <2>2 DEF CreateResume, ParseStatus
<1>4. ASSUME NEW r \in Requests, NEW old \in Runs, NEW new \in Runs, Retry(r, old, new)
      PROVE  Modest
  <2>1. LifeTypeOK' /\ \A m \in Runs : NotCompleted(m)
    BY <1>4, RetryRunKeeps DEF TypeOK, Retry, NotCompleted
  <2> QED
    BY <1>1, <1>4, <2>1 DEF Retry, TypeOK
<1>5. CASE Archive
  BY <1>1, <1>2, <1>5 DEF Archive, ParseStatus
<1>6. ASSUME NEW v \in DOMAIN profiles, Revise(v) \/ Confirm(v) PROVE Modest
  BY <1>1, <1>2, <1>6 DEF Revise, Confirm, TypeOK
<1>7. ASSUME NEW v \in DOMAIN profiles, NEW content \in Contents, Replace(v, content)
      PROVE  Modest
  BY <1>1, <1>2, <1>7 DEF Replace, TypeOK
<1> QED
  BY <1>3, <1>4, <1>5, <1>6, <1>7 DEF OwnerStep

\* Every step of a worker but the two that complete a run with a profile.
LEMMA WorkerIsModest ==
    ASSUME TypeOK, Remembered, NEW w \in Workers,
           WorkerStep(w) \/ Heartbeat(w) \/ WorkerCrash(w),
           \A n \in Runs : ~ StartReuse(w, n),
           \A content \in Contents : ~ Persist(w, content)
    PROVE  Modest /\ UNCHANGED profiles
<1> USE WorkerRows
<1> DEFINE Kept == /\ worker' \in [Workers -> Worker]
                   /\ \A v \in Workers :
                         worker'[v].hasProfile => worker[v].hasProfile \/ profiles # <<>>
<1>0. /\ "cancelled" \in Status \ {"absent"} /\ "cancelled" # "completed"
      /\ "failed" \in Status \ {"absent"} /\ "failed" # "completed"
  BY DEF Status
<1>1. ASSUME NEW m \in Worker, m.hasProfile => profiles # <<>>,
             worker' = [worker EXCEPT ![w] = m]
      PROVE  Kept
  BY <1>1 DEF TypeOK
<1>2. ASSUME UNCHANGED worker PROVE Kept
  BY <1>2 DEF TypeOK
<1>3. ASSUME UNCHANGED lifeVars PROVE LifeTypeOK' /\ \A n \in Runs : NotCompleted(n)
  BY <1>3 DEF TypeOK, LifeTypeOK, lifeVars, NotCompleted
<1>4. ASSUME run' \in [Runs -> Run], UNCHANGED <<queue, request, batch, stale>>
      PROVE  LifeTypeOK'
  BY <1>4 DEF TypeOK, LifeTypeOK
<1>5. /\ worker[w] \in Worker
      /\ \A n \in Runs : run[n] \in Run
      /\ resume \in ParseStatus
  BY DEF TypeOK, LifeTypeOK
<1>6. Failing(worker[w]) \in Worker /\ ~ Failing(worker[w]).hasProfile
  BY <1>5
<1>7. ASSUME NEW n \in Runs, StartIgnored(w, n) PROVE Modest /\ UNCHANGED profiles
  <2>1. LifeTypeOK'
    BY <1>7, TakenKeeps DEF StartIgnored, TypeOK, LifeTypeOK
  <2> QED
    BY <1>2, <1>5, <1>7, <2>1 DEF StartIgnored, Modest, NotCompleted
<1>8. ASSUME NEW n \in Runs, StartCancelled(w, n) PROVE Modest /\ UNCHANGED profiles
  <2>1. SetStatus(n, "cancelled") /\ Taken(w, n)
    BY <1>8 DEF StartCancelled
  <2>2. run' \in [Runs -> Run] /\ \A m \in Runs : NotCompleted(m)
    BY <1>0, <2>1, RunWritten
  <2>3. LifeTypeOK'
    BY <1>8, <2>1, <2>2, TakenKeeps DEF StartCancelled
  <2> QED
    BY <1>2, <1>8, <2>2, <2>3 DEF StartCancelled, Modest, Restored, ParseStatus
<1>9. ASSUME NEW n \in Runs, StartParse(w, n) PROVE Modest /\ UNCHANGED profiles
  <2>1. run' \in [Runs -> Run] /\ \A m \in Runs : NotCompleted(m)
    <3> DEFINE s == [run[n] EXCEPT !.status = "running"]
               t == [s EXCEPT !.silent = FALSE]
    <3>1. s \in Run /\ s.status = "running"
      BY <1>5 DEF Run, Status
    <3>2. t \in Run /\ t.status = "running"
      BY <3>1 DEF Run
    <3>3. run' = [run EXCEPT ![n] = t]
      BY <1>9 DEF StartParse, TypeOK, LifeTypeOK
    <3> HIDE DEF s, t
    <3> QED
      BY <3>2, <3>3 DEF TypeOK, LifeTypeOK, NotCompleted
  <2>2. LifeTypeOK'
    BY <1>9, <2>1, TakenKeeps DEF StartParse
  <2>3. Kept
    BY <1>1, <1>9 DEF StartParse
  <2> QED
    BY <1>9, <2>1, <2>2, <2>3 DEF StartParse, Modest, ParseStatus
<1>10. CASE Heartbeat(w)
  <2>1. run' \in [Runs -> Run] /\ \A m \in Runs : NotCompleted(m)
    <3>1. \A m \in Run : /\ [m EXCEPT !.silent = FALSE] \in Run
                         /\ [m EXCEPT !.silent = FALSE].status = m.status
      BY DEF Run
    <3>2. run' = [run EXCEPT ![worker[w].run] = [@ EXCEPT !.silent = FALSE]]
      BY <1>10 DEF Heartbeat
    <3> QED
      BY <3>1, <3>2 DEF TypeOK, LifeTypeOK, NotCompleted
  <2> QED
    BY <1>2, <1>4, <1>5, <1>10, <2>1 DEF Heartbeat, Modest
<1>11. CASE ParseFails(w) \/ PersistFails(w)
  <2>1. Kept
    BY <1>1, <1>6, <1>11 DEF ParseFails, PersistFails, TypeOK
  <2> QED
    BY <1>3, <1>5, <1>11, <2>1 DEF ParseFails, PersistFails, Modest
<1>12. CASE ParseEnds(w)
  <2> DEFINE n == worker[w].run
             c == [worker[w] EXCEPT !.pc = "cancel", !.done = run[n].status = "cancelled",
                                    !.hasProfile = profiles # <<>>]
             p == [worker[w] EXCEPT !.pc = "persist", !.done = run[n].status = "completed"]
  <2>1. c \in Worker /\ (c.hasProfile => profiles # <<>>)
    <3>1. [worker[w] EXCEPT !.pc = "cancel"] \in Worker
      BY <1>5 DEF Worker
    <3>2. ASSUME NEW m \in Worker
          PROVE  [m EXCEPT !.done = run[n].status = "cancelled"] \in Worker
      BY <3>2 DEF Worker
    <3>3. ASSUME NEW m \in Worker
          PROVE  /\ [m EXCEPT !.hasProfile = profiles # <<>>] \in Worker
                 /\ [m EXCEPT !.hasProfile = profiles # <<>>].hasProfile <=> profiles # <<>>
      BY <3>3 DEF Worker
    <3> QED
      BY <3>1, <3>2, <3>3
  <2>2. p \in Worker /\ (p.hasProfile => worker[w].hasProfile)
    BY <1>5 DEF Worker
  <2>3. worker' = [worker EXCEPT ![w] = c] \/ worker' = [worker EXCEPT ![w] = p]
    BY <1>12 DEF ParseEnds, TypeOK
  <2> HIDE DEF c, p
  <2>4. Kept
    BY <1>1, <2>1, <2>2, <2>3 DEF Remembered
  <2> QED
    BY <1>3, <1>5, <1>12, <2>4 DEF ParseEnds, Modest
<1>13. CASE WorkerCancels(w)
  <2>1. SetStatus(worker[w].run, "cancelled") \/ UNCHANGED run
    BY <1>13 DEF WorkerCancels
  <2>2. run' \in [Runs -> Run] /\ \A m \in Runs : NotCompleted(m)
    BY <1>0, <2>1, RunWritten
  <2>3. Kept
    BY <1>1, <1>6, <1>13 DEF WorkerCancels, TypeOK
  <2>4. resume' \in ParseStatus /\ (resume' = "ready" => resume = "ready" \/ profiles # <<>>)
    BY <1>5, <1>13 DEF WorkerCancels, Remembered, Restored, ParseStatus
  <2> QED
    BY <1>4, <1>13, <2>2, <2>3, <2>4 DEF WorkerCancels, Modest
<1>14. CASE WorkerFails(w)
  <2>1. SetStatus(worker[w].run, "failed") \/ UNCHANGED run
    BY <1>14 DEF WorkerFails
  <2>2. run' \in [Runs -> Run] /\ \A m \in Runs : NotCompleted(m)
    BY <1>0, <2>1, RunWritten
  <2>3. Kept
    BY <1>1, <1>14 DEF WorkerFails
  <2>4. resume' \in ParseStatus /\ (resume' = "ready" => resume = "ready")
    BY <1>5, <1>14 DEF WorkerFails, ParseStatus
  <2> QED
    BY <1>4, <1>14, <2>2, <2>3, <2>4 DEF WorkerFails, Modest
<1>15. CASE WorkerCrash(w)
  BY <1>1, <1>3, <1>5, <1>15 DEF WorkerCrash, Modest
<1> QED
  BY <1>7, <1>8, <1>9, <1>10, <1>11, <1>12, <1>13, <1>14, <1>15 DEF WorkerStep

\* The other two complete it only with an extracted profile.
LEMMA ReuseKeeps ==
    ASSUME TypeOK, NEW w \in Workers, NEW n \in Runs, StartReuse(w, n)
    PROVE  /\ LifeTypeOK' /\ resume' \in ParseStatus
           /\ UNCHANGED <<profiles, worker>> /\ Extracted # {}
<1>1. "completed" \in Status \ {"absent"}
  BY DEF Status
<1>2. SetStatus(n, "completed") /\ Taken(w, n)
  BY DEF StartReuse
<1>3. run' \in [Runs -> Run]
  BY <1>1, <1>2, RunWritten
<1> QED
  BY <1>2, <1>3, TakenKeeps DEF StartReuse, ParseStatus

LEMMA PersistKeeps ==
    ASSUME TypeOK, NEW w \in Workers, NEW content \in Contents, Persist(w, content)
    PROVE  /\ LifeTypeOK' /\ resume' \in ParseStatus
           /\ worker' = [worker EXCEPT ![w] = IdleWorker]
           /\ profiles' \in Seq(Profile) /\ Grows /\ Extracted' # {}
<1>1. "completed" \in Status \ {"absent"}
  BY DEF Status
<1>2. SetStatus(worker[w].run, "completed") \/ UNCHANGED run
  BY DEF Persist
<1>3. run' \in [Runs -> Run]
  BY <1>1, <1>2, RunWritten
<1>4. LifeTypeOK'
  BY <1>3 DEF Persist, TypeOK, LifeTypeOK
<1>5. CASE Extracted # {}
  <2>1. UNCHANGED profiles
    BY <1>5, PersistedProfile
  <2> QED
    BY <1>4, <1>5, <2>1, ProfilesAreSeq DEF Persist, ParseStatus, TypeOK, Grows, Extracted
<1>6. CASE Extracted = {}
  <2> DEFINE p == [status |-> "candidate", base |-> 0, content |-> content]
  <2>1. p \in Profile /\ profiles' = Append(profiles, p) /\ p.base = 0
    BY <1>6, PersistedProfile
  <2> HIDE DEF p
  <2>2. /\ profiles' \in Seq(Profile) /\ Grows
        /\ profiles'[Len(profiles) + 1].base = 0
        /\ Len(profiles') = Len(profiles) + 1
    BY <2>1, AddProfile, AppendProperties DEF TypeOK
  <2>3. Len(profiles) + 1 \in Extracted'
    BY <2>2, ProfilesAreSeq DEF Extracted
  <2> QED
    BY <1>4, <2>2, <2>3 DEF Persist, ParseStatus
<1> QED
  BY <1>5, <1>6

-----------------------------------------------------------------------------
(* The inductive invariant                                                 *)

LEMMA Initially == Init => IInv
<1> SUFFICES ASSUME Init PROVE IInv
  OBVIOUS
<1>1. profiles = <<>> /\ profiles \in Seq(Profile) /\ Len(profiles) = 0
  BY EmptySeq DEF Init
<1>2. TypeOK /\ Remembered
  BY <1>1, LifeInitially, WorkerRows DEF Init, TypeOK, Remembered, ParseStatus
<1>3. Extracted = {} /\ DOMAIN profiles = {}
  BY <1>1, <1>2, ProfilesAreSeq DEF Extracted
<1>4. \A n \in Runs : run[n].status = "absent"
  BY DEF Init, LifeInit, AbsentRun, RunRow
<1>5. ResultsAreBacked
  BY <1>4 DEF Init, ResultsAreBacked
<1> QED
  BY <1>2, <1>3, <1>5 DEF IInv, OneExtracted, ProfileHistoryIsSound

\* What an owner and a modest worker do to the profiles.
Edits(v) == \E content \in Contents : Replace(v, content)
Leaves == UNCHANGED profiles

LEMMA NextSplits ==
    ASSUME TypeOK, Remembered, [Next]_vars
    PROVE  \/ /\ Modest
              /\ \/ Leaves
                 \/ \E v \in DOMAIN profiles : Revise(v) \/ Edits(v) \/ Confirm(v)
           \/ \E w \in Workers, n \in Runs : StartReuse(w, n)
           \/ \E w \in Workers, content \in Contents : Persist(w, content)
<1>1. CASE UNCHANGED vars
  BY <1>1 DEF vars, lifeVars, Leaves, Modest, TypeOK, LifeTypeOK, NotCompleted
<1>2. CASE LifeNext /\ UNCHANGED <<resume, profiles, worker>>
  BY <1>2, LifeIsModest DEF Leaves
<1>3. ASSUME NEW w \in Workers, WorkerStep(w) \/ Heartbeat(w) \/ WorkerCrash(w),
             \A n \in Runs : ~ StartReuse(w, n),
             \A content \in Contents : ~ Persist(w, content)
      PROVE  Modest /\ Leaves
  BY <1>3, WorkerIsModest DEF Leaves
<1>4. CASE OwnerStep
  <2>1. Modest
    BY <1>4, OwnerIsModest
  <2>2. \/ Leaves
        \/ \E v \in DOMAIN profiles : Revise(v) \/ Edits(v) \/ Confirm(v)
    BY <1>4 DEF OwnerStep, CreateResume, Retry, Archive, Leaves, Edits
  <2> QED
    BY <2>1, <2>2
<1> QED
  BY <1>1, <1>2, <1>3, <1>4 DEF Next

\* Types, growth and the extracted profiles.
LEMMA ProfilesKept ==
    ASSUME IInv, [Next]_vars
    PROVE  TypeOK' /\ Grows /\ OneExtracted'
<1> USE DEF IInv
<1>1. ASSUME Leaves, Modest PROVE TypeOK' /\ Grows /\ OneExtracted'
  BY <1>1, ProfilesAreSeq DEF Leaves, Modest, TypeOK, Grows, OneExtracted, Extracted
<1>2. ASSUME NEW v \in DOMAIN profiles, Revise(v), Modest
      PROVE  TypeOK' /\ Grows /\ OneExtracted'
  <2> DEFINE p == [status |-> "draft", base |-> v, content |-> profiles[v].content]
  <2>1. p \in Profile /\ profiles' = Append(profiles, p) /\ p.base # 0
    BY <1>2, RevisedProfile, ProfilesAreSeq
  <2> HIDE DEF p
  <2>2. /\ profiles' \in Seq(Profile) /\ Grows
        /\ \A u \in 1 .. Len(profiles) : profiles'[u] = profiles[u]
        /\ profiles'[Len(profiles) + 1].base # 0
    BY <2>1, AddProfile
  <2>3. Extracted' \subseteq Extracted
    BY <2>2, ProfilesAreSeq DEF Extracted, Grows
  <2> QED
    BY <1>2, <2>2, <2>3 DEF Modest, TypeOK, OneExtracted
<1>3. ASSUME NEW v \in DOMAIN profiles, Edits(v) \/ Confirm(v), Modest
      PROVE  TypeOK' /\ Grows /\ OneExtracted'
  <2>1. /\ profiles' \in Seq(Profile) /\ Len(profiles') = Len(profiles)
        /\ \A u \in 1 .. Len(profiles) : profiles'[u].base = profiles[u].base
    <3>1. CASE Confirm(v)
      BY <1>3, <3>1, ConfirmedProfile
    <3>2. CASE Edits(v)
      <4>1. PICK content \in Contents : Replace(v, content)
        BY <3>2 DEF Edits
      <4>2. \A p \in Profile : [p EXCEPT !.content = content].base = p.base
        BY DEF Profile
      <4> QED
        BY <4>1, <4>2, ReplacedProfile, ProfilesAreSeq
    <3> QED
      BY <1>3, <3>1, <3>2
  <2>2. Extracted' = Extracted
    BY <2>1 DEF Extracted
  <2>3. Grows
    BY <2>1, ProfilesAreSeq DEF Grows
  <2> QED
    BY <1>3, <2>1, <2>2, <2>3 DEF Modest, TypeOK, OneExtracted
<1>4. ASSUME NEW w \in Workers, NEW n \in Runs, StartReuse(w, n)
      PROVE  TypeOK' /\ Grows /\ OneExtracted'
  BY <1>4, ReuseKeeps, ProfilesAreSeq DEF TypeOK, Grows, OneExtracted, Extracted
<1>5. ASSUME NEW w \in Workers, NEW content \in Contents, Persist(w, content)
      PROVE  TypeOK' /\ Grows /\ OneExtracted'
  <2>1. TypeOK' /\ Grows
    BY <1>5, PersistKeeps, WorkerRows DEF TypeOK
  <2>2. CASE Extracted # {}
    BY <1>5, <2>1, <2>2, PersistedProfile DEF OneExtracted, Extracted
  <2>3. CASE Extracted = {}
    <3>1. PICK p \in Profile : profiles' = Append(profiles, p)
      BY <1>5, <2>3, PersistedProfile
    <3>2. /\ Len(profiles') = Len(profiles) + 1
          /\ \A u \in 1 .. Len(profiles) : profiles'[u] = profiles[u]
      BY <3>1, AppendProperties DEF TypeOK
    <3>3. \A u \in Extracted' : u = Len(profiles) + 1
      BY <2>3, <3>2, ProfilesAreSeq DEF Extracted
    <3> QED
      BY <2>1, <3>3 DEF OneExtracted
  <2> QED
    BY <2>1, <2>2, <2>3
<1> QED
  BY <1>1, <1>2, <1>3, <1>4, <1>5, NextSplits

\* What a worker has found and what a status claims.
LEMMA ResultsKept ==
    ASSUME IInv, [Next]_vars
    PROVE  Remembered' /\ ResultsAreBacked'
<1> USE DEF IInv
<1>1. TypeOK' /\ Grows
  BY ProfilesKept
<1>2. /\ Extracted # {} => Extracted' # {}
      /\ profiles # <<>> => profiles' # <<>>
  BY <1>1, ExtractedStays
<1>3. Extracted' # {} => profiles' # <<>>
  BY <1>1, EmptySeq DEF Extracted, TypeOK
<1>4. CASE Modest
  <2>1. Remembered'
    BY <1>2, <1>4 DEF Modest, Remembered
  <2>2. ResultsAreBacked'
    BY <1>2, <1>4 DEF Modest, ResultsAreBacked, NotCompleted
  <2> QED
    BY <2>1, <2>2
<1>5. ASSUME NEW w \in Workers, NEW n \in Runs, StartReuse(w, n)
      PROVE  Remembered' /\ ResultsAreBacked'
  BY <1>2, <1>3, <1>5, ReuseKeeps DEF Remembered, ResultsAreBacked
<1>6. ASSUME NEW w \in Workers, NEW content \in Contents, Persist(w, content)
      PROVE  Remembered' /\ ResultsAreBacked'
  BY <1>2, <1>3, <1>6, PersistKeeps DEF ResultsAreBacked, Remembered
<1> QED
  BY <1>4, <1>5, <1>6, NextSplits

-----------------------------------------------------------------------------
(* The history of the profiles                                             *)

\* A new version that is not confirmed and derives, if from anything, from an
\* older version that is not a draft.
LEMMA HistoryGrows ==
    ASSUME TypeOK, ProfileHistoryIsSound, NEW p \in Profile,
           profiles' = Append(profiles, p), p.status # "confirmed",
           p.base # 0 => p.base \in DOMAIN profiles /\ profiles[p.base].status # "draft"
    PROVE  ProfileHistoryIsSound'
<1> DEFINE last == Len(profiles) + 1
<1>1. /\ Len(profiles) \in Nat /\ DOMAIN profiles = 1 .. Len(profiles)
      /\ \A v \in 1 .. Len(profiles) : profiles[v].base \in Nat
  BY ProfilesAreSeq DEF Profile
<1>2. /\ DOMAIN profiles' = 1 .. last
      /\ \A v \in 1 .. Len(profiles) : profiles'[v] = profiles[v]
      /\ profiles'[last] = p
  BY AddProfile
<1>3. ASSUME NEW u \in DOMAIN profiles', NEW v \in DOMAIN profiles',
             profiles'[u].status = "confirmed", profiles'[v].status = "confirmed"
      PROVE  u = v
  <2>1. u \in 1 .. Len(profiles) /\ v \in 1 .. Len(profiles)
    BY <1>1, <1>2, <1>3
  <2> QED
    BY <1>1, <1>2, <1>3, <2>1 DEF ProfileHistoryIsSound
<1>4. ASSUME NEW v \in DOMAIN profiles', profiles'[v].base # 0
      PROVE  profiles'[v].base < v /\ profiles'[profiles'[v].base].status # "draft"
  <2>1. CASE v = last
    BY <1>1, <1>2, <1>4, <2>1
  <2>2. CASE v # last
    <3>1. v \in 1 .. Len(profiles) /\ profiles'[v] = profiles[v]
      BY <1>1, <1>2, <2>2
    <3>2. profiles[v].base < v /\ profiles[profiles[v].base].status # "draft"
      BY <1>1, <1>4, <3>1 DEF ProfileHistoryIsSound
    <3>3. profiles[v].base \in 1 .. Len(profiles)
      BY <1>1, <1>4, <3>1, <3>2
    <3> QED
      BY <1>2, <3>1, <3>2, <3>3
  <2> QED
    BY <2>1, <2>2
<1> QED
  BY <1>3, <1>4 DEF ProfileHistoryIsSound

LEMMA HistoryKept ==
    ASSUME IInv, [Next]_vars
    PROVE  ProfileHistoryIsSound'
<1> USE DEF IInv
<1>1. /\ Len(profiles) \in Nat /\ DOMAIN profiles = 1 .. Len(profiles)
      /\ \A v \in 1 .. Len(profiles) : profiles[v] \in Profile /\ profiles[v].base \in Nat
  BY ProfilesAreSeq DEF Profile
<1>2. CASE UNCHANGED profiles
  BY <1>2 DEF ProfileHistoryIsSound
<1>3. ASSUME NEW v \in DOMAIN profiles, Revise(v) PROVE ProfileHistoryIsSound'
  <2> DEFINE p == [status |-> "draft", base |-> v, content |-> profiles[v].content]
  <2>1. p \in Profile /\ profiles' = Append(profiles, p)
    BY <1>3, RevisedProfile
  <2>2. p.status # "confirmed" /\ p.base = v /\ profiles[v].status # "draft"
    BY <1>3 DEF Revise, RevisionSource
  <2> HIDE DEF p
  <2> QED
    BY <2>1, <2>2, HistoryGrows
<1>4. ASSUME DOMAIN profiles' = DOMAIN profiles,
             \A u \in DOMAIN profiles : profiles'[u].base = profiles[u].base,
             \A u \in DOMAIN profiles :
                profiles[u].status # "draft" => profiles'[u].status # "draft"
      PROVE  \A u \in DOMAIN profiles' : profiles'[u].base # 0 =>
                profiles'[u].base < u /\ profiles'[profiles'[u].base].status # "draft"
  <2>1. ASSUME NEW u \in DOMAIN profiles', profiles'[u].base # 0
        PROVE  profiles'[u].base < u /\ profiles'[profiles'[u].base].status # "draft"
    <3>1. profiles[u].base < u /\ profiles[profiles[u].base].status # "draft"
      BY <1>4, <2>1 DEF ProfileHistoryIsSound
    <3>2. profiles[u].base \in DOMAIN profiles
      BY <1>1, <1>4, <2>1, <3>1
    <3> QED
      BY <1>4, <2>1, <3>1, <3>2
  <2> QED
    BY <2>1
<1>5. ASSUME NEW v \in DOMAIN profiles, NEW content \in Contents, Replace(v, content)
      PROVE  ProfileHistoryIsSound'
  <2>1. /\ profiles' \in Seq(Profile) /\ Len(profiles') = Len(profiles)
        /\ \A u \in DOMAIN profiles : profiles'[u].base = profiles[u].base
                                  /\ profiles'[u].status = profiles[u].status
    <3>1. \A p \in Profile : LET q == [p EXCEPT !.content = content]
                             IN  q.base = p.base /\ q.status = p.status
      BY DEF Profile
    <3> QED
      BY <1>1, <1>5, <3>1, ReplacedProfile
  <2>2. DOMAIN profiles' = DOMAIN profiles
    BY <1>1, <2>1, LenProperties
  <2> QED
    BY <1>4, <2>1, <2>2 DEF ProfileHistoryIsSound
<1>6. ASSUME NEW v \in DOMAIN profiles, Confirm(v) PROVE ProfileHistoryIsSound'
  <2>1. /\ profiles' \in Seq(Profile) /\ Len(profiles') = Len(profiles)
        /\ \A u \in DOMAIN profiles :
              /\ profiles'[u].base = profiles[u].base
              /\ profiles'[u].status =
                    IF u = v THEN "confirmed" ELSE Superseded(profiles[u].status)
    BY <1>1, <1>6, ConfirmedProfile
  <2>2. DOMAIN profiles' = DOMAIN profiles
    BY <1>1, <2>1, LenProperties
  <2>3. \A u \in DOMAIN profiles :
           /\ profiles'[u].status = "confirmed" => u = v
           /\ profiles[u].status # "draft" => profiles'[u].status # "draft"
    BY <2>1 DEF Superseded
  <2> QED
    BY <1>4, <2>1, <2>2, <2>3 DEF ProfileHistoryIsSound
<1>7. ASSUME NEW w \in Workers, NEW content \in Contents, Persist(w, content)
      PROVE  ProfileHistoryIsSound'
  <2> DEFINE p == [status |-> "candidate", base |-> 0, content |-> content]
  <2>1. p \in Profile /\ (UNCHANGED profiles \/ profiles' = Append(profiles, p))
    BY <1>7, PersistedProfile
  <2>2. p.status # "confirmed" /\ p.base = 0
    OBVIOUS
  <2> HIDE DEF p
  <2> QED
    BY <1>2, <2>1, <2>2, HistoryGrows
<1>8. ASSUME NEW w \in Workers, NEW n \in Runs, StartReuse(w, n)
      PROVE  ProfileHistoryIsSound'
  BY <1>2, <1>8, ReuseKeeps
<1> QED
  BY <1>2, <1>3, <1>5, <1>6, <1>7, <1>8, NextSplits DEF Leaves, Edits

-----------------------------------------------------------------------------
(* The theorems                                                            *)

\* The inductive invariant: types, what a worker has found, what a status
\* claims, the one extracted profile and the history of the versions.
THEOREM Invariance == Spec => []IInv
<1>1. IInv /\ [Next]_vars => IInv'
  BY ProfilesKept, ResultsKept, HistoryKept DEF IInv
<1> QED
  BY <1>1, Initially, PTL DEF Spec

\* Every row of processing_runs, every profile version and what every worker
\* holds are of their types.
THEOREM TypeCorrect == Spec => []TypeOK
<1>1. IInv => TypeOK
  BY DEF IInv
<1> QED
  BY <1>1, Invariance, PTL

\* A completed run has an extracted profile and a ready resume some profile,
\* whichever of the workers, the cancellation and the retry wrote last.
THEOREM Backed == Spec => []ResultsAreBacked
<1>1. IInv => ResultsAreBacked
  BY DEF IInv
<1> QED
  BY <1>1, Invariance, PTL

\* However many workers parse the resume at once, one profile is extracted:
\* the last transaction looks for one under the resume's lock.
THEOREM ExtractedOnce == Spec => []OneExtraction
<1>1. ASSUME IInv PROVE OneExtraction
  <2>1. CASE Extracted = {}
    BY <2>1, FS_EmptySet DEF OneExtraction
  <2>2. CASE Extracted # {}
    <3>1. PICK v \in Extracted : Extracted = {v}
      BY <1>1, <2>2 DEF IInv, OneExtracted
    <3>2. Cardinality({v}) = 1
      BY FS_Singleton
    <3> QED
      BY <3>1, <3>2 DEF OneExtraction
  <2> QED
    BY <2>1, <2>2
<1> QED
  BY <1>1, Invariance, PTL

\* At most one profile is confirmed and every revision derives from an older
\* version that was never a mere draft, whatever owners and workers do.
THEOREM HistorySound == Spec => []ProfileHistoryIsSound
<1>1. IInv => ProfileHistoryIsSound
  BY DEF IInv
<1> QED
  BY <1>1, Invariance, PTL

\* What was confirmed once keeps its content and is at most superseded:
\* replace_manual_draft takes drafts, and confirm_profile writes statuses.
THEOREM ConfirmedStays == Spec => ConfirmedIsImmutable
<1> DEFINE Kept == \A v \in DOMAIN profiles :
                      profiles[v].status \in {"confirmed", "superseded"} =>
                         /\ v \in DOMAIN profiles'
                         /\ profiles'[v].content = profiles[v].content
                         /\ profiles'[v].status \in {"superseded", profiles[v].status}
<1>1. ASSUME IInv, [Next]_vars PROVE Kept
  <2>0. TypeOK /\ Remembered /\ [Next]_vars
    BY <1>1 DEF IInv
  <2> USE <2>0
  <2>1. DOMAIN profiles = 1 .. Len(profiles) /\ Len(profiles) \in Nat
    BY ProfilesAreSeq
  <2>2. CASE UNCHANGED profiles
    BY <2>2
  <2>3. ASSUME NEW p \in Profile, profiles' = Append(profiles, p) PROVE Kept
    BY <2>1, <2>3, AddProfile
  <2>4. ASSUME profiles' \in Seq(Profile), Len(profiles') = Len(profiles)
        PROVE  DOMAIN profiles' = DOMAIN profiles
    BY <2>1, <2>4, LenProperties
  <2>5. ASSUME NEW v \in DOMAIN profiles, Confirm(v) PROVE Kept
    <3>1. profiles' \in Seq(Profile) /\ Len(profiles') = Len(profiles)
      BY <2>5, ConfirmedProfile
    <3>2. \A u \in DOMAIN profiles :
             /\ profiles'[u].content = profiles[u].content
             /\ profiles'[u].status =
                   IF u = v THEN "confirmed" ELSE Superseded(profiles[u].status)
      BY <2>1, <2>5, ConfirmedProfile
    <3>3. profiles[v].status \notin {"confirmed", "superseded"}
      BY <2>5 DEF Confirm, Confirmable
    <3> QED
      BY <2>4, <3>1, <3>2, <3>3 DEF Superseded
  <2>6. ASSUME NEW v \in DOMAIN profiles, NEW content \in Contents, Replace(v, content)
        PROVE  Kept
    <3>1. profiles' \in Seq(Profile) /\ Len(profiles') = Len(profiles)
      BY <2>6, ReplacedProfile
    <3>2. \A u \in DOMAIN profiles : u # v => profiles'[u] = profiles[u]
      BY <2>1, <2>6, ReplacedProfile
    <3>3. profiles[v].status = "draft"
      BY <2>6 DEF Replace, Editable
    <3> QED
      BY <2>4, <3>1, <3>2, <3>3
  <2>7. ASSUME NEW v \in DOMAIN profiles, Revise(v) PROVE Kept
    BY <2>3, <2>7, RevisedProfile
  <2>8. ASSUME NEW w \in Workers, NEW content \in Contents, Persist(w, content)
        PROVE  Kept
    BY <2>2, <2>3, <2>8, PersistedProfile
  <2>9. ASSUME NEW w \in Workers, NEW n \in Runs, StartReuse(w, n) PROVE Kept
    BY <2>2, <2>9, ReuseKeeps
  <2> QED
    BY <2>2, <2>5, <2>6, <2>7, <2>8, <2>9, NextSplits DEF Leaves, Edits
<1>2. IInv /\ [Next]_vars => [Kept]_vars
  BY <1>1
<1> HIDE DEF Kept
<1>3. Spec => [][Kept]_vars
  BY <1>2, Invariance, PTL DEF Spec
<1> QED
  BY <1>3 DEF ConfirmedIsImmutable, Kept

\* Nothing changes an archived resume: the owner's operations look at its
\* status under its lock, and whatever status a worker that was still parsing,
\* cancelling or failing would write, the check constraint refuses it together
\* with the profile it would add.
THEOREM ArchivedStays == Spec => ArchivedIsFrozen
<1> DEFINE Frozen == resume = "archived" => UNCHANGED <<resume, profiles>>
<1>1. ASSUME [Next]_vars PROVE Frozen
  <2>1. CASE UNCHANGED vars
    BY <2>1 DEF vars
  <2>2. ASSUME NEW w \in Workers, WorkerStep(w) \/ Heartbeat(w) \/ WorkerCrash(w)
        PROVE  Frozen
    BY <2>2 DEF WorkerStep, Heartbeat, WorkerCrash, StartIgnored, StartCancelled,
                StartReuse, StartParse, ParseFails, ParseEnds, WorkerCancels, Persist,
                PersistFails, WorkerFails, ArchiveRefused, OutcomeRefused
  <2>3. CASE OwnerStep
    BY <2>3 DEF OwnerStep, CreateResume, Retry, Archive, Archivable, Revise, Confirm,
                Replace, Open
  <2> QED
    BY <1>1, <2>1, <2>2, <2>3 DEF Next
<1>2. [Next]_vars => [Frozen]_vars
  BY <1>1
<1> HIDE DEF Frozen
<1>3. Spec => [][Frozen]_vars
  BY <1>2, PTL DEF Spec
<1> QED
  BY <1>3 DEF ArchivedIsFrozen, Frozen
=============================================================================
