----------------------------- MODULE MCRecruitment -----------------------------
(***************************************************************************)
(* Values of the constants of Recruitment for TLC.                         *)
(***************************************************************************)
EXTENDS Recruitment, TLC

\* Runs, requests and the slots of a kind of task are interchangeable.
Symmetry == Permutations(Runs) \cup Permutations(Requests)
                \cup Permutations(JDTasks) \cup Permutations(BatchTasks)

\* Bound: the job description and the candidates share nothing until they are
\* matched, so their interleavings are left out: candidates are uploaded to a
\* project without a job description, or with a confirmed one whose run ended
\* completed and left nothing behind.
Rests(n) ==
    /\ queue[n] = 0 /\ n \notin stale
    /\ run[n].status = "completed" /\ run[n].sent /\ ~ run[n].flag
    /\ \A r \in Requests : request[r].run # n
    /\ \A s \in batch : s.run # n
    /\ \A w \in JDTasks : jdTask[w].run # n

Separately ==
    Uploaded # {} =>
        /\ jd.draft # NoDraft => Content = confirmed.content
        /\ \A n \in Runs : IsJDRun(n) => Rests(n)

\* Bound: so are the interleavings of two uploads, which share nothing either.
OneUpload == Uploaded \in {{}, Candidates}
=============================================================================
