------------------------------ MODULE Recruitment ------------------------------
(***************************************************************************)
(* A recruitment project: its job description, its candidates and the      *)
(* matching of both, over the life of processing runs.                     *)
(***************************************************************************)
EXTENDS RecruitmentJD, RecruitmentCandidates

VARIABLE matches    \* recruitment_match_runs

vars == <<lifeVars, jdVars, candidateVars, matches>>

\* The natural key of a match run: what was confirmed and, for each candidate,
\* its status.
Match == [requirements : Confirmation,
          ready : SUBSET Candidates, skipped : SUBSET Candidates]

TypeOK ==
    /\ LifeTypeOK
    /\ JDTypeOK
    /\ CandidatesTypeOK
    /\ matches \subseteq Match

Init == LifeInit /\ JDInit /\ CandidatesInit /\ matches = {}

-----------------------------------------------------------------------------
WithStatus(status) == {c \in Candidates : candidate[c].status = status}

\* Why create_match_run refuses: candidates are still being parsed, or a
\* ready one has no profile.
CandidatesNotReady == WithStatus("uploaded") \cup WithStatus("processing") # {}
CandidateProfileMissing == \E c \in WithStatus("ready") : ~ candidate[c].profile

\* create_match_run holds the locks of the project and of its candidates
\* throughout; inputs that were matched before are answered from there.
CreateMatchRun ==
    /\ confirmed.revision > 0
    /\ ~ CandidatesNotReady
    /\ ~ CandidateProfileMissing
    /\ WithStatus("ready") # {}
    /\ matches' = matches \cup {[requirements |-> confirmed.content,
                                 ready |-> WithStatus("ready"),
                                 skipped |-> WithStatus("failed")]}
    /\ UNCHANGED <<lifeVars, jdVars, candidateVars>>

Next ==
    \/ LifeNext /\ UNCHANGED <<jdVars, candidateVars, matches>>
    \/ JDNext /\ UNCHANGED <<candidateVars, matches>>
    \/ CandidatesNext /\ UNCHANGED <<jdVars, matches>>
    \/ CreateMatchRun

Spec == Init /\ [][Next]_vars

-----------------------------------------------------------------------------
(* Properties                                                              *)

\* A candidate that reads ready has a profile, whatever workers, retries and
\* failures wrote its status last: matching never answers
\* CANDIDATE_PROFILE_MISSING.
ReadyHasProfile == ~ CandidateProfileMissing

\* A batch that reads completed was whole: each of its candidates has a
\* profile, although they were committed one by one and other runs took part.
CompletedBatchIsWhole ==
    \A n \in Runs : run[n].status = "completed" =>
        \A c \in inputs[n] : candidate[c].profile

\* A project that reads ready has a draft to edit and to confirm, and one that
\* was never submitted has nothing.
ReadyHasDraft ==
    /\ jd.status = "ready" => jd.draft # NoDraft
    /\ jd.status = "empty" => jd.draft = NoDraft /\ confirmed.revision = 0

\* A project or a candidate passes from the run that owns it to a run just
\* created or to a retry of its owner, so that a run that was replaced never
\* gets it back, however late its messages and its worker are.
PassesOn(from, to) ==
    from # to => to # NoRun /\ (run[to].status = "absent" \/ run[to].retryOf = from)

OwnershipMovesOn ==
    [][/\ PassesOn(jd.latest, jd'.latest)
       /\ \A c \in Candidates :
             PassesOn(candidate[c].latest, candidate'[c].latest)]_vars

\* The draft was extracted from the job description submitted last.  The
\* design (2026-08-07-hr-recruitment-design.md, 15.4) says it of runs: once the
\* project belongs to a newer run, an older one cannot overwrite its draft.
DraftIsOfCurrentJD == jd.draft # NoDraft => jd.draft.of = jd.source
=============================================================================
