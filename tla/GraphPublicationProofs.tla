------------------------ MODULE GraphPublicationProofs ------------------------
(***************************************************************************)
(* Proofs about GraphPublication, for any sets of proposals, definitions   *)
(* and requests and any bounds.                                            *)
(*                                                                         *)
(* The argument: the row lock makes a publishing version the property of   *)
(* one request (Ownership); that request carries, in its private state,    *)
(* what it has already done outside PostgreSQL (Carried); and the requests *)
(* that reach the commit do so one at a time, having demoted every current *)
(* catalog (Switching).  What is official follows (Official).              *)
(*                                                                         *)
(* Decisions lock nothing and overlap.  Their log only grows, and what a   *)
(* decision has read bounds what it can overwrite (DecisionsRead), so that *)
(* the log accounts for proposals and versions all the same (ReviewInv).   *)
(***************************************************************************)
EXTENDS GraphPublication, TLAPS

\* A request inside a publication publishes a version nobody else publishes.
Ownership ==
    /\ \A r \in Requests : Publishing(r) => vStatus[req[r].prop] = "publishing"
    /\ OnePublisherPerVersion

\* What a request has done and read so far still holds when it commits.
Carried ==
    \A r \in Requests :
        /\ req[r].pc \in {"finalize", "switch", "wait", "commit"}
              => req[r].prop \in neo
        /\ InTransaction(r) => /\ req[r].prop \in req[r].roles
                               /\ req[r].roles \subseteq ActiveRoles \cup {req[r].prop}

\* The row locks of the switch are held by one request, and no current
\* catalog is left outside what it demoted.
Switching ==
    /\ \A r, s \in Requests : req[r].pc = "commit" /\ req[s].pc = "commit" => r = s
    /\ \A r \in Requests : req[r].pc = "commit" => catalogCurrent \subseteq req[r].demoted

\* What is official is backed, and nothing else has catalog items.
Official ==
    /\ PublishedIsBacked
    /\ graphCurrent \subseteq Published
    /\ \A p \in Proposals \ Published : catalogItems[p] = {}

\* A transaction has reserved its role's name.
NamesReserved ==
    /\ \A r, s \in Requests :
          InTransaction(r) /\ InTransaction(s) /\ SameName(req[r].prop, req[s].prop)
             => r = s
    /\ \A r \in Requests, x \in JobRoles :
          InTransaction(r) => ~ SameName(req[r].prop, x)
    /\ RoleNamesUnique

\* The numbers of the versions are 1, 2, ... without a gap, and a creation
\* holds a number that leaves none.
Numbers ==
    /\ \A p \in Proposals : HasVersion(p) \/ vNo[p] = 0
    /\ \A p \in Proposals : \A n \in 1 .. vNo[p] : \E q \in Proposals : vNo[q] = n
    /\ \A r \in Requests : req[r].pc = "create" =>
          /\ req[r].no >= 1
          /\ req[r].no = 1 \/ \E q \in Proposals : vNo[q] = req[r].no - 1

IInv ==
    /\ TypeOK
    /\ Ownership
    /\ Carried
    /\ Switching
    /\ CurrentVersionsAgree
    /\ Official
    /\ NamesReserved
    /\ Numbers

-----------------------------------------------------------------------------
(* Typing                                                                  *)

\* The phase of a request tells which of the four record types it has.
LEMMA RequestShape ==
    ASSUME TypeOK, NEW r \in Requests
    PROVE  /\ Publishing(r) => req[r] \in PublishRequest
           /\ req[r].pc = "decide" => req[r] \in DecideRequest
           /\ req[r].pc = "create" => req[r] \in CreateRequest
           /\ InTransaction(r) => Publishing(r)
BY DEF TypeOK, IdleRequest, DecideRequest, CreateRequest, PublishRequest,
       PublishPC, Publishing, InTransaction

LEMMA AtIsPublishRequest ==
    ASSUME NEW p \in Proposals, NEW pc \in PublishPC
    PROVE  At(p, pc) \in PublishRequest
BY DEF At, PublishRequest

\* Moving on to the next phase keeps the shape.
LEMMA StepKeepsShape ==
    ASSUME NEW q \in PublishRequest, NEW pc \in PublishPC
    PROVE  [q EXCEPT !.pc = pc] \in PublishRequest
BY DEF PublishRequest

\* Every action keeps every variable in its type.
LEMMA Typing == TypeOK /\ [Next]_vars => TypeOK'
<1> SUFFICES ASSUME TypeOK, [Next]_vars PROVE TypeOK'
  OBVIOUS
<1> USE DEF TypeOK, versionVars, proposalVars, officialVars
<1>1. ASSUME NEW p \in Proposals, CreateReviewProposal(p) PROVE TypeOK'
  BY <1>1 DEF CreateReviewProposal, ReviewStatus, CandidateStatus
<1>2. ASSUME NEW p \in Proposals, ImportAlgorithmProposal(p) PROVE TypeOK'
  BY <1>2 DEF ImportAlgorithmProposal, ReviewStatus
<1>3. ASSUME NEW r \in Requests, NEW p \in Proposals, NEW verdict \in Verdict,
             NEW after \in Payloads, DecideRead(r, p, verdict, after)
      PROVE  TypeOK'
  <2>1. [pc |-> "decide", prop |-> p, status |-> reviewStatus[p],
         before |-> payload[p], verdict |-> verdict, after |-> after]
           \in DecideRequest
    BY DEF DecideRequest
  <2> QED
    BY <1>3, <2>1 DEF DecideRead
<1>4. ASSUME NEW r \in Requests, NEW p \in Proposals, NEW no \in VersionNos,
             CreateRead(r, p, no)
      PROVE  TypeOK'
  <2>1. [pc |-> "create", prop |-> p, no |-> no, imports |-> Imported,
         definition |-> payload[p]] \in CreateRequest
    BY DEF CreateRequest, VersionNos, Imported
  <2> QED
    BY <1>4, <2>1 DEF CreateRead
<1>5. ASSUME NEW r \in Requests, NEW p \in Proposals, PublishBegin(r, p)
      PROVE  TypeOK'
  <2>1. At(p, FirstStep(p)) \in PublishRequest
    BY AtIsPublishRequest DEF FirstStep, PublishPC
  <2>2. vStatus' \in [Proposals -> VersionStatus]
    BY <1>5 DEF PublishBegin, VersionStatus
  <2>3. attempts' \in [Proposals -> Nat]
    BY <1>5 DEF PublishBegin
  <2> QED
    BY <1>5, <2>1, <2>2, <2>3 DEF PublishBegin
<1>6. ASSUME NEW r \in Requests, DecideCommit(r) PROVE TypeOK'
  <2>1. req[r] \in DecideRequest
    BY <1>6, RequestShape DEF DecideCommit
  <2>2. /\ req[r].prop \in Proposals /\ req[r].verdict \in Verdict
        /\ req[r].after \in Payloads
        /\ Outcome(req[r].verdict) \in ReviewStatus
    BY <2>1 DEF DecideRequest, Outcome, Verdict, ReviewStatus
  <2>3. reviewStatus' \in [Proposals -> ReviewStatus]
    BY <1>6, <2>2 DEF DecideCommit
  <2>4. payload' \in [Proposals -> Payloads]
    BY <1>6, <2>2 DEF DecideCommit
  <2>5. decisions' \in [Proposals -> Seq([verdict : Verdict, after : Payloads])]
    <3>1. [verdict |-> req[r].verdict, after |-> req[r].after]
             \in [verdict : Verdict, after : Payloads]
      BY <2>2
    <3>2. decisions[req[r].prop] \in Seq([verdict : Verdict, after : Payloads])
      BY <2>2
    <3>3. Append(decisions[req[r].prop],
                 [verdict |-> req[r].verdict, after |-> req[r].after])
             \in Seq([verdict : Verdict, after : Payloads])
      BY <3>1, <3>2
    <3> QED
      BY <1>6, <2>2, <3>3 DEF DecideCommit
  <2>6. candidate' \in [Proposals -> CandidateStatus]
    BY <1>6, <2>2 DEF DecideCommit, CandidateStatus, CandidateAfter, Verdict
  <2> QED
    BY <1>6, <2>3, <2>4, <2>5, <2>6 DEF DecideCommit
<1>7. ASSUME NEW r \in Requests, CreateCommit(r) PROVE TypeOK'
  <2>1. req[r] \in CreateRequest
    BY <1>7, RequestShape DEF CreateCommit
  <2> QED
    BY <1>7, <2>1 DEF CreateCommit, CreateRequest, VersionStatus
<1>8. ASSUME NEW r \in Requests, ProjectToNeo4j(r) \/ ProjectionFails(r)
      PROVE  TypeOK'
  <2>1. req[r] \in PublishRequest
    BY <1>8, RequestShape DEF ProjectToNeo4j, ProjectionFails, Publishing, PublishPC
  <2>2. req'[r] \in PublishRequest /\ req' = [req EXCEPT ![r] = req'[r]]
    BY <1>8, <2>1, StepKeepsShape DEF ProjectToNeo4j, ProjectionFails, PublishPC
  <2>3. req[r].prop \in Proposals
    BY <2>1 DEF PublishRequest
  <2>4. neo' \subseteq Proposals
    BY <1>8, <2>3 DEF ProjectToNeo4j, ProjectionFails
  <2> QED
    BY <1>8, <2>2, <2>4 DEF ProjectToNeo4j, ProjectionFails
<1>9. ASSUME NEW r \in Requests, FinalizeInsert(r) PROVE TypeOK'
  <2>1. req[r] \in PublishRequest
    BY <1>9, RequestShape DEF FinalizeInsert, Publishing, PublishPC
  <2>2. req[r].prop \in Proposals
    BY <2>1 DEF PublishRequest
  <2>3. At(req[r].prop, "fail") \in PublishRequest
    BY <2>2, AtIsPublishRequest DEF PublishPC
  <2>4. [At(req[r].prop, "switch") EXCEPT !.roles = ActiveRoles \cup {req[r].prop}]
           \in PublishRequest
    BY <2>2 DEF At, PublishRequest, PublishPC, ActiveRoles
  <2>5. req'[r] \in PublishRequest /\ req' = [req EXCEPT ![r] = req'[r]]
    BY <1>9, <2>3, <2>4 DEF FinalizeInsert
  <2> QED
    BY <1>9, <2>5 DEF FinalizeInsert
<1>10. ASSUME NEW r \in Requests, FinalizeSwitch(r) \/ FinalizeResume(r)
       PROVE  TypeOK'
  <2>1. req[r] \in PublishRequest
    BY <1>10, RequestShape DEF FinalizeSwitch, FinalizeResume, Publishing, PublishPC
  <2>2. "wait" \in PublishPC /\ "commit" \in PublishPC /\ "fail" \in PublishPC
    BY DEF PublishPC
  <2>3. catalogCurrent \in SUBSET Proposals
    OBVIOUS
  <2>4. ASSUME FinalizeSwitch(r) PROVE req'[r] \in PublishRequest
    <3> DEFINE pc == IF SwitchHeld THEN "wait" ELSE "commit"
    <3>1. req'[r] = [req[r] EXCEPT !.pc = pc, !.demoted = catalogCurrent]
      BY <2>4 DEF FinalizeSwitch
    <3>2. pc \in PublishPC
      BY <2>2
    <3> HIDE DEF pc
    <3>3. [req[r] EXCEPT !.pc = pc, !.demoted = catalogCurrent] \in PublishRequest
      BY <2>1, <2>3, <3>2 DEF PublishRequest
    <3> QED
      BY <3>1, <3>3
  <2>5. ASSUME FinalizeResume(r) PROVE req'[r] \in PublishRequest
    <3> DEFINE pc == IF SecondCurrent(r) THEN "fail" ELSE "commit"
    <3>1. req'[r] = [req[r] EXCEPT !.pc = pc]
      BY <2>5 DEF FinalizeResume
    <3>2. pc \in PublishPC
      BY <2>2
    <3> HIDE DEF pc
    <3>3. [req[r] EXCEPT !.pc = pc] \in PublishRequest
      BY <2>1, <3>2 DEF PublishRequest
    <3> QED
      BY <3>1, <3>3
  <2>6. req' = [req EXCEPT ![r] = req'[r]]
    BY <1>10 DEF FinalizeSwitch, FinalizeResume
  <2> QED
    BY <1>10, <2>4, <2>5, <2>6 DEF FinalizeSwitch, FinalizeResume
<1>11. ASSUME NEW r \in Requests, FinalizeCommit(r) PROVE TypeOK'
  <2>1. req[r] \in PublishRequest
    BY <1>11, RequestShape DEF FinalizeCommit, Publishing, PublishPC
  <2> QED
    BY <1>11, <2>1 DEF FinalizeCommit, PublishRequest, ReviewStatus, VersionStatus
<1>12. ASSUME NEW r \in Requests, FinalizeError(r) PROVE TypeOK'
  <2>1. req[r] \in PublishRequest
    BY <1>12, RequestShape
       DEF FinalizeError, InTransaction, Publishing, PublishPC
  <2>2. At(req[r].prop, "fail") \in PublishRequest
    BY <2>1, AtIsPublishRequest DEF PublishRequest, PublishPC
  <2> QED
    BY <1>12, <2>2 DEF FinalizeError
<1>13. ASSUME NEW r \in Requests, MarkFailed(r) PROVE TypeOK'
  <2>1. req[r] \in PublishRequest
    BY <1>13, RequestShape DEF MarkFailed, Publishing, PublishPC
  <2> QED
    BY <1>13, <2>1 DEF MarkFailed, FailureStatus, VersionStatus, PublishRequest
<1>14. ASSUME NEW r \in Requests, Crash(r) PROVE TypeOK'
  BY <1>14 DEF Crash
<1>15. ASSUME NEW c \in CatalogRoles, NEW status \in {"candidate", "active"},
              ImportRole(c, status)
       PROVE  TypeOK'
  BY <1>15 DEF ImportRole
<1>16. CASE UNCHANGED vars
  BY <1>16 DEF vars
<1> QED
  BY <1>1, <1>2, <1>3, <1>4, <1>5, <1>6, <1>7, <1>8, <1>9, <1>10, <1>11,
     <1>12, <1>13, <1>14, <1>15, <1>16 DEF Next, RequestStep
-----------------------------------------------------------------------------
(* Ownership                                                               *)

\* What a step does to the requests: the one that moves stays in its
\* publication, leaves it, or starts one on a version nobody publishes.
LEMMA OwnershipStep == TypeOK /\ Ownership /\ [Next]_vars => Ownership'
<1> SUFFICES ASSUME TypeOK, Ownership, [Next]_vars PROVE Ownership'
  OBVIOUS
<1> USE DEF versionVars, proposalVars, officialVars
<1>a. /\ req \in [Requests -> {IdleRequest} \cup DecideRequest
                              \cup CreateRequest \cup PublishRequest]
      /\ vStatus \in [Proposals -> VersionStatus]
  BY DEF TypeOK
<1>b. \A r \in Requests : Publishing(r) => req[r].prop \in Proposals
  BY RequestShape DEF PublishRequest
\* Two requests in a publication before the step that are there after it.
<1>c. ASSUME vStatus' = vStatus,
             \A s \in Requests : Publishing(s)' =>
                 Publishing(s) /\ req'[s].prop = req[s].prop
      PROVE  Ownership'
  BY <1>c DEF Ownership, OnePublisherPerVersion
<1>1. ASSUME NEW p \in Proposals,
             CreateReviewProposal(p) \/ ImportAlgorithmProposal(p)
      PROVE  Ownership'
  <2>1. vStatus' = vStatus /\ req' = req
    BY <1>1 DEF CreateReviewProposal, ImportAlgorithmProposal
  <2> QED
    BY <1>c, <2>1 DEF Publishing
<1>2. ASSUME NEW r \in Requests, NEW p \in Proposals, NEW verdict \in Verdict,
             NEW after \in Payloads, DecideRead(r, p, verdict, after)
      PROVE  Ownership'
  <2>1. vStatus' = vStatus
    BY <1>2 DEF DecideRead
  <2>2. \A s \in Requests : Publishing(s)' => Publishing(s) /\ req'[s] = req[s]
    BY <1>2, <1>a DEF DecideRead, Publishing, PublishPC
  <2> QED
    BY <1>c, <2>1, <2>2
<1>3. ASSUME NEW r \in Requests, NEW p \in Proposals, NEW no \in VersionNos,
             CreateRead(r, p, no)
      PROVE  Ownership'
  <2>1. vStatus' = vStatus
    BY <1>3 DEF CreateRead
  <2>2. \A s \in Requests : Publishing(s)' => Publishing(s) /\ req'[s] = req[s]
    BY <1>3, <1>a DEF CreateRead, Publishing, PublishPC
  <2> QED
    BY <1>c, <2>1, <2>2
<1>4. ASSUME NEW r \in Requests, NEW p \in Proposals, PublishBegin(r, p)
      PROVE  Ownership'
  <2>1. \A s \in Requests : Publishing(s) => req[s].prop # p
    BY <1>4, <1>b DEF Ownership, PublishBegin, Publishable
  <2>2. /\ req'[r].prop = p
        /\ \A s \in Requests \ {r} : req'[s] = req[s]
        /\ vStatus' = [vStatus EXCEPT ![p] = "publishing"]
    BY <1>4, <1>a DEF PublishBegin, At
  <2> QED
    BY <1>a, <1>b, <2>1, <2>2 DEF Ownership, OnePublisherPerVersion, Publishing
<1>5. ASSUME NEW r \in Requests, CreateCommit(r) PROVE Ownership'
  <2>1. req[r].prop \in Proposals
    BY <1>5, RequestShape DEF CreateCommit, CreateRequest
  <2>2. \A s \in Requests : Publishing(s)' => Publishing(s) /\ req'[s] = req[s]
    BY <1>5, <1>a DEF CreateCommit, Publishing, PublishPC, IdleRequest
  <2>3. \A s \in Requests : Publishing(s) =>
           vStatus'[req[s].prop] = vStatus[req[s].prop]
    BY <1>5, <1>a, <1>b, <2>1 DEF CreateCommit, Taken, HasVersion, Ownership
  <2> QED
    BY <2>2, <2>3 DEF Ownership, OnePublisherPerVersion
<1>6. ASSUME NEW r \in Requests, DecideCommit(r) \/ Crash(r) PROVE Ownership'
  <2>1. vStatus' = vStatus
    BY <1>6 DEF DecideCommit, Crash
  <2>2. \A s \in Requests : Publishing(s)' => Publishing(s) /\ req'[s] = req[s]
    BY <1>6, <1>a DEF DecideCommit, Crash, Publishing, PublishPC, IdleRequest
  <2> QED
    BY <1>c, <2>1, <2>2
<1>7. ASSUME NEW r \in Requests,
             \/ ProjectToNeo4j(r) \/ ProjectionFails(r) \/ FinalizeInsert(r)
             \/ FinalizeSwitch(r) \/ FinalizeResume(r) \/ FinalizeError(r)
      PROVE  Ownership'
  <2>1. vStatus' = vStatus
    BY <1>7 DEF ProjectToNeo4j, ProjectionFails, FinalizeInsert, FinalizeSwitch,
                FinalizeResume, FinalizeError
  <2>2. Publishing(r)
    BY <1>7 DEF ProjectToNeo4j, ProjectionFails, FinalizeInsert, FinalizeSwitch,
                FinalizeResume, FinalizeError, InTransaction, Publishing,
                PublishPC
  <2>3. \A s \in Requests \ {r} : req'[s] = req[s]
    BY <1>7, <1>a DEF ProjectToNeo4j, ProjectionFails, FinalizeInsert,
                      FinalizeSwitch, FinalizeResume, FinalizeError
  <2>4. req'[r].prop = req[r].prop
    <3>1. req[r] \in PublishRequest
      BY <2>2, RequestShape
    <3>2. CASE ProjectToNeo4j(r) \/ ProjectionFails(r) \/ FinalizeResume(r)
      BY <1>a, <3>1, <3>2
         DEF ProjectToNeo4j, ProjectionFails, FinalizeResume, PublishRequest
    <3>3. CASE FinalizeSwitch(r)
      BY <1>a, <3>1, <3>3 DEF FinalizeSwitch, PublishRequest
    <3>4. CASE FinalizeInsert(r) \/ FinalizeError(r)
      BY <1>a, <3>4 DEF FinalizeInsert, FinalizeError, At
    <3> QED
      BY <1>7, <3>2, <3>3, <3>4
  <2> QED
    BY <1>c, <2>1, <2>2, <2>3, <2>4 DEF Publishing
<1>8. ASSUME NEW r \in Requests, FinalizeCommit(r) \/ MarkFailed(r)
      PROVE  Ownership'
  <2>1. Publishing(r)
    BY <1>8 DEF FinalizeCommit, MarkFailed, Publishing, PublishPC
  <2>2. ~ Publishing(r)' /\ \A s \in Requests \ {r} : req'[s] = req[s]
    BY <1>8, <1>a DEF FinalizeCommit, MarkFailed, Publishing, PublishPC, IdleRequest
  <2>3. \A s \in Requests \ {r} : Publishing(s) => req[s].prop # req[r].prop
    BY <2>1 DEF Ownership, OnePublisherPerVersion
  <2>4. \A p \in Proposals \ {req[r].prop} : vStatus'[p] = vStatus[p]
    BY <1>8, <1>a DEF FinalizeCommit, MarkFailed
  <2> QED
    BY <1>b, <2>1, <2>2, <2>3, <2>4 DEF Ownership, OnePublisherPerVersion, Publishing
<1>9. ASSUME NEW c \in CatalogRoles, NEW status \in {"candidate", "active"},
             ImportRole(c, status)
      PROVE  Ownership'
  BY <1>9, <1>c DEF ImportRole, Publishing
<1>10. CASE UNCHANGED vars
  BY <1>10, <1>c DEF vars, Publishing
<1> QED
  BY <1>1, <1>2, <1>3, <1>4, <1>5, <1>6, <1>7, <1>8, <1>9, <1>10
     DEF Next, RequestStep

-----------------------------------------------------------------------------
(* What a request carries to its commit                                    *)

\* A request that is further in a publication after a step than "project"
\* either did not move or took one of the four steps that get it there.
LEMMA Progress ==
    ASSUME TypeOK, [Next]_vars, NEW s \in Requests
    PROVE  \/ req'[s] = req[s]
           \/ req'[s].pc \in {"idle", "decide", "create", "project", "fail"}
           \/ ProjectToNeo4j(s) \/ FinalizeInsert(s)
           \/ FinalizeSwitch(s) \/ FinalizeResume(s)
<1>a. req \in [Requests -> {IdleRequest} \cup DecideRequest
                           \cup CreateRequest \cup PublishRequest]
  BY DEF TypeOK
<1>1. ASSUME NEW p \in Proposals,
             CreateReviewProposal(p) \/ ImportAlgorithmProposal(p)
      PROVE  req' = req
  BY <1>1 DEF CreateReviewProposal, ImportAlgorithmProposal
<1>2. ASSUME NEW r \in Requests, NEW p \in Proposals,
             \/ \E verdict \in Verdict, after \in Payloads :
                   DecideRead(r, p, verdict, after)
             \/ \E no \in VersionNos : CreateRead(r, p, no)
             \/ PublishBegin(r, p)
      PROVE  req'[s] = req[s] \/ req'[s].pc \in {"decide", "create", "project"}
  BY <1>2, <1>a DEF DecideRead, CreateRead, PublishBegin, At, FirstStep
<1>3. ASSUME NEW r \in Requests,
             DecideCommit(r) \/ CreateCommit(r) \/ FinalizeCommit(r)
                \/ MarkFailed(r) \/ Crash(r)
      PROVE  req'[s] = req[s] \/ req'[s].pc = "idle"
  BY <1>3, <1>a DEF DecideCommit, CreateCommit, FinalizeCommit, MarkFailed,
                    Crash, IdleRequest
<1>4. ASSUME NEW r \in Requests, FinalizeError(r) \/ ProjectionFails(r)
      PROVE  req'[s] = req[s] \/ req'[s].pc = "fail"
  <2>1. req[r] \in PublishRequest
    BY <1>4, RequestShape DEF FinalizeError, ProjectionFails, InTransaction,
                              Publishing, PublishPC
  <2> QED
    BY <1>4, <1>a, <2>1 DEF FinalizeError, ProjectionFails, At, PublishRequest
<1>5. ASSUME NEW r \in Requests,
             ProjectToNeo4j(r) \/ FinalizeInsert(r) \/ FinalizeSwitch(r)
                \/ FinalizeResume(r)
      PROVE  r = s \/ req'[s] = req[s]
  BY <1>5, <1>a DEF ProjectToNeo4j, FinalizeInsert, FinalizeSwitch, FinalizeResume
<1>6. ASSUME NEW c \in CatalogRoles, NEW status \in {"candidate", "active"},
             ImportRole(c, status)
      PROVE  req' = req
  BY <1>6 DEF ImportRole
<1>7. CASE UNCHANGED vars
  BY <1>7 DEF vars
<1> QED
  BY <1>1, <1>2, <1>3, <1>4, <1>5, <1>6, <1>7 DEF Next, RequestStep

\* What the four steps leave in the request that takes them.
LEMMA StepResult ==
    ASSUME TypeOK, NEW s \in Requests
    PROVE  /\ ProjectToNeo4j(s) =>
                 /\ req'[s].pc = "finalize" /\ req'[s].prop = req[s].prop
                 /\ req[s].prop \in neo'
           /\ FinalizeInsert(s) =>
                 \/ req'[s].pc = "fail"
                 \/ /\ req'[s].pc = "switch" /\ req'[s].prop = req[s].prop
                    /\ req'[s].roles = ActiveRoles \cup {req[s].prop}
                    /\ vStatus[req[s].prop] = "publishing"
                    /\ \A x \in JobRoles \ {req[s].prop} : ~ SameName(req[s].prop, x)
           /\ FinalizeSwitch(s) =>
                 /\ req'[s].pc = IF SwitchHeld THEN "wait" ELSE "commit"
                 /\ req'[s].prop = req[s].prop /\ req'[s].roles = req[s].roles
                 /\ req'[s].demoted = catalogCurrent
           /\ FinalizeResume(s) =>
                 /\ req'[s].pc = IF SecondCurrent(s) THEN "fail" ELSE "commit"
                 /\ req'[s].prop = req[s].prop /\ req'[s].roles = req[s].roles
                 /\ req'[s].demoted = req[s].demoted
<1>a. req \in [Requests -> {IdleRequest} \cup DecideRequest
                           \cup CreateRequest \cup PublishRequest]
  BY DEF TypeOK
<1>b. Publishing(s) => req[s] \in PublishRequest
  BY RequestShape
<1>1. ASSUME ProjectToNeo4j(s)
      PROVE  /\ req'[s].pc = "finalize" /\ req'[s].prop = req[s].prop
             /\ req[s].prop \in neo'
  BY <1>1, <1>a, <1>b DEF ProjectToNeo4j, PublishRequest, PublishPC, Publishing
<1>2. ASSUME FinalizeInsert(s)
      PROVE  \/ req'[s].pc = "fail"
             \/ /\ req'[s].pc = "switch" /\ req'[s].prop = req[s].prop
                /\ req'[s].roles = ActiveRoles \cup {req[s].prop}
                /\ vStatus[req[s].prop] = "publishing"
                /\ \A x \in JobRoles \ {req[s].prop} : ~ SameName(req[s].prop, x)
  BY <1>2, <1>a DEF FinalizeInsert, At
<1>3. ASSUME FinalizeSwitch(s)
      PROVE  /\ req'[s].pc = IF SwitchHeld THEN "wait" ELSE "commit"
             /\ req'[s].prop = req[s].prop /\ req'[s].roles = req[s].roles
             /\ req'[s].demoted = catalogCurrent
  <2>1. req[s] \in PublishRequest
    BY <1>3, <1>b DEF FinalizeSwitch, Publishing, PublishPC
  <2>2. req'[s] = [req[s] EXCEPT !.pc = IF SwitchHeld THEN "wait" ELSE "commit",
                                 !.demoted = catalogCurrent]
    BY <1>3, <1>a DEF FinalizeSwitch
  <2> QED
    BY <2>1, <2>2 DEF PublishRequest
<1>4. ASSUME FinalizeResume(s)
      PROVE  /\ req'[s].pc = IF SecondCurrent(s) THEN "fail" ELSE "commit"
             /\ req'[s].prop = req[s].prop /\ req'[s].roles = req[s].roles
             /\ req'[s].demoted = req[s].demoted
  <2>1. req[s] \in PublishRequest
    BY <1>4, <1>b DEF FinalizeResume, Publishing, PublishPC
  <2>2. req'[s] = [req[s] EXCEPT !.pc = IF SecondCurrent(s) THEN "fail" ELSE "commit"]
    BY <1>4, <1>a DEF FinalizeResume
  <2> QED
    BY <2>1, <2>2 DEF PublishRequest
<1> QED
  BY <1>1, <1>2, <1>3, <1>4

\* The job roles change in two actions.
LEMMA RolesStep ==
    [Next]_vars => \/ UNCHANGED <<roles, imported>>
                   \/ \E r \in Requests : FinalizeCommit(r)
                   \/ \E c \in CatalogRoles, status \in {"candidate", "active"} :
                         ImportRole(c, status)
BY DEF Next, RequestStep, vars, versionVars, proposalVars, officialVars,
       CreateReviewProposal, ImportAlgorithmProposal, DecideRead, CreateRead,
       PublishBegin, DecideCommit, CreateCommit, ProjectToNeo4j,
       ProjectionFails, FinalizeInsert, FinalizeSwitch, FinalizeResume,
       FinalizeError, MarkFailed, Crash

\* Active roles and nodes are only ever added.
LEMMA OnlyAdded ==
    TypeOK /\ [Next]_vars => ActiveRoles \subseteq ActiveRoles' /\ neo \subseteq neo'
<1> SUFFICES ASSUME TypeOK, [Next]_vars
             PROVE  ActiveRoles \subseteq ActiveRoles' /\ neo \subseteq neo'
  OBVIOUS
<1>1. neo \subseteq neo'
  BY DEF Next, RequestStep, vars, versionVars, proposalVars, officialVars,
         CreateReviewProposal, ImportAlgorithmProposal, ImportRole, DecideRead,
         CreateRead, PublishBegin, DecideCommit, CreateCommit, ProjectToNeo4j,
         ProjectionFails, FinalizeInsert, FinalizeSwitch, FinalizeResume,
         FinalizeCommit, FinalizeError, MarkFailed, Crash
<1>2. roles \subseteq roles' /\ \A c \in CatalogRoles :
         imported[c] = "active" => imported'[c] = "active"
  BY RolesStep DEF FinalizeCommit, ImportRole, TypeOK
<1> QED
  BY <1>1, <1>2 DEF ActiveRoles

LEMMA CarriedStep == TypeOK /\ Carried /\ [Next]_vars => Carried'
<1> SUFFICES ASSUME TypeOK, Carried, [Next]_vars, NEW s \in Requests
             PROVE  /\ req'[s].pc \in {"finalize", "switch", "wait", "commit"}
                          => req'[s].prop \in neo'
                    /\ InTransaction(s)' =>
                          /\ req'[s].prop \in req'[s].roles
                          /\ req'[s].roles \subseteq ActiveRoles' \cup {req'[s].prop}
  BY DEF Carried
<1>1. ActiveRoles \subseteq ActiveRoles' /\ neo \subseteq neo'
  BY OnlyAdded
<1>2. CASE req'[s] = req[s]
  BY <1>1, <1>2 DEF Carried, InTransaction
<1>3. CASE req'[s].pc \in {"idle", "decide", "create", "project", "fail"}
  BY <1>3 DEF InTransaction
<1>4. CASE ProjectToNeo4j(s)
  BY <1>4, StepResult DEF InTransaction
<1>5. CASE FinalizeInsert(s)
  BY <1>1, <1>5, StepResult DEF Carried, InTransaction, FinalizeInsert
<1>6. CASE FinalizeSwitch(s)
  BY <1>1, <1>6, StepResult DEF Carried, InTransaction, FinalizeSwitch
<1>7. CASE FinalizeResume(s)
  BY <1>1, <1>7, StepResult DEF Carried, InTransaction, FinalizeResume
<1> QED
  BY <1>2, <1>3, <1>4, <1>5, <1>6, <1>7, Progress

-----------------------------------------------------------------------------
(* The switch of current versions                                          *)

\* The current rows change in one action.
LEMMA OnlyCommitSwitches ==
    [Next]_vars => \/ UNCHANGED <<graphCurrent, catalogCurrent, catalogItems, roles>>
                   \/ \E r \in Requests : FinalizeCommit(r)
BY DEF Next, RequestStep, vars, versionVars, proposalVars, officialVars,
       CreateReviewProposal, ImportAlgorithmProposal, ImportRole, DecideRead,
       CreateRead, PublishBegin, DecideCommit, CreateCommit, ProjectToNeo4j,
       ProjectionFails, FinalizeInsert, FinalizeSwitch, FinalizeResume,
       FinalizeError, MarkFailed, Crash

\* A commit makes its own request idle and moves nobody else.
LEMMA CommitMoves ==
    ASSUME TypeOK, NEW r \in Requests, FinalizeCommit(r)
    PROVE  /\ req'[r].pc = "idle"
           /\ \A s \in Requests \ {r} : req'[s] = req[s]
BY DEF TypeOK, FinalizeCommit, IdleRequest

\* A request that comes to "commit" was not there before and is alone there.
LEMMA EnterCommit ==
    ASSUME TypeOK, [Next]_vars, NEW s \in Requests,
           req'[s].pc = "commit", req[s].pc # "commit"
    PROVE  /\ ~ SwitchHeld
           /\ catalogCurrent \subseteq req'[s].demoted
           /\ UNCHANGED catalogCurrent
           /\ \A r \in Requests \ {s} : req'[r] = req[r]
<1>1. FinalizeSwitch(s) \/ FinalizeResume(s)
  BY Progress, StepResult
<1>2. ~ SwitchHeld /\ catalogCurrent \subseteq req'[s].demoted
  BY <1>1, StepResult DEF FinalizeResume, SecondCurrent
<1>3. UNCHANGED catalogCurrent
  BY <1>1 DEF FinalizeSwitch, FinalizeResume, officialVars
<1>4. \A r \in Requests \ {s} : req'[r] = req[r]
  BY <1>1 DEF TypeOK, FinalizeSwitch, FinalizeResume
<1> QED
  BY <1>2, <1>3, <1>4

\* A request that stays at "commit" did not move.
LEMMA StayAtCommit ==
    ASSUME TypeOK, [Next]_vars, NEW s \in Requests,
           req'[s].pc = "commit", req[s].pc = "commit"
    PROVE  req'[s] = req[s]
BY Progress DEF ProjectToNeo4j, FinalizeInsert, FinalizeSwitch, FinalizeResume

LEMMA SwitchingStep == TypeOK /\ Switching /\ [Next]_vars => Switching'
<1> SUFFICES ASSUME TypeOK, Switching, [Next]_vars PROVE Switching'
  OBVIOUS
<1>1. ASSUME NEW r \in Requests, NEW s \in Requests,
             req'[r].pc = "commit", req'[s].pc = "commit"
      PROVE  r = s
  <2>1. CASE req[r].pc = "commit" /\ req[s].pc = "commit"
    BY <2>1 DEF Switching
  <2>2. CASE req[r].pc # "commit"
    BY <1>1, <2>2, EnterCommit DEF SwitchHeld
  <2>3. CASE req[s].pc # "commit"
    BY <1>1, <2>3, EnterCommit DEF SwitchHeld
  <2> QED
    BY <2>1, <2>2, <2>3
<1>2. ASSUME NEW s \in Requests, req'[s].pc = "commit"
      PROVE  catalogCurrent' \subseteq req'[s].demoted
  <2>1. CASE req[s].pc # "commit"
    BY <1>2, <2>1, EnterCommit
  <2>2. CASE req[s].pc = "commit"
    <3>1. req'[s] = req[s]
      BY <1>2, <2>2, StayAtCommit
    <3>2. ASSUME NEW r \in Requests, FinalizeCommit(r) PROVE FALSE
      <4>1. r = s
        BY <2>2, <3>2 DEF Switching, FinalizeCommit
      <4> QED
        BY <1>2, <3>2, <4>1, CommitMoves
    <3> QED
      BY <2>2, <3>1, <3>2, OnlyCommitSwitches DEF Switching
  <2> QED
    BY <2>1, <2>2
<1> QED
  BY <1>1, <1>2 DEF Switching

LEMMA CurrentStep ==
    TypeOK /\ Switching /\ CurrentVersionsAgree /\ [Next]_vars
        => CurrentVersionsAgree'
<1> SUFFICES ASSUME TypeOK, Switching, CurrentVersionsAgree, [Next]_vars
             PROVE  CurrentVersionsAgree'
  OBVIOUS
<1>1. ASSUME NEW r \in Requests, FinalizeCommit(r) PROVE CurrentVersionsAgree'
  <2>1. catalogCurrent \subseteq req[r].demoted
    BY <1>1 DEF Switching, FinalizeCommit
  <2>2. catalogCurrent' = {req[r].prop} /\ graphCurrent' = {req[r].prop}
    BY <1>1, <2>1 DEF FinalizeCommit
  <2> QED
    BY <2>2 DEF CurrentVersionsAgree
<1> QED
  BY <1>1, OnlyCommitSwitches DEF CurrentVersionsAgree

-----------------------------------------------------------------------------
(* The official record                                                     *)

\* A version's status: only MarkFailed, PublishBegin, CreateCommit and
\* FinalizeCommit change it, the last one only to "published", and none
\* of them touches a version that is published.
LEMMA PublishedChanges ==
    ASSUME TypeOK, Ownership, [Next]_vars
    PROVE  \/ Published' = Published
           \/ \E r \in Requests : FinalizeCommit(r) /\ Published' = Published \cup {req[r].prop}
<1>a. /\ vStatus \in [Proposals -> VersionStatus]
      /\ \A r \in Requests : Publishing(r) => req[r].prop \in Proposals
  BY RequestShape DEF TypeOK, PublishRequest
<1>1. ASSUME vStatus' = vStatus PROVE Published' = Published
  BY <1>1 DEF Published
<1>2. ASSUME NEW r \in Requests, NEW p \in Proposals, PublishBegin(r, p)
      PROVE  Published' = Published
  BY <1>a, <1>2 DEF PublishBegin, Publishable, Published
<1>3. ASSUME NEW r \in Requests, CreateCommit(r) PROVE Published' = Published
  <2>1. req[r].prop \in Proposals
    BY <1>3, RequestShape DEF CreateCommit, CreateRequest
  <2> QED
    BY <1>a, <1>3, <2>1
       DEF CreateCommit, Taken, HasVersion, Published, versionVars
<1>4. ASSUME NEW r \in Requests, MarkFailed(r) PROVE Published' = Published
  <2>1. vStatus[req[r].prop] = "publishing" /\ req[r].prop \in Proposals
    BY <1>a, <1>4 DEF Ownership, MarkFailed, Publishing, PublishPC
  <2> QED
    BY <1>a, <1>4, <2>1 DEF MarkFailed, FailureStatus, Published
<1>5. ASSUME NEW r \in Requests, FinalizeCommit(r)
      PROVE  Published' = Published \cup {req[r].prop}
  <2>1. req[r].prop \in Proposals
    BY <1>a, <1>5 DEF FinalizeCommit, Publishing, PublishPC
  <2> QED
    BY <1>a, <1>5, <2>1 DEF FinalizeCommit, Published
<1> QED
  BY <1>1, <1>2, <1>3, <1>4, <1>5
     DEF Next, RequestStep, vars, versionVars, CreateReviewProposal,
         ImportAlgorithmProposal, ImportRole, DecideRead, CreateRead,
         DecideCommit, ProjectToNeo4j, ProjectionFails, FinalizeInsert,
         FinalizeSwitch, FinalizeResume, FinalizeError, Crash

LEMMA OfficialStep ==
    TypeOK /\ Ownership /\ Carried /\ Official /\ [Next]_vars => Official'
<1> SUFFICES ASSUME TypeOK, Ownership, Carried, Official, [Next]_vars
             PROVE  Official'
  OBVIOUS
<1>1. ActiveRoles \subseteq ActiveRoles' /\ neo \subseteq neo'
  BY OnlyAdded
<1>2. ASSUME NEW r \in Requests, FinalizeCommit(r) PROVE Official'
  <2> DEFINE p == req[r].prop
  <2>1. /\ Publishing(r) /\ p \in Proposals
    BY <1>2, RequestShape DEF FinalizeCommit, Publishing, PublishPC, PublishRequest
  <2>2. p \notin Published /\ catalogItems[p] = {}
    BY <2>1 DEF Ownership, Published, Official
  <2>3. p \in neo /\ p \in req[r].roles /\ req[r].roles \subseteq ActiveRoles \cup {p}
    BY <1>2 DEF Carried, FinalizeCommit, InTransaction
  <2>4. Published' = Published \cup {p}
    BY <1>2, <2>1 DEF FinalizeCommit, Published, TypeOK
  <2>5. /\ roles' = roles \cup {p} /\ graphCurrent' = {p}
        /\ catalogItems'[p] = req[r].roles
        /\ \A q \in Proposals \ {p} : catalogItems'[q] = catalogItems[q]
    BY <1>2, <2>1, <2>2 DEF FinalizeCommit, TypeOK
  <2>6. roles = Published /\ Published \subseteq neo
    BY DEF Official, PublishedIsBacked
  <2>7. \A q \in Published' :
           q \in catalogItems'[q] /\ catalogItems'[q] \subseteq ActiveRoles'
    <3>1. p \in ActiveRoles'
      BY <2>5 DEF ActiveRoles
    <3> QED
      BY <1>1, <2>2, <2>3, <2>4, <2>5, <3>1 DEF Official, PublishedIsBacked, Published
  <2>8. \A q \in Proposals \ Published' : catalogItems'[q] = {}
    BY <2>4, <2>5 DEF Official
  <2> QED
    BY <1>1, <2>3, <2>4, <2>5, <2>6, <2>7, <2>8 DEF Official, PublishedIsBacked
<1>3. CASE /\ Published' = Published
           /\ UNCHANGED <<graphCurrent, catalogCurrent, catalogItems, roles>>
  BY <1>1, <1>3 DEF Official, PublishedIsBacked
<1> QED
  BY <1>2, <1>3, OnlyCommitSwitches, PublishedChanges

-----------------------------------------------------------------------------
(* Versions and their numbers                                              *)

\* A version that exists keeps its number and its snapshot.
LEMMA VersionStable ==
    ASSUME TypeOK, [Next]_vars, NEW p \in Proposals, HasVersion(p)
    PROVE  HasVersion(p)' /\ vNo'[p] = vNo[p] /\ vSnapshot'[p] = vSnapshot[p]
<1>1. CASE UNCHANGED versionVars
  BY <1>1 DEF versionVars, HasVersion
<1>2. ASSUME NEW r \in Requests, NEW q \in Proposals, PublishBegin(r, q)
      PROVE  HasVersion(p)' /\ vNo'[p] = vNo[p] /\ vSnapshot'[p] = vSnapshot[p]
  BY <1>2 DEF TypeOK, PublishBegin, HasVersion
<1>3. ASSUME NEW r \in Requests, CreateCommit(r)
      PROVE  HasVersion(p)' /\ vNo'[p] = vNo[p] /\ vSnapshot'[p] = vSnapshot[p]
  BY <1>3 DEF TypeOK, CreateCommit, Taken, HasVersion, versionVars
<1>4. ASSUME NEW r \in Requests, MarkFailed(r) \/ FinalizeCommit(r)
      PROVE  HasVersion(p)' /\ vNo'[p] = vNo[p] /\ vSnapshot'[p] = vSnapshot[p]
  BY <1>4 DEF TypeOK, MarkFailed, FinalizeCommit, FailureStatus, HasVersion
<1> QED
  BY <1>1, <1>2, <1>3, <1>4
     DEF Next, RequestStep, vars, CreateReviewProposal, ImportAlgorithmProposal,
         ImportRole, DecideRead, CreateRead, DecideCommit, ProjectToNeo4j,
         ProjectionFails, FinalizeInsert, FinalizeSwitch, FinalizeResume,
         FinalizeError, Crash

\* A version appears when its creation commits, under the number it read.
LEMMA VersionCreated ==
    ASSUME TypeOK, Ownership, [Next]_vars, NEW p \in Proposals,
           HasVersion(p)', ~ HasVersion(p)
    PROVE  \E r \in Requests :
              /\ CreateCommit(r) /\ req[r].prop = p /\ ~ Taken(p, req[r].no)
              /\ vNo' = [vNo EXCEPT ![p] = req[r].no]
              /\ vSnapshot'[p] = req[r].definition
<1>1. ASSUME NEW r \in Requests, NEW q \in Proposals, PublishBegin(r, q)
      PROVE  FALSE
  BY <1>1 DEF PublishBegin, Publishable, HasVersion, TypeOK
<1>2. ASSUME NEW r \in Requests, CreateCommit(r)
      PROVE  /\ req[r].prop = p /\ ~ Taken(p, req[r].no)
             /\ vNo' = [vNo EXCEPT ![p] = req[r].no]
             /\ vSnapshot'[p] = req[r].definition
  BY <1>2 DEF CreateCommit, versionVars, HasVersion, TypeOK
<1>3. ASSUME NEW r \in Requests, MarkFailed(r) \/ FinalizeCommit(r) PROVE FALSE
  <2>1. Publishing(r)
    BY <1>3 DEF MarkFailed, FinalizeCommit, Publishing, PublishPC
  <2>2. req[r].prop # p
    BY <2>1 DEF Ownership, HasVersion
  <2> QED
    BY <1>3, <2>2 DEF MarkFailed, FinalizeCommit, HasVersion, TypeOK
<1>4. ASSUME NEW r \in Requests, RequestStep(r)
      PROVE  \/ CreateCommit(r) \/ MarkFailed(r) \/ FinalizeCommit(r)
             \/ UNCHANGED versionVars
  BY <1>4 DEF RequestStep, DecideCommit, ProjectToNeo4j, ProjectionFails,
              FinalizeInsert, FinalizeSwitch, FinalizeResume, FinalizeError
<1>5. \/ UNCHANGED versionVars
      \/ \E r \in Requests, q \in Proposals : PublishBegin(r, q)
      \/ \E r \in Requests : CreateCommit(r) \/ MarkFailed(r) \/ FinalizeCommit(r)
  BY <1>4 DEF Next, vars, CreateReviewProposal, ImportAlgorithmProposal,
              ImportRole, DecideRead, CreateRead, Crash
<1> QED
  BY <1>1, <1>2, <1>3, <1>5 DEF versionVars, HasVersion

\* A request that is deciding, or creating a version, after a step was there
\* before, or has just read its proposal in a state that allows it.
LEMMA ReviewEntered ==
    ASSUME TypeOK, [Next]_vars, NEW s \in Requests
    PROVE  /\ req'[s].pc = "decide" =>
                 \/ req'[s] = req[s]
                 \/ /\ UNCHANGED proposalVars
                    /\ req'[s].prop \in Proposals
                    /\ req'[s].status = reviewStatus[req'[s].prop]
                    /\ reviewStatus[req'[s].prop] \in {"pending", "needs_revision"}
                    /\ req'[s].before = payload[req'[s].prop]
                    /\ s \in Reviewers
           /\ req'[s].pc = "create" =>
                 \/ req'[s] = req[s]
                 \/ /\ UNCHANGED <<proposalVars, versionVars>>
                    /\ req'[s].prop \in Proposals
                    /\ reviewStatus[req'[s].prop] = "approved"
                    /\ req'[s].definition = payload[req'[s].prop]
                    /\ req'[s].no \in VersionNos /\ IsNextNo(req'[s].no)
<1>1. ASSUME NEW p \in Proposals, NEW verdict \in Verdict, NEW after \in Payloads,
             DecideRead(s, p, verdict, after)
      PROVE  /\ req'[s].pc = "decide" /\ UNCHANGED proposalVars
             /\ req'[s].prop = p /\ req'[s].status = reviewStatus[p]
             /\ reviewStatus[p] \in {"pending", "needs_revision"}
             /\ req'[s].before = payload[p] /\ s \in Reviewers
  BY <1>1 DEF DecideRead, TypeOK, ReviewStatus, FINAL_STATUSES
<1>2. ASSUME NEW p \in Proposals, NEW no \in VersionNos, CreateRead(s, p, no)
      PROVE  /\ req'[s].pc = "create" /\ UNCHANGED <<proposalVars, versionVars>>
             /\ req'[s].prop = p /\ reviewStatus[p] = "approved"
             /\ req'[s].definition = payload[p]
             /\ req'[s].no = no /\ IsNextNo(no)
  BY <1>2 DEF CreateRead, Approved, TypeOK
<1>3. \/ req'[s] = req[s]
      \/ req'[s].pc \notin {"decide", "create"}
      \/ \E p \in Proposals, verdict \in Verdict, after \in Payloads :
            DecideRead(s, p, verdict, after)
      \/ \E p \in Proposals, no \in VersionNos : CreateRead(s, p, no)
  <2>1. ASSUME NEW r \in Requests, RequestStep(r) \/ Crash(r)
        PROVE  req'[s] = req[s] \/ req'[s].pc \notin {"decide", "create"}
    <3>a. req \in [Requests -> {IdleRequest} \cup DecideRequest
                               \cup CreateRequest \cup PublishRequest]
      BY DEF TypeOK
    <3>1. CASE \/ DecideCommit(r) \/ CreateCommit(r) \/ FinalizeCommit(r)
               \/ MarkFailed(r) \/ Crash(r)
      BY <3>a, <3>1 DEF DecideCommit, CreateCommit, FinalizeCommit, MarkFailed,
                        Crash, IdleRequest
    <3>2. CASE FinalizeInsert(r) \/ FinalizeError(r)
      BY <3>a, <3>2 DEF FinalizeInsert, FinalizeError, At
    <3>3. CASE ProjectToNeo4j(r) \/ ProjectionFails(r) \/ FinalizeResume(r)
      <4>1. req[r] \in PublishRequest
        BY <3>3, RequestShape DEF ProjectToNeo4j, ProjectionFails,
                                  FinalizeResume, Publishing, PublishPC
      <4> QED
        BY <3>a, <3>3, <4>1 DEF ProjectToNeo4j, ProjectionFails, FinalizeResume,
                                PublishRequest
    <3>4. CASE FinalizeSwitch(r)
      <4>1. req'[r].pc \in {"wait", "commit"}
        BY <3>4, StepResult
      <4>2. r # s => req'[s] = req[s]
        BY <3>a, <3>4 DEF FinalizeSwitch
      <4> QED
        BY <4>1, <4>2
    <3> QED
      BY <2>1, <3>1, <3>2, <3>3, <3>4 DEF RequestStep
  <2>2. ASSUME NEW r \in Requests, NEW p \in Proposals, PublishBegin(r, p)
        PROVE  req'[s] = req[s] \/ req'[s].pc \notin {"decide", "create"}
    BY <2>2 DEF PublishBegin, At, FirstStep, TypeOK
  <2>3. ASSUME NEW r \in Requests, NEW p \in Proposals, NEW verdict \in Verdict,
               NEW after \in Payloads, DecideRead(r, p, verdict, after), r # s
        PROVE  req'[s] = req[s]
    BY <2>3 DEF DecideRead, TypeOK
  <2>4. ASSUME NEW r \in Requests, NEW p \in Proposals, NEW no \in VersionNos,
               CreateRead(r, p, no), r # s
        PROVE  req'[s] = req[s]
    BY <2>4 DEF CreateRead, TypeOK
  <2>5. ASSUME NEW p \in Proposals,
               CreateReviewProposal(p) \/ ImportAlgorithmProposal(p)
        PROVE  req'[s] = req[s]
    BY <2>5 DEF CreateReviewProposal, ImportAlgorithmProposal
  <2>6. ASSUME NEW c \in CatalogRoles, NEW status \in {"candidate", "active"},
               ImportRole(c, status)
        PROVE  req'[s] = req[s]
    BY <2>6 DEF ImportRole
  <2>7. CASE UNCHANGED vars
    BY <2>7 DEF vars
  <2> QED
    BY <2>1, <2>2, <2>3, <2>4, <2>5, <2>6, <2>7 DEF Next
<1> QED
  BY <1>1, <1>2, <1>3

\* The argument why numbers grow: a creation whose number is free when it
\* commits holds the largest one, as there are no gaps below a version's.
LEMMA FreeIsLargest ==
    ASSUME TypeOK, Numbers, NEW r \in Requests, req[r].pc = "create",
           NEW q \in Proposals, ~ Taken(q, req[r].no), NEW p \in Proposals
    PROVE  vNo[p] < req[r].no
<1>1. /\ req[r].no \in Nat /\ req[r].no >= 1 /\ vNo[p] \in Nat
      /\ \A x \in Proposals : vNo[x] # req[r].no
  BY RequestShape DEF TypeOK, CreateRequest, Numbers, Taken
<1>2. vNo[p] >= req[r].no => \E x \in Proposals : vNo[x] = req[r].no
  BY <1>1 DEF Numbers
<1> QED
  BY <1>1, <1>2

\* A step leaves the numbers alone, or is the creation of one version.
LEMMA NumberGiven ==
    ASSUME TypeOK, [Next]_vars
    PROVE  \/ vNo' = vNo
           \/ \E r \in Requests, p \in Proposals, no \in Nat :
                 /\ CreateCommit(r) /\ req[r].prop = p /\ req[r].no = no
                 /\ ~ Taken(p, no) /\ HasVersion(p)'
                 /\ vNo' = [vNo EXCEPT ![p] = no]
<1>1. ASSUME NEW r \in Requests, CreateCommit(r)
      PROVE  \/ vNo' = vNo
             \/ \E p \in Proposals, no \in Nat :
                   /\ req[r].prop = p /\ req[r].no = no
                   /\ ~ Taken(p, no) /\ HasVersion(p)'
                   /\ vNo' = [vNo EXCEPT ![p] = no]
  <2>1. PICK p \in Proposals, no \in Nat : req[r].prop = p /\ req[r].no = no
    BY <1>1, RequestShape DEF CreateCommit, CreateRequest
  <2>2. CASE Taken(p, no) \/ Imported # req[r].imports
    BY <1>1, <2>1, <2>2 DEF CreateCommit, versionVars
  <2>3. CASE ~ (Taken(p, no) \/ Imported # req[r].imports)
    <3>1. /\ vStatus' = [vStatus EXCEPT ![p] = "draft"]
          /\ vNo' = [vNo EXCEPT ![p] = no]
      BY <1>1, <2>1, <2>3 DEF CreateCommit
    <3>2. HasVersion(p)'
      BY <3>1 DEF HasVersion, TypeOK
    <3> QED
      BY <2>1, <2>3, <3>1, <3>2
  <2> QED
    BY <2>2, <2>3
<1>2. vNo' = vNo \/ \E r \in Requests : CreateCommit(r)
  BY DEF Next, RequestStep, vars, versionVars, CreateReviewProposal,
         ImportAlgorithmProposal, ImportRole, DecideRead, CreateRead,
         PublishBegin, DecideCommit, ProjectToNeo4j, ProjectionFails,
         FinalizeInsert, FinalizeSwitch, FinalizeResume, FinalizeCommit,
         FinalizeError, MarkFailed, Crash
<1> QED
  BY <1>1, <1>2

LEMMA NumbersStep == TypeOK /\ Numbers /\ [Next]_vars => Numbers'
<1> SUFFICES ASSUME TypeOK, Numbers, [Next]_vars PROVE Numbers'
  OBVIOUS
<1>a. /\ vNo \in [Proposals -> Nat]
      /\ \A p \in Proposals : HasVersion(p) \/ vNo[p] = 0
      /\ \A p \in Proposals : \A n \in 1 .. vNo[p] : \E q \in Proposals : vNo[q] = n
      /\ \A r \in Requests : req[r].pc = "create" =>
            /\ req[r].no \in Nat /\ req[r].no >= 1
            /\ req[r].no = 1 \/ \E q \in Proposals : vNo[q] = req[r].no - 1
  BY RequestShape DEF Numbers, TypeOK, CreateRequest
<1>1. CASE vNo' = vNo
  <2>1. \A p \in Proposals : HasVersion(p)' \/ vNo'[p] = 0
    BY <1>a, <1>1, VersionStable
  <2>2. ASSUME NEW r \in Requests, req'[r].pc = "create"
        PROVE  /\ req'[r].no >= 1
               /\ req'[r].no = 1 \/ \E q \in Proposals : vNo'[q] = req'[r].no - 1
    <3>1. CASE req'[r] = req[r]
      BY <1>a, <1>1, <2>2, <3>1
    <3>2. CASE req'[r] # req[r]
      <4>1. req'[r].no \in VersionNos /\ IsNextNo(req'[r].no)
        BY <2>2, <3>2, ReviewEntered
      <4> QED
        BY <1>1, <4>1 DEF VersionNos, IsNextNo
    <3> QED
      BY <3>1, <3>2
  <2> QED
    BY <1>a, <1>1, <2>1, <2>2 DEF Numbers
<1>2. ASSUME NEW r \in Requests, NEW p \in Proposals, NEW no \in Nat,
             CreateCommit(r), req[r].prop = p, req[r].no = no, ~ Taken(p, no),
             vNo' = [vNo EXCEPT ![p] = no], HasVersion(p)'
      PROVE  Numbers'
  <2>1. /\ vNo[p] = 0 /\ vNo'[p] = no /\ no >= 1
        /\ no = 1 \/ \E q \in Proposals : vNo[q] = no - 1
        /\ \A q \in Proposals \ {p} : vNo'[q] = vNo[q]
    BY <1>a, <1>2 DEF Taken, CreateCommit
  \* Numbers in use stay in use.
  <2>2. ASSUME NEW n \in Nat, n >= 1, \E q \in Proposals : vNo[q] = n
        PROVE  \E q \in Proposals : vNo'[q] = n
    BY <2>1, <2>2
  <2>3. \A q \in Proposals : HasVersion(q)' \/ vNo'[q] = 0
    BY <1>a, <1>2, <2>1, VersionStable
  <2>4. ASSUME NEW n \in 1 .. no PROVE \E q \in Proposals : vNo'[q] = n
    <3>1. CASE n = no
      BY <2>1, <3>1
    <3>2. CASE n < no
      <4>1. PICK q \in Proposals : vNo[q] = no - 1
        BY <2>1, <2>4, <3>2
      <4>2. n \in 1 .. vNo[q] /\ n \in Nat /\ n >= 1
        BY <2>4, <3>2, <4>1
      <4>3. \E x \in Proposals : vNo[x] = n
        BY <1>a, <4>2
      <4> QED
        BY <2>2, <4>2, <4>3
    <3> QED
      BY <2>4, <3>1, <3>2
  <2>5. ASSUME NEW q \in Proposals, NEW n \in 1 .. vNo'[q]
        PROVE  \E x \in Proposals : vNo'[x] = n
    <3>1. CASE q = p
      BY <2>1, <2>4, <2>5, <3>1
    <3>2. CASE q # p
      <4>1. n \in 1 .. vNo[q] /\ n \in Nat /\ n >= 1
        BY <1>a, <2>1, <2>5, <3>2
      <4>2. \E x \in Proposals : vNo[x] = n
        BY <1>a, <4>1
      <4> QED
        BY <2>2, <4>1, <4>2
    <3> QED
      BY <3>1, <3>2
  <2>6. ASSUME NEW s \in Requests, req'[s].pc = "create"
        PROVE  /\ req'[s].no >= 1
               /\ req'[s].no = 1 \/ \E q \in Proposals : vNo'[q] = req'[s].no - 1
    <3>1. req'[s] = req[s]
      BY <1>2, <2>6 DEF CreateCommit, IdleRequest, TypeOK
    <3>2. /\ req[s].no \in Nat /\ req[s].no >= 1
          /\ req[s].no = 1 \/ \E q \in Proposals : vNo[q] = req[s].no - 1
      BY <1>a, <2>6, <3>1
    <3>3. CASE req[s].no = 1
      BY <3>1, <3>3
    <3>4. CASE req[s].no # 1
      <4>1. req[s].no - 1 \in Nat /\ req[s].no - 1 >= 1
        BY <3>2, <3>4
      <4> QED
        BY <2>2, <3>1, <3>2, <3>4, <4>1
    <3> QED
      BY <3>3, <3>4
  <2> QED
    BY <2>3, <2>5, <2>6 DEF Numbers
<1> QED
  BY <1>1, <1>2, NumberGiven

-----------------------------------------------------------------------------
(* Names                                                                   *)

\* A request inside the transaction was there before, or has just inserted
\* its role, which moves nobody else and changes no row others can see.
LEMMA EnterTransaction ==
    ASSUME TypeOK, [Next]_vars, NEW s \in Requests, InTransaction(s)'
    PROVE  \/ InTransaction(s) /\ req'[s].prop = req[s].prop
           \/ /\ FinalizeInsert(s) /\ ~ InTransaction(s)
              /\ req'[s].prop = req[s].prop
              /\ vStatus[req[s].prop] = "publishing"
              /\ \A x \in JobRoles \ {req[s].prop} : ~ SameName(req[s].prop, x)
              /\ \A r \in Requests \ {s} : req'[r] = req[r]
              /\ UNCHANGED <<roles, imported, vSnapshot>>
<1>1. CASE FinalizeInsert(s)
  <2>1. \A r \in Requests \ {s} : req'[r] = req[r]
    BY <1>1 DEF TypeOK, FinalizeInsert
  <2>2. UNCHANGED <<roles, imported, vSnapshot>> /\ ~ InTransaction(s)
    BY <1>1 DEF FinalizeInsert, officialVars, versionVars, InTransaction
  <2> QED
    BY <1>1, <2>1, <2>2, StepResult DEF InTransaction
<1>2. CASE ProjectToNeo4j(s) \/ FinalizeSwitch(s) \/ FinalizeResume(s)
  BY <1>2, StepResult
     DEF ProjectToNeo4j, FinalizeSwitch, FinalizeResume, InTransaction
<1>3. CASE req'[s] = req[s]
  BY <1>3 DEF InTransaction
<1> QED
  BY <1>1, <1>2, <1>3, Progress DEF InTransaction

\* What has a name that no step changes.
Named(x) == x \in CatalogRoles \/ (x \in Proposals /\ HasVersion(x))

LEMMA NameStable ==
    ASSUME TypeOK, [Next]_vars, NEW x, Named(x)
    PROVE  Named(x)' /\ RowName(x)' = RowName(x)
BY VersionStable, ConstantsAssumption DEF Named, RowName

LEMMA NamesStep ==
    TypeOK /\ Ownership /\ Official /\ NamesReserved /\ [Next]_vars
        => NamesReserved'
<1> SUFFICES ASSUME TypeOK, Ownership, Official, NamesReserved, [Next]_vars
             PROVE  NamesReserved'
  OBVIOUS
<1>a. \A x \in JobRoles : Named(x)
  BY DEF Official, PublishedIsBacked, Published, HasVersion, JobRoles, Imported, Named
<1>b. \A r \in Requests : Publishing(r) =>
         req[r].prop \in Proposals /\ Named(req[r].prop)
  BY RequestShape DEF PublishRequest, Ownership, HasVersion, Named
<1>c. \A r \in Requests : InTransaction(r) => Publishing(r)
  BY DEF InTransaction, Publishing, PublishPC
<1>d. \A r \in Requests : InTransaction(r)' =>
         /\ Publishing(r) /\ req'[r].prop = req[r].prop
         /\ InTransaction(r) \/ FinalizeInsert(r)
  BY EnterTransaction DEF InTransaction, Publishing, PublishPC, FinalizeInsert
\* The names in use before the step, seen from before it.
<1>1. ASSUME NEW r \in Requests, NEW s \in Requests,
             InTransaction(r)', InTransaction(s)',
             SameName(req[r].prop, req[s].prop)
      PROVE  r = s
  <2>1. ASSUME NEW t \in Requests, NEW u \in Requests, t # u,
               FinalizeInsert(t), InTransaction(u)', InTransaction(t)',
               SameName(req[t].prop, req[u].prop)
        PROVE  FALSE
    <3>1. InTransaction(u)
      BY <2>1, EnterTransaction DEF FinalizeInsert, InTransaction
    <3> QED
      BY <2>1, <3>1 DEF FinalizeInsert
  <2> QED
    BY <1>1, <1>d, <2>1 DEF NamesReserved, SameName
<1>2. ASSUME NEW r \in Requests, NEW x \in JobRoles, InTransaction(r)'
      PROVE  ~ SameName(req[r].prop, x)
  <2>1. CASE InTransaction(r)
    BY <1>2, <2>1 DEF NamesReserved
  <2>2. CASE FinalizeInsert(r)
    <3>1. vStatus[req[r].prop] = "publishing"
      BY <1>2, <2>2, EnterTransaction DEF InTransaction, FinalizeInsert
    <3>2. req[r].prop \in Proposals
      BY <1>2, <1>b, <1>d
    <3>3. req[r].prop \notin JobRoles
      BY <3>1, <3>2, ConstantsAssumption
         DEF Official, PublishedIsBacked, Published, JobRoles, Imported
    <3> QED
      BY <1>2, <2>2, <3>3, EnterTransaction DEF FinalizeInsert, InTransaction
  <2> QED
    BY <1>2, <1>d, <2>1, <2>2
\* Two requests that reserve names after the step.
<1>3. ASSUME NEW r \in Requests, NEW s \in Requests, NEW p, NEW q,
             InTransaction(r)', InTransaction(s)',
             req'[r].prop = p, req'[s].prop = q, RowName(p)' = RowName(q)'
      PROVE  r = s
  <2>1. req[r].prop = p /\ req[s].prop = q /\ Named(p) /\ Named(q)
    BY <1>3, <1>b, <1>d
  <2>2. RowName(p) = RowName(q)
    BY <1>3, <2>1, NameStable
  <2> QED
    BY <1>1, <1>3, <2>1, <2>2 DEF SameName
\* It is enough to look at the rows after a step by their names before it.
<1>4. ASSUME \A x \in JobRoles' : Named(x),
             \A r \in Requests, x \in JobRoles' :
                InTransaction(r)' => RowName(req[r].prop) # RowName(x),
             \A x, y \in JobRoles' : RowName(x) = RowName(y) => x = y
      PROVE  NamesReserved'
  <2>1. \A x \in JobRoles' : RowName(x)' = RowName(x)
    BY <1>4, NameStable
  <2>2. ASSUME NEW r \in Requests, NEW x \in JobRoles', NEW p,
               InTransaction(r)', req'[r].prop = p
        PROVE  RowName(p)' # RowName(x)'
    <3>1. req[r].prop = p /\ Named(p)
      BY <2>2, <1>b, <1>d
    <3>2. RowName(p)' = RowName(p)
      BY <3>1, NameStable
    <3> QED
      BY <1>4, <2>1, <2>2, <3>1, <3>2
  <2>3. RoleNamesUnique'
    BY <1>4, <2>1 DEF RoleNamesUnique
  <2> QED
    BY <1>3, <2>2, <2>3 DEF NamesReserved, SameName
<1>5. CASE UNCHANGED <<roles, imported>>
  <2>1. JobRoles' = JobRoles
    BY <1>5 DEF JobRoles, Imported
  <2>2. \A x \in JobRoles' : Named(x)
    BY <1>a, <2>1
  <2>3. \A r \in Requests, x \in JobRoles' :
           InTransaction(r)' => RowName(req[r].prop) # RowName(x)
    BY <1>2, <2>1 DEF SameName
  <2>4. \A x, y \in JobRoles' : RowName(x) = RowName(y) => x = y
    BY <2>1 DEF NamesReserved, RoleNamesUnique
  <2> QED
    BY <1>4, <2>2, <2>3, <2>4
<1>6. ASSUME NEW t \in Requests, FinalizeCommit(t) PROVE NamesReserved'
  <2>1. InTransaction(t) /\ ~ InTransaction(t)'
    BY <1>6, CommitMoves DEF FinalizeCommit, InTransaction
  <2>2. JobRoles' = JobRoles \cup {req[t].prop}
    BY <1>6 DEF FinalizeCommit, JobRoles, Imported
  <2>3. Named(req[t].prop)
    BY <1>b, <1>c, <2>1
  <2>4. \A y \in JobRoles : RowName(req[t].prop) # RowName(y)
    BY <2>1 DEF NamesReserved, SameName
  <2>5. \A r \in Requests : InTransaction(r)' =>
           RowName(req[r].prop) # RowName(req[t].prop)
    <3>1. \A r \in Requests : InTransaction(r)' => InTransaction(r)
      BY <1>6, CommitMoves DEF InTransaction
    <3> QED
      BY <2>1, <3>1 DEF NamesReserved, SameName
  <2>6. \A x \in JobRoles' : Named(x)
    BY <1>a, <2>2, <2>3
  <2>7. \A r \in Requests, x \in JobRoles' :
           InTransaction(r)' => RowName(req[r].prop) # RowName(x)
    BY <1>2, <2>2, <2>5 DEF SameName
  <2>8. \A x, y \in JobRoles' : RowName(x) = RowName(y) => x = y
    BY <2>2, <2>4 DEF NamesReserved, RoleNamesUnique
  <2> QED
    BY <1>4, <2>6, <2>7, <2>8
<1>7. ASSUME NEW c \in CatalogRoles, NEW status \in {"candidate", "active"},
             ImportRole(c, status)
      PROVE  NamesReserved'
  <2>1. JobRoles' = JobRoles \cup {c}
    BY <1>7 DEF ImportRole, JobRoles, Imported, TypeOK
  <2>2. Named(c)
    BY DEF Named
  <2>3. /\ \A y \in JobRoles : RowName(c) # RowName(y)
        /\ \A r \in Requests : InTransaction(r) => RowName(c) # RowName(req[r].prop)
    BY <1>7 DEF ImportRole, SameName
  <2>4. \A r \in Requests : InTransaction(r)' => InTransaction(r)
    BY <1>7 DEF ImportRole, InTransaction
  <2>5. \A x \in JobRoles' : Named(x)
    BY <1>a, <2>1, <2>2
  <2>6. \A r \in Requests, x \in JobRoles' :
           InTransaction(r)' => RowName(req[r].prop) # RowName(x)
    <3>1. \A r \in Requests : InTransaction(r)' => RowName(req[r].prop) # RowName(c)
      BY <2>3, <2>4
    <3> QED
      BY <1>2, <2>1, <3>1 DEF SameName
  <2>7. \A x, y \in JobRoles' : RowName(x) = RowName(y) => x = y
    BY <2>1, <2>3 DEF NamesReserved, RoleNamesUnique
  <2> QED
    BY <1>4, <2>5, <2>6, <2>7
<1> QED
  BY <1>5, <1>6, <1>7, RolesStep

-----------------------------------------------------------------------------
(* The invariant                                                           *)

LEMMA Initially == Init => IInv
<1> SUFFICES ASSUME Init PROVE IInv
  OBVIOUS
<1>1. TypeOK
  BY DEF Init, TypeOK, ReviewStatus, CandidateStatus, VersionStatus
<1>2. \A r \in Requests : ~ Publishing(r) /\ ~ InTransaction(r)
                          /\ req[r].pc = "idle"
  BY DEF Init, IdleRequest, Publishing, PublishPC, InTransaction
<1>3. Published = {}
  BY DEF Init, Published
<1>4. Ownership /\ Carried /\ Switching
  BY <1>2 DEF Ownership, OnePublisherPerVersion, Carried, Switching
<1>5. CurrentVersionsAgree /\ Official
  BY <1>3 DEF Init, CurrentVersionsAgree, Official, PublishedIsBacked
<1>6. NamesReserved /\ Numbers
  BY <1>2 DEF Init, NamesReserved, RoleNamesUnique, JobRoles, Imported, Numbers
<1> QED
  BY <1>1, <1>4, <1>5, <1>6 DEF IInv

LEMMA Inductive == IInv /\ [Next]_vars => IInv'
BY Typing, OwnershipStep, CarriedStep, SwitchingStep, CurrentStep, OfficialStep,
   NamesStep, NumbersStep DEF IInv

\* The strengthened invariant holds in every reachable state.
THEOREM Invariance == Spec => []IInv
BY Initially, Inductive, PTL DEF Spec

\* Every variable keeps its type (TypeOK), whatever the requests do.
THEOREM TypeCorrect == Spec => []TypeOK
<1>1. IInv => TypeOK
  BY DEF IInv
<1> QED
  BY Invariance, <1>1, PTL

\* publish_graph_version's row lock gives a version one publisher at a time.
THEOREM OnePublisher == Spec => []OnePublisherPerVersion
<1>1. IInv => OnePublisherPerVersion
  BY DEF IInv, Ownership
<1> QED
  BY Invariance, <1>1, PTL

\* The switch of _finalize_graph_version leaves one current catalog and one
\* current graph version, from the same publication.
THEOREM OneCurrentVersion == Spec => []CurrentVersionsAgree
<1>1. IInv => CurrentVersionsAgree
  BY DEF IInv
<1> QED
  BY Invariance, <1>1, PTL

\* A published version has its role, its projection and its catalog.
THEOREM PublishedBacked == Spec => []PublishedIsBacked
<1>1. IInv => PublishedIsBacked
  BY DEF IInv, Official
<1> QED
  BY Invariance, <1>1, PTL

\* Publication causes none of the readers' inconsistency errors: a role whose
\* graph cannot be read was made active by a catalog import.
THEOREM OnlyImportsUnreadable == Spec => []OnlyImportsAreUnreadable
<1>1. IInv => OnlyImportsAreUnreadable
  <2> SUFFICES ASSUME IInv PROVE OnlyImportsAreUnreadable
    OBVIOUS
  <2>1. graphCurrent \subseteq neo /\ roles \subseteq neo
    BY DEF IInv, Official, PublishedIsBacked
  <2>2. catalogCurrent = graphCurrent
    BY DEF IInv, CurrentVersionsAgree
  <2>3. \A x \in Proposals \cup CatalogRoles : RoleReadInconsistent(x) =>
           x \in CatalogRoles /\ imported[x] = "active"
    BY <2>1 DEF RoleReadInconsistent, ActiveRoles
  <2> QED
    BY <2>1, <2>2, <2>3 DEF OnlyImportsAreUnreadable, GlobalReadInconsistent,
                            MatchCatalogInconsistent
<1> QED
  BY Invariance, <1>1, PTL

\* No two job roles share a domain and a spelling, across concurrent creations,
\* publications and catalog imports.
THEOREM NamesUnique == Spec => []RoleNamesUnique
<1>1. IInv => RoleNamesUnique
  BY DEF IInv, NamesReserved
<1> QED
  BY Invariance, <1>1, PTL

\* A new version's number exceeds every other's (see VersionNosGrow): numbers
\* have no gaps, so a number still free when its creation commits is the largest.
THEOREM NumbersGrow == Spec => VersionNosGrow
<1>1. IInv /\ [Next]_vars =>
        [\A p, q \in Proposals : HasVersion(p) /\ ~ HasVersion(q) /\ HasVersion(q)'
              => vNo'[q] > vNo[p]]_vars
  <2> SUFFICES ASSUME IInv, [Next]_vars, NEW p \in Proposals, NEW q \in Proposals,
                      ~ HasVersion(q), HasVersion(q)'
               PROVE  vNo'[q] > vNo[p]
    OBVIOUS
  <2>1. PICK r \in Requests :
           /\ CreateCommit(r) /\ req[r].prop = q /\ ~ Taken(q, req[r].no)
           /\ vNo' = [vNo EXCEPT ![q] = req[r].no]
    BY VersionCreated DEF IInv
  <2>2. vNo[p] < req[r].no
    BY <2>1, FreeIsLargest DEF IInv, CreateCommit
  <2>3. vNo'[q] = req[r].no /\ req[r].no \in Nat /\ vNo[p] \in Nat
    BY <2>1, RequestShape DEF IInv, TypeOK, CreateCommit, CreateRequest
  <2> QED
    BY <2>2, <2>3
<1> QED
  BY <1>1, Invariance, PTL DEF Spec, VersionNosGrow

\* A step leaves the catalog of a version that is published alone.
LEMMA PublishedCatalogStable ==
    ASSUME TypeOK, Ownership, [Next]_vars, NEW p \in Published
    PROVE  catalogItems'[p] = catalogItems[p]
<1>1. ASSUME NEW r \in Requests, FinalizeCommit(r)
      PROVE  catalogItems'[p] = catalogItems[p]
  <2>1. req[r].prop # p
    BY <1>1 DEF Ownership, FinalizeCommit, Publishing, PublishPC, Published
  <2> QED
    BY <1>1, <2>1 DEF FinalizeCommit, TypeOK
<1> QED
  BY <1>1, OnlyCommitSwitches

\* A published version is final: see PublishedIsForever.
THEOREM PublicationIsFinal == Spec => PublishedIsForever
<1>1. IInv /\ IInv' /\ [Next]_vars =>
        [\A p \in Published :
            /\ p \in Published' /\ p \in roles' /\ p \in neo'
            /\ vNo'[p] = vNo[p] /\ vSnapshot'[p] = vSnapshot[p]
            /\ catalogItems'[p] = catalogItems[p]]_vars
  <2> SUFFICES ASSUME IInv, IInv', [Next]_vars, NEW p \in Published
               PROVE  /\ p \in Published' /\ p \in roles' /\ p \in neo'
                      /\ vNo'[p] = vNo[p] /\ vSnapshot'[p] = vSnapshot[p]
                      /\ catalogItems'[p] = catalogItems[p]
    OBVIOUS
  <2>1. p \in Published'
    BY PublishedChanges DEF IInv
  <2>2. p \in roles' /\ p \in neo'
    BY <2>1 DEF IInv, Official, PublishedIsBacked
  <2>3. vNo'[p] = vNo[p] /\ vSnapshot'[p] = vSnapshot[p]
    BY VersionStable DEF IInv, Published, HasVersion
  <2> QED
    BY <2>1, <2>2, <2>3, PublishedCatalogStable DEF IInv
<1> QED
  BY <1>1, Invariance, PTL DEF Spec, PublishedIsForever

-----------------------------------------------------------------------------
(* Refinement                                                              *)

\* Publication over two stores, with its locks, failures and retries,
\* implements the ledger: nothing official that is not projected first.
THEOREM Refinement == Spec => ImplementsLedger
<1>1. Init => Ledger!Init
  BY DEF Init, Ledger!Init, Published
<1>2. IInv /\ [Next]_vars => [Ledger!Next]_(Ledger!ledgerVars)
  <2> SUFFICES ASSUME IInv, [Next]_vars
               PROVE  Ledger!Next \/ UNCHANGED Ledger!ledgerVars
    OBVIOUS
  <2>1. ASSUME NEW r \in Requests, FinalizeCommit(r) PROVE Ledger!Next
    <3>1. /\ Publishing(r) /\ req[r].prop \in Proposals
          /\ vStatus[req[r].prop] = "publishing"
      BY <2>1, RequestShape
         DEF IInv, Ownership, FinalizeCommit, Publishing, PublishPC, PublishRequest
    <3>2. req[r].prop \in neo \ Published
      BY <2>1, <3>1 DEF IInv, Carried, FinalizeCommit, Published
    <3>3. Published' = Published \cup {req[r].prop}
      BY <2>1, <3>1 DEF FinalizeCommit, Published, IInv, TypeOK
    <3>4. Ledger!Publish(req[r].prop)
      BY <2>1, <3>2, <3>3 DEF Ledger!Publish, FinalizeCommit
    <3> QED
      BY <3>1, <3>4 DEF Ledger!Next
  <2>2. ASSUME NEW r \in Requests, ProjectToNeo4j(r) \/ ProjectionFails(r)
        PROVE  Ledger!Next \/ UNCHANGED Ledger!ledgerVars
    <3>1. req[r].prop \in Proposals
      BY <2>2, RequestShape
         DEF IInv, ProjectToNeo4j, ProjectionFails, Publishing, PublishPC,
             PublishRequest
    <3>2. Published' = Published /\ UNCHANGED graphCurrent
      BY <2>2 DEF ProjectToNeo4j, ProjectionFails, Published, versionVars, officialVars
    <3>3. neo' = neo \/ neo' = neo \cup {req[r].prop}
      BY <2>2 DEF ProjectToNeo4j, ProjectionFails
    <3> QED
      BY <3>1, <3>2, <3>3 DEF Ledger!Next, Ledger!Project, Ledger!ledgerVars
  <2>3. CASE UNCHANGED <<neo, graphCurrent>> /\ Published' = Published
    BY <2>3 DEF Ledger!ledgerVars
  <2>4. \/ \E r \in Requests :
              FinalizeCommit(r) \/ ProjectToNeo4j(r) \/ ProjectionFails(r)
        \/ UNCHANGED neo
    BY DEF Next, RequestStep, vars, CreateReviewProposal,
           ImportAlgorithmProposal, ImportRole, DecideRead, CreateRead,
           PublishBegin, DecideCommit, CreateCommit, FinalizeInsert, FinalizeSwitch,
           FinalizeResume, FinalizeError, MarkFailed, Crash
  <2> QED
    BY <2>1, <2>2, <2>3, <2>4, OnlyCommitSwitches, PublishedChanges DEF IInv
<1> QED
  BY <1>1, <1>2, Invariance, PTL DEF Spec, ImplementsLedger, Ledger!Spec

-----------------------------------------------------------------------------
(* The decision log                                                        *)

Deciding(r) == req[r].pc = "decide"

Entries == [verdict : Verdict, after : Payloads]

Given(log, verdict) == \E i \in 1 .. Len(log) : log[i].verdict = verdict

Recorded(log, definition) == \E i \in 1 .. Len(log) : log[i].after = definition

\* The log of p accounts for a version with this definition.
Traced(p, definition) ==
    Given(decisions[p], "approve") /\ Recorded(decisions[p], definition)

\* What a decision has read may be stale, but not arbitrarily so: a proposal
\* does not return to "pending", and the first decision rewrites what it read.
DecisionsRead ==
    \A r \in Requests : Deciding(r) =>
        /\ req[r].status \in {"pending", "needs_revision"}
        /\ reviewStatus[req[r].prop] # "absent"
        /\ req[r].status = "needs_revision" => reviewStatus[req[r].prop] # "pending"
        /\ decisions[req[r].prop] = <<>> => req[r].before = payload[req[r].prop]

PayloadsRecorded ==
    \A p \in Proposals : decisions[p] # <<>> => Recorded(decisions[p], payload[p])

CreationsTraced ==
    \A r \in Requests : req[r].pc = "create" =>
        Traced(req[r].prop, req[r].definition)

ReviewInv ==
    /\ DecisionsRead
    /\ ReviewHistoryExplains
    /\ PayloadsRecorded
    /\ VersionsTraceToReviews
    /\ CreationsTraced

\* One entry more at the end of a log.
LEMMA Appended ==
    ASSUME NEW log \in Seq(Entries), NEW e \in Entries
    PROVE  /\ Len(log) \in Nat /\ Len(Append(log, e)) = Len(log) + 1
           /\ Append(log, e) # <<>>
           /\ Append(log, e)[Len(log) + 1] = e
           /\ \A i \in 1 .. Len(log) : Append(log, e)[i] = log[i]
OBVIOUS

\* What a log says of its past does not change when it grows.
LEMMA LogGrows ==
    ASSUME NEW log \in Seq(Entries), NEW e \in Entries
    PROVE  /\ \A verdict : Given(log, verdict) => Given(Append(log, e), verdict)
           /\ \A d : Recorded(log, d) => Recorded(Append(log, e), d)
           /\ Given(Append(log, e), e.verdict) /\ Recorded(Append(log, e), e.after)
<1> DEFINE longer == Append(log, e)
<1>1. /\ Len(log) \in Nat /\ Len(longer) = Len(log) + 1
      /\ longer[Len(log) + 1] = e
      /\ \A i \in 1 .. Len(log) : longer[i] = log[i]
  BY Appended
<1> HIDE DEF longer
<1>2. /\ Len(log) + 1 \in 1 .. Len(longer)
      /\ \A i \in 1 .. Len(log) : i \in 1 .. Len(longer)
  BY <1>1
<1>3. /\ \A verdict : Given(log, verdict) => Given(longer, verdict)
      /\ \A d : Recorded(log, d) => Recorded(longer, d)
  BY <1>1, <1>2 DEF Given, Recorded
<1>4. Given(longer, e.verdict) /\ Recorded(longer, e.after)
  BY <1>1, <1>2 DEF Given, Recorded
<1> QED
  BY <1>3, <1>4 DEF longer

\* The last decision with another verdict: the new one, or the one it was.
LEMMA LastUnlessGrows ==
    ASSUME NEW log \in Seq(Entries), NEW e \in Entries, NEW verdict
    PROVE  /\ e.verdict # verdict => LastUnless(Append(log, e), verdict, Len(log) + 1)
           /\ \A i \in 1 .. Len(log) :
                 e.verdict = verdict /\ LastUnless(log, verdict, i) =>
                    LastUnless(Append(log, e), verdict, i)
<1> DEFINE longer == Append(log, e)
           n == Len(log)
<1>1. /\ n \in Nat /\ Len(longer) = n + 1 /\ longer[n + 1] = e
      /\ \A i \in 1 .. n : longer[i] = log[i]
  BY Appended
<1> HIDE DEF longer, n
<1>2. e.verdict # verdict => LastUnless(longer, verdict, n + 1)
  BY <1>1 DEF LastUnless
<1>3. ASSUME NEW i \in 1 .. n, e.verdict = verdict,
             log[i].verdict # verdict,
             \A j \in i + 1 .. n : log[j].verdict = verdict
      PROVE  LastUnless(longer, verdict, i)
  <2>1. ASSUME NEW j \in i + 1 .. n + 1 PROVE longer[j].verdict = verdict
    <3>1. CASE j = n + 1
      BY <1>1, <1>3, <3>1
    <3>2. CASE j # n + 1
      <4>1. j \in 1 .. n /\ j \in i + 1 .. n
        BY <1>1, <2>1, <3>2
      <4> QED
        BY <1>1, <1>3, <4>1
    <3> QED
      BY <3>1, <3>2
  <2> QED
    BY <1>1, <1>3, <2>1 DEF LastUnless
<1> QED
  BY <1>2, <1>3 DEF LastUnless, longer, n

\* What a decision's commit does to its proposal, whatever became of what it
\* has read.
LEMMA DecisionWritten ==
    ASSUME TypeOK, NEW r \in Requests, DecideCommit(r),
           NEW p \in Proposals, req[r].prop = p
    PROVE  /\ Deciding(r) /\ req[r] \in DecideRequest
           /\ reviewStatus'[p] = IF Outcome(req[r].verdict) = req[r].status
                                 THEN reviewStatus[p] ELSE Outcome(req[r].verdict)
           /\ payload'[p] = IF req[r].after = req[r].before
                            THEN payload[p] ELSE req[r].after
           /\ decisions'[p] = Append(decisions[p], [verdict |-> req[r].verdict,
                                                    after |-> req[r].after])
           /\ p \in FromDiscovery =>
                 candidate'[p] = CandidateAfter(req[r].verdict, candidate[p])
<1>1. req[r] \in DecideRequest /\ Deciding(r)
  BY RequestShape DEF DecideCommit, Deciding
<1>2. reviewStatus'[p] = IF Outcome(req[r].verdict) = req[r].status
                         THEN reviewStatus[p] ELSE Outcome(req[r].verdict)
  BY DEF DecideCommit, TypeOK
<1>3. payload'[p] = IF req[r].after = req[r].before THEN payload[p] ELSE req[r].after
  BY DEF DecideCommit, TypeOK
<1>4. decisions'[p] = Append(decisions[p], [verdict |-> req[r].verdict,
                                            after |-> req[r].after])
  BY DEF DecideCommit, TypeOK
<1>5. p \in FromDiscovery =>
         candidate'[p] = CandidateAfter(req[r].verdict, candidate[p])
  BY DEF DecideCommit, TypeOK
<1> QED
  BY <1>1, <1>2, <1>3, <1>4, <1>5

\* The four ways a step leaves a proposal: untouched, proposed, decided on,
\* or published.
LEMMA ProposalStep ==
    ASSUME TypeOK, [Next]_vars, NEW p \in Proposals
    PROVE  \/ /\ reviewStatus'[p] = reviewStatus[p]
              /\ payload'[p] = payload[p]
              /\ decisions'[p] = decisions[p]
              /\ candidate'[p] = candidate[p]
           \/ /\ reviewStatus[p] = "absent" /\ reviewStatus'[p] = "pending"
              /\ payload' = payload /\ decisions' = decisions
              /\ p \in FromDiscovery => candidate'[p] = "proposed_for_review"
              /\ req' = req
           \/ \E r \in Requests : DecideCommit(r) /\ req[r].prop = p
           \/ \E r \in Requests :
                 /\ FinalizeCommit(r) /\ req[r].prop = p
                 /\ reviewStatus'[p] = "published"
                 /\ UNCHANGED <<payload, decisions, candidate>>
<1> USE DEF proposalVars
<1>1. ASSUME NEW q \in Proposals,
             CreateReviewProposal(q) \/ ImportAlgorithmProposal(q)
      PROVE  \/ /\ reviewStatus'[p] = reviewStatus[p]
                /\ payload'[p] = payload[p]
                /\ decisions'[p] = decisions[p]
                /\ candidate'[p] = candidate[p]
             \/ /\ reviewStatus[p] = "absent" /\ reviewStatus'[p] = "pending"
                /\ payload' = payload /\ decisions' = decisions
                /\ p \in FromDiscovery => candidate'[p] = "proposed_for_review"
                /\ req' = req
  BY <1>1 DEF CreateReviewProposal, ImportAlgorithmProposal, TypeOK
<1>2. ASSUME NEW r \in Requests, DecideCommit(r), req[r].prop # p
      PROVE  /\ reviewStatus'[p] = reviewStatus[p] /\ payload'[p] = payload[p]
             /\ decisions'[p] = decisions[p] /\ candidate'[p] = candidate[p]
  BY <1>2 DEF DecideCommit, TypeOK
<1>3. ASSUME NEW r \in Requests, FinalizeCommit(r)
      PROVE  /\ UNCHANGED <<payload, decisions, candidate>>
             /\ reviewStatus'[p] = IF req[r].prop = p THEN "published"
                                                      ELSE reviewStatus[p]
  BY <1>3 DEF FinalizeCommit, TypeOK
<1>4. ASSUME NEW r \in Requests, RequestStep(r)
      PROVE  DecideCommit(r) \/ FinalizeCommit(r) \/ UNCHANGED proposalVars
  BY <1>4 DEF RequestStep, CreateCommit, ProjectToNeo4j, ProjectionFails,
              FinalizeInsert, FinalizeSwitch, FinalizeResume, FinalizeError,
              MarkFailed
<1>5. \/ UNCHANGED proposalVars
      \/ \E q \in Proposals : CreateReviewProposal(q) \/ ImportAlgorithmProposal(q)
      \/ \E r \in Requests : DecideCommit(r) \/ FinalizeCommit(r)
  BY <1>4 DEF Next, vars, ImportRole, DecideRead, CreateRead, PublishBegin, Crash
<1> QED
  BY <1>1, <1>2, <1>3, <1>5

\* The log of a proposal after a step, in terms of the log before it.
LEMMA LogStep ==
    ASSUME TypeOK, [Next]_vars, NEW p \in Proposals
    PROVE  /\ decisions[p] \in Seq(Entries)
           /\ decisions'[p] = decisions[p] \/ decisions'[p] # <<>>
           /\ \A verdict : Given(decisions[p], verdict) => Given(decisions'[p], verdict)
           /\ \A d : Recorded(decisions[p], d) => Recorded(decisions'[p], d)
<1>1. decisions[p] \in Seq(Entries)
  BY DEF TypeOK, Entries
<1>2. ASSUME NEW r \in Requests, DecideCommit(r), req[r].prop = p
      PROVE  /\ decisions'[p] # <<>>
             /\ \A verdict : Given(decisions[p], verdict)
                               => Given(decisions'[p], verdict)
             /\ \A d : Recorded(decisions[p], d) => Recorded(decisions'[p], d)
  <2> DEFINE e == [verdict |-> req[r].verdict, after |-> req[r].after]
  <2>1. decisions'[p] = Append(decisions[p], e) /\ e \in Entries
    BY <1>2, DecisionWritten DEF DecideRequest, Entries
  <2> HIDE DEF e
  <2> QED
    BY <1>1, <2>1, Appended, LogGrows
<1> QED
  BY <1>1, <1>2, ProposalStep

\* A proposal with a version was approved, so its log is not empty.
LEMMA CommitsTraced ==
    ASSUME TypeOK, Ownership, VersionsTraceToReviews, NEW r \in Requests,
           FinalizeCommit(r), NEW p \in Proposals, req[r].prop = p
    PROVE  decisions[p] # <<>>
<1>1. HasVersion(p)
  BY DEF FinalizeCommit, Publishing, PublishPC, Ownership, HasVersion
<1>2. \E i \in 1 .. Len(decisions[p]) : decisions[p][i].verdict = "approve"
  BY <1>1 DEF VersionsTraceToReviews
<1> QED
  BY <1>2

LEMMA DecisionsReadStep ==
    ASSUME TypeOK, DecisionsRead, [Next]_vars PROVE DecisionsRead'
<1> SUFFICES ASSUME NEW s \in Requests, req'[s].pc = "decide", NEW p,
                    req'[s].prop = p
             PROVE  /\ req'[s].status \in {"pending", "needs_revision"}
                    /\ reviewStatus'[p] # "absent"
                    /\ req'[s].status = "needs_revision" => reviewStatus'[p] # "pending"
                    /\ decisions'[p] = <<>> => req'[s].before = payload'[p]
  BY DEF DecisionsRead, Deciding
<1>1. CASE req'[s] = req[s]
  <2>1. Deciding(s) /\ p \in Proposals /\ req[s].prop = p
    BY <1>1, RequestShape DEF Deciding, DecideRequest
  <2>2. /\ req[s].status \in {"pending", "needs_revision"}
        /\ reviewStatus[p] # "absent"
        /\ req[s].status = "needs_revision" => reviewStatus[p] # "pending"
        /\ decisions[p] = <<>> => req[s].before = payload[p]
    BY <2>1 DEF DecisionsRead
  <2>3. ASSUME NEW r \in Requests, DecideCommit(r), req[r].prop = p
        PROVE  /\ decisions'[p] # <<>>
               /\ reviewStatus'[p] \in {reviewStatus[p], "approved", "rejected",
                                        "needs_revision"}
    <3>1. reviewStatus'[p] \in {reviewStatus[p], Outcome(req[r].verdict)}
          /\ req[r].verdict \in Verdict
      BY <2>1, <2>3, DecisionWritten DEF DecideRequest
    <3>2. decisions'[p] # <<>>
      <4> DEFINE e == [verdict |-> req[r].verdict, after |-> req[r].after]
      <4>1. decisions'[p] = Append(decisions[p], e) /\ e \in Entries
        BY <2>1, <2>3, DecisionWritten DEF DecideRequest, Entries
      <4>2. decisions[p] \in Seq(Entries)
        BY <2>1, LogStep
      <4> HIDE DEF e
      <4> QED
        BY <4>1, <4>2, Appended
    <3> QED
      BY <3>1, <3>2 DEF Outcome, Verdict
  <2>4. CASE \E r \in Requests : DecideCommit(r) /\ req[r].prop = p
    BY <1>1, <2>2, <2>3, <2>4
  <2>5. CASE ~ \E r \in Requests : DecideCommit(r) /\ req[r].prop = p
    BY <1>1, <2>1, <2>2, <2>5, ProposalStep
  <2> QED
    BY <2>4, <2>5
<1>2. CASE req'[s] # req[s]
  BY <1>2, ReviewEntered DEF proposalVars
<1> QED
  BY <1>1, <1>2

\* A decision that commits explains what it leaves, even one that overwrites a
\* decision it has not seen.
LEMMA DecisionExplains ==
    ASSUME TypeOK, DecisionsRead, NEW p \in Proposals, Explains(decisions[p], p),
           NEW r \in Requests, DecideCommit(r), req[r].prop = p
    PROVE  Explains(decisions[p], p)'
<1> DEFINE log == decisions[p]
           e == [verdict |-> req[r].verdict, after |-> req[r].after]
           n == Len(log)
           longer == decisions'[p]
<1>1. /\ req[r].verdict \in Verdict
      /\ reviewStatus'[p] = IF Outcome(req[r].verdict) = req[r].status
                            THEN reviewStatus[p] ELSE Outcome(req[r].verdict)
      /\ longer = Append(log, e)
      /\ p \in FromDiscovery =>
            candidate'[p] = CandidateAfter(req[r].verdict, candidate[p])
  BY DecisionWritten DEF DecideRequest
<1>2. /\ req[r].status \in {"pending", "needs_revision"}
      /\ reviewStatus[p] # "absent"
      /\ req[r].status = "needs_revision" => reviewStatus[p] # "pending"
  BY DEF DecisionsRead, Deciding, DecideCommit
<1>3. log \in Seq(Entries) /\ e \in Entries
  BY DecisionWritten DEF TypeOK, Entries, DecideRequest
<1>4. /\ n \in Nat /\ Len(longer) = n + 1 /\ longer # <<>> /\ longer[n + 1] = e
      /\ \A i \in 1 .. n : longer[i] = log[i]
  BY <1>1, <1>3, Appended
<1>5. /\ e.verdict # "revise" => LastUnless(longer, "revise", n + 1)
      /\ e.verdict # "approve" => LastUnless(longer, "approve", n + 1)
      /\ \A i \in 1 .. n : /\ e.verdict = "revise" /\ LastUnless(log, "revise", i)
                                => LastUnless(longer, "revise", i)
                           /\ e.verdict = "approve" /\ LastUnless(log, "approve", i)
                                => LastUnless(longer, "approve", i)
  BY <1>1, <1>3, LastUnlessGrows
<1>6. e.verdict = req[r].verdict
  OBVIOUS
<1>7. n + 1 \in 1 .. Len(longer) /\ \A i \in 1 .. n : i \in 1 .. Len(longer)
  BY <1>4
<1>8. Explains(log, p)
  OBVIOUS
<1> HIDE DEF log, e, n, longer
<1>9. reviewStatus'[p] \notin {"absent", "pending"}
  BY <1>1, <1>2 DEF Outcome, Verdict
<1>10. ASSUME reviewStatus'[p] \in {"approved", "rejected"}
       PROVE  \E i \in 1 .. Len(longer) :
                 /\ LastUnless(longer, "revise", i)
                 /\ reviewStatus'[p] = IF longer[i].verdict = "approve"
                                       THEN "approved" ELSE "rejected"
  <2>1. CASE req[r].verdict = "revise"
    <3>1. reviewStatus'[p] = reviewStatus[p]
      BY <1>1, <1>10, <2>1 DEF Outcome
    <3>2. PICK i \in 1 .. n : /\ LastUnless(log, "revise", i)
                              /\ reviewStatus[p] = IF log[i].verdict = "approve"
                                                   THEN "approved" ELSE "rejected"
      BY <1>8, <1>10, <3>1 DEF Explains, n
    <3> QED
      BY <1>4, <1>5, <1>6, <1>7, <2>1, <3>1, <3>2
  <2>2. CASE req[r].verdict # "revise"
    <3>1. reviewStatus'[p] = IF req[r].verdict = "approve"
                             THEN "approved" ELSE "rejected"
      BY <1>1, <1>2, <2>2 DEF Outcome, Verdict
    <3> QED
      BY <1>4, <1>5, <1>6, <1>7, <2>2, <3>1
  <2> QED
    BY <2>1, <2>2
<1>11. ASSUME reviewStatus'[p] = "needs_revision"
       PROVE  \E i \in 1 .. Len(longer) : longer[i].verdict = "revise"
  <2>1. CASE req[r].verdict = "revise"
    BY <1>4, <1>6, <1>7, <2>1
  <2>2. CASE req[r].verdict # "revise"
    BY <1>1, <1>2, <1>11, <2>2 DEF Outcome, Verdict
  <2> QED
    BY <2>1, <2>2
<1>12. ASSUME p \in FromDiscovery
       PROVE  \/ /\ \A i \in 1 .. Len(longer) : longer[i].verdict = "approve"
                 /\ candidate'[p] = "proposed_for_review"
              \/ \E i \in 1 .. Len(longer) :
                    /\ LastUnless(longer, "approve", i)
                    /\ candidate'[p] = IF longer[i].verdict = "reject"
                                       THEN "rejected" ELSE "feedback_collected"
  <2>1. CASE req[r].verdict = "approve"
    <3>1. candidate'[p] = candidate[p]
      BY <1>1, <1>12, <2>1 DEF CandidateAfter
    <3>2. CASE /\ \A i \in 1 .. n : log[i].verdict = "approve"
               /\ candidate[p] = "proposed_for_review"
      <4>1. \A i \in 1 .. n + 1 : i \in 1 .. n \/ i = n + 1
        BY <1>4
      <4> QED
        BY <1>4, <1>6, <2>1, <3>1, <3>2, <4>1
    <3>3. CASE \E i \in 1 .. n :
                  /\ LastUnless(log, "approve", i)
                  /\ candidate[p] = IF log[i].verdict = "reject"
                                    THEN "rejected" ELSE "feedback_collected"
      <4>1. PICK i \in 1 .. n :
                  /\ LastUnless(log, "approve", i)
                  /\ candidate[p] = IF log[i].verdict = "reject"
                                    THEN "rejected" ELSE "feedback_collected"
        BY <3>3
      <4> QED
        BY <1>4, <1>5, <1>6, <1>7, <2>1, <3>1, <4>1
    <3> QED
      BY <1>2, <1>8, <1>12, <3>2, <3>3 DEF Explains, n
  <2>2. CASE req[r].verdict # "approve"
    <3>1. candidate'[p] = IF e.verdict = "reject"
                          THEN "rejected" ELSE "feedback_collected"
      BY <1>1, <1>6, <1>12, <2>2 DEF CandidateAfter, Verdict
    <3> QED
      BY <1>4, <1>5, <1>6, <1>7, <2>2, <3>1
  <2> QED
    BY <2>1, <2>2
<1> QED
  BY <1>4, <1>9, <1>10, <1>11, <1>12 DEF Explains, longer

LEMMA ExplainsStep ==
    ASSUME TypeOK, Ownership, ReviewInv, [Next]_vars, NEW p \in Proposals
    PROVE  Explains(decisions[p], p)'
<1>a. DecisionsRead /\ Explains(decisions[p], p) /\ VersionsTraceToReviews
  BY DEF ReviewInv, ReviewHistoryExplains
<1>1. CASE /\ reviewStatus'[p] = reviewStatus[p] /\ decisions'[p] = decisions[p]
           /\ candidate'[p] = candidate[p]
  BY <1>a, <1>1 DEF Explains
<1>2. CASE /\ reviewStatus[p] = "absent" /\ reviewStatus'[p] = "pending"
           /\ decisions' = decisions
           /\ p \in FromDiscovery => candidate'[p] = "proposed_for_review"
  BY <1>a, <1>2 DEF Explains
<1>3. ASSUME NEW r \in Requests, FinalizeCommit(r), req[r].prop = p,
             reviewStatus'[p] = "published", UNCHANGED <<decisions, candidate>>
      PROVE  Explains(decisions[p], p)'
  <2>1. decisions[p] # <<>>
    BY <1>a, <1>3, CommitsTraced
  <2> QED
    BY <1>a, <1>3, <2>1 DEF Explains
<1>4. ASSUME NEW r \in Requests, DecideCommit(r), req[r].prop = p
      PROVE  Explains(decisions[p], p)'
  BY <1>a, <1>4, DecisionExplains
<1> QED
  BY <1>1, <1>2, <1>3, <1>4, ProposalStep

LEMMA PayloadsStep ==
    ASSUME TypeOK, DecisionsRead, PayloadsRecorded, [Next]_vars
    PROVE  PayloadsRecorded'
<1> SUFFICES ASSUME NEW p \in Proposals, decisions'[p] # <<>>
             PROVE  Recorded(decisions'[p], payload'[p])
  BY DEF PayloadsRecorded
<1>1. ASSUME NEW r \in Requests, DecideCommit(r), req[r].prop = p
      PROVE  Recorded(decisions'[p], payload'[p])
  <2> DEFINE e == [verdict |-> req[r].verdict, after |-> req[r].after]
  <2>1. /\ decisions[p] \in Seq(Entries) /\ e \in Entries
        /\ decisions'[p] = Append(decisions[p], e)
        /\ payload'[p] = IF req[r].after = req[r].before
                         THEN payload[p] ELSE req[r].after
    BY <1>1, DecisionWritten, LogStep DEF DecideRequest, Entries
  <2>2. e.after = req[r].after
    OBVIOUS
  <2>3. decisions[p] = <<>> => req[r].before = payload[p]
    BY <1>1 DEF DecisionsRead, Deciding, DecideCommit
  <2> HIDE DEF e
  <2>4. payload'[p] = e.after \/ (decisions[p] # <<>> /\ payload'[p] = payload[p])
    BY <2>1, <2>2, <2>3
  <2> QED
    BY <2>1, <2>4, LogGrows DEF PayloadsRecorded
<1>2. CASE ~ \E r \in Requests : DecideCommit(r) /\ req[r].prop = p
  BY <1>2, ProposalStep DEF PayloadsRecorded
<1> QED
  BY <1>1, <1>2

\* A version, and one about to be created, was approved, and its definition
\* was recorded; the log only grows.
LEMMA TracedStep ==
    ASSUME TypeOK, Ownership, ReviewInv, [Next]_vars
    PROVE  VersionsTraceToReviews' /\ CreationsTraced'
<1>a. /\ \A p \in Proposals : HasVersion(p) => Traced(p, vSnapshot[p])
      /\ CreationsTraced
  BY DEF ReviewInv, VersionsTraceToReviews, Traced, Given, Recorded
<1>1. ASSUME NEW p \in Proposals, NEW d, Traced(p, d)
      PROVE  Given(decisions'[p], "approve") /\ Recorded(decisions'[p], d)
  BY <1>1, LogStep DEF Traced
<1>2. ASSUME NEW p \in Proposals, reviewStatus[p] = "approved"
      PROVE  Traced(p, payload[p])
  <2>1. Explains(decisions[p], p)
    BY DEF ReviewInv, ReviewHistoryExplains
  <2>2. PICK i \in 1 .. Len(decisions[p]) : decisions[p][i].verdict = "approve"
    BY <1>2, <2>1 DEF Explains
  <2>3. Recorded(decisions[p], payload[p])
    BY <1>2, <2>1 DEF ReviewInv, PayloadsRecorded, Explains
  <2> QED
    BY <2>2, <2>3 DEF Traced, Given
<1>3. ASSUME NEW r \in Requests, req'[r].pc = "create", NEW p, NEW d,
             req'[r].prop = p, req'[r].definition = d
      PROVE  Given(decisions'[p], "approve") /\ Recorded(decisions'[p], d)
  <2>1. CASE req'[r] = req[r]
    <3>1. p \in Proposals /\ Traced(p, d)
      BY <1>a, <1>3, <2>1, RequestShape DEF CreateRequest, CreationsTraced
    <3> QED
      BY <1>1, <3>1
  <2>2. CASE req'[r] # req[r]
    <3>1. /\ p \in Proposals /\ reviewStatus[p] = "approved" /\ d = payload[p]
      BY <1>3, <2>2, ReviewEntered
    <3> QED
      BY <1>1, <1>2, <3>1
  <2> QED
    BY <2>1, <2>2
<1>4. ASSUME NEW p \in Proposals, HasVersion(p)'
      PROVE  Given(decisions'[p], "approve") /\ Recorded(decisions'[p], vSnapshot'[p])
  <2>1. CASE HasVersion(p)
    BY <1>a, <1>1, <2>1, VersionStable
  <2>2. CASE ~ HasVersion(p)
    <3>1. PICK r \in Requests : /\ CreateCommit(r) /\ req[r].prop = p
                                /\ vSnapshot'[p] = req[r].definition
      BY <1>4, <2>2, VersionCreated
    <3> QED
      BY <1>a, <1>1, <3>1 DEF CreationsTraced, CreateCommit
  <2> QED
    BY <2>1, <2>2
<1> QED
  BY <1>3, <1>4 DEF VersionsTraceToReviews, CreationsTraced, Traced, Given, Recorded

LEMMA ReviewInitially == Init => ReviewInv
<1> SUFFICES ASSUME Init PROVE ReviewInv
  OBVIOUS
<1>1. \A r \in Requests : req[r].pc = "idle"
  BY DEF Init, IdleRequest
<1>2. \A p \in Proposals :
         reviewStatus[p] = "absent" /\ decisions[p] = <<>> /\ vStatus[p] = "absent"
  BY DEF Init
<1> QED
  BY <1>1, <1>2 DEF ReviewInv, DecisionsRead, Deciding, ReviewHistoryExplains,
                    Explains, PayloadsRecorded, VersionsTraceToReviews, HasVersion,
                    CreationsTraced

LEMMA ReviewInductive == IInv /\ ReviewInv /\ [Next]_vars => ReviewInv'
<1> SUFFICES ASSUME IInv, ReviewInv, [Next]_vars PROVE ReviewInv'
  OBVIOUS
<1>1. ReviewHistoryExplains'
  BY ExplainsStep DEF IInv, ReviewHistoryExplains
<1> QED
  BY <1>1, DecisionsReadStep, PayloadsStep, TracedStep DEF IInv, ReviewInv

LEMMA ReviewInvariance == Spec => []ReviewInv
BY ReviewInitially, ReviewInductive, Invariance, PTL DEF Spec

\* decide_review_proposal locks nothing, so decisions overlap; the decision
\* log accounts for every proposal all the same (see ReviewHistoryExplains).
THEOREM HistoryExplained == Spec => []ReviewHistoryExplains
<1>1. ReviewInv => ReviewHistoryExplains
  BY DEF ReviewInv
<1> QED
  BY ReviewInvariance, <1>1, PTL

\* create_graph_version freezes only what a reviewer has seen, of a proposal
\* that was approved at some time (see VersionsTraceToReviews).
THEOREM VersionsTraced == Spec => []VersionsTraceToReviews
<1>1. ReviewInv => VersionsTraceToReviews
  BY DEF ReviewInv
<1> QED
  BY ReviewInvariance, <1>1, PTL

-----------------------------------------------------------------------------
(* Why a published proposal is not read-only                               *)

\* Nothing in the code keeps two decisions on one proposal apart.  What would
\* follow if something did:
DecisionsDoNotOverlap ==
    \A r, s \in Requests :
        Deciding(r) /\ Deciding(s) /\ req[r].prop = req[s].prop => r = s

\* A decision is taken on a proposal that is still open.
DecisionsOpen ==
    \A r \in Requests : Deciding(r) =>
        reviewStatus[req[r].prop] \in {"pending", "needs_revision"}

\* A version, and one about to be created, belongs to an approved proposal.
VersionsApproved ==
    /\ \A p \in Proposals : HasVersion(p) =>
          reviewStatus[p] \in {"approved", "published"}
    /\ \A r \in Requests : req[r].pc = "create" =>
          reviewStatus[req[r].prop] \in {"approved", "published"}

\* An approved proposal is not decided on any more.
LEMMA ApprovedStays ==
    ASSUME TypeOK, DecisionsOpen, [Next]_vars, NEW p \in Proposals,
           reviewStatus[p] \in {"approved", "published"}
    PROVE  /\ reviewStatus'[p] \in {reviewStatus[p], "published"}
           /\ payload'[p] = payload[p] /\ decisions'[p] = decisions[p]
<1>1. ASSUME NEW r \in Requests, DecideCommit(r), req[r].prop = p
      PROVE  FALSE
  BY <1>1 DEF DecisionsOpen, Deciding, DecideCommit
<1> QED
  BY <1>1, ProposalStep

\* The one step that needs the hypothesis: a decision that commits would close
\* the proposal another one is deciding on.
LEMMA OpenStep ==
    ASSUME TypeOK, Ownership, DecisionsOpen, VersionsApproved,
           DecisionsDoNotOverlap, [Next]_vars
    PROVE  DecisionsOpen'
<1> SUFFICES ASSUME NEW s \in Requests, req'[s].pc = "decide", NEW p,
                    req'[s].prop = p
             PROVE  reviewStatus'[p] \in {"pending", "needs_revision"}
  BY DEF DecisionsOpen, Deciding
<1>1. CASE req'[s] = req[s]
  <2>1. /\ Deciding(s) /\ p \in Proposals /\ req[s].prop = p
        /\ reviewStatus[p] \in {"pending", "needs_revision"}
    BY <1>1, RequestShape DEF Deciding, DecideRequest, DecisionsOpen
  <2>2. ASSUME NEW r \in Requests, DecideCommit(r), req[r].prop = p
        PROVE  FALSE
    <3>1. r = s
      BY <2>1, <2>2 DEF DecisionsDoNotOverlap, DecideCommit, Deciding
    <3> QED
      BY <1>1, <2>1, <2>2, <3>1 DEF DecideCommit, IdleRequest, TypeOK, Deciding
  <2>3. ASSUME NEW r \in Requests, FinalizeCommit(r), req[r].prop = p
        PROVE  FALSE
    <3>1. HasVersion(p)
      BY <2>3 DEF FinalizeCommit, Publishing, PublishPC, Ownership, HasVersion
    <3> QED
      BY <2>1, <3>1 DEF VersionsApproved
  <2> QED
    BY <2>1, <2>2, <2>3, ProposalStep
<1>2. CASE req'[s] # req[s]
  BY <1>2, ReviewEntered DEF proposalVars
<1> QED
  BY <1>1, <1>2

LEMMA ApprovedStep ==
    ASSUME TypeOK, Ownership, DecisionsOpen, VersionsApproved, [Next]_vars
    PROVE  VersionsApproved'
<1>1. ASSUME NEW r \in Requests, req'[r].pc = "create", NEW p, req'[r].prop = p
      PROVE  reviewStatus'[p] \in {"approved", "published"}
  <2>1. CASE req'[r] = req[r]
    <3>1. p \in Proposals /\ reviewStatus[p] \in {"approved", "published"}
      BY <1>1, <2>1, RequestShape DEF CreateRequest, VersionsApproved
    <3> QED
      BY <3>1, ApprovedStays
  <2>2. CASE req'[r] # req[r]
    BY <1>1, <2>2, ReviewEntered DEF proposalVars
  <2> QED
    BY <2>1, <2>2
<1>2. ASSUME NEW p \in Proposals, HasVersion(p)'
      PROVE  reviewStatus'[p] \in {"approved", "published"}
  <2>1. reviewStatus[p] \in {"approved", "published"}
    BY <1>2, VersionCreated DEF VersionsApproved, CreateCommit
  <2> QED
    BY <2>1, ApprovedStays
<1> QED
  BY <1>1, <1>2 DEF VersionsApproved

LEMMA OpenInvariance ==
    Spec /\ []DecisionsDoNotOverlap => [](DecisionsOpen /\ VersionsApproved)
<1>1. Init => DecisionsOpen /\ VersionsApproved
  BY DEF Init, IdleRequest, DecisionsOpen, Deciding, VersionsApproved, HasVersion
<1>2. IInv /\ DecisionsOpen /\ VersionsApproved /\ DecisionsDoNotOverlap /\ [Next]_vars
        => (DecisionsOpen /\ VersionsApproved)'
  BY OpenStep, ApprovedStep DEF IInv
<1> QED
  BY <1>1, <1>2, Invariance, PTL DEF Spec

\* README.md:403, a published proposal is read-only, fails in the code (see
\* PublishedProposalIsReadOnly); overlapping decisions are the whole reason.
THEOREM ReadOnlyUnlessOverlap ==
    Spec /\ []DecisionsDoNotOverlap => PublishedProposalIsReadOnly
<1> DEFINE ReadOnly == \A p \in Proposals : reviewStatus[p] = "published" =>
                          /\ reviewStatus'[p] = "published"
                          /\ payload'[p] = payload[p]
                          /\ decisions'[p] = decisions[p]
<1>1. TypeOK /\ DecisionsOpen /\ [Next]_vars => [ReadOnly]_vars
  BY ApprovedStays
<1> HIDE DEF ReadOnly
<1>2. Spec /\ []DecisionsDoNotOverlap => [][ReadOnly]_vars
  BY <1>1, TypeCorrect, OpenInvariance, PTL DEF Spec
<1> QED
  BY <1>2 DEF ReadOnly, PublishedProposalIsReadOnly

\* Only reviewers decide.
LEMMA OnlyReviewersDecide ==
    Spec => [](\A r \in Requests : Deciding(r) => r \in Reviewers)
<1> DEFINE ByReviewer == \A r \in Requests : Deciding(r) => r \in Reviewers
<1>1. Init => ByReviewer
  BY DEF Init, IdleRequest, Deciding
<1>2. TypeOK /\ ByReviewer /\ [Next]_vars => ByReviewer'
  <2> SUFFICES ASSUME TypeOK, ByReviewer, [Next]_vars, NEW s \in Requests,
                      Deciding(s)', req'[s] # req[s]
               PROVE  s \in Reviewers
    BY DEF Deciding
  <2> QED
    BY ReviewEntered DEF Deciding
<1> HIDE DEF ByReviewer
<1>3. Spec => []ByReviewer
  BY <1>1, <1>2, TypeCorrect, PTL DEF Spec
<1> QED
  BY <1>3 DEF ByReviewer

\* A deployment whose administrators review one request at a time meets the
\* hypothesis of ReadOnlyUnlessOverlap; the code itself does not enforce it.
THEOREM OneReviewer ==
    ASSUME \A r, s \in Reviewers : r = s
    PROVE  Spec => []DecisionsDoNotOverlap
<1>1. (\A r \in Requests : Deciding(r) => r \in Reviewers) => DecisionsDoNotOverlap
  BY DEF DecisionsDoNotOverlap
<1> QED
  BY <1>1, OnlyReviewersDecide, PTL
=============================================================================
