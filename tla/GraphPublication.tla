--------------------------- MODULE GraphPublication ---------------------------
(***************************************************************************)
(* Review decisions and the publication of a reviewed job role.            *)
(*                                                                         *)
(* PostgreSQL holds review proposals, graph versions, catalog versions and *)
(* the job roles; Neo4j holds the projection users read.  A catalog import *)
(* inserts job roles too, which no publication projects.  An HTTP          *)
(* request of an administrator is a sequence of steps: everything between  *)
(* two awaits on another store, or between a read and the commit that uses *)
(* it, is one action, so requests interleave where the code lets them.     *)
(*                                                                         *)
(* A graph version, its draft catalog version and its job role are created *)
(* together from one proposal and are each unique to it, so all three are  *)
(* indexed by the proposal they come from.                                 *)
(***************************************************************************)
EXTENDS Naturals, Sequences, FiniteSets

CONSTANTS
    Proposals,       \* review proposals (graph_change_candidates rows)
    FromDiscovery,   \* the proposals whose source is a discovery candidate
    Payloads,        \* role definitions a proposal may carry
    RoleName,        \* RoleName[d]: the name of definition d (see Folded)
    CatalogRoles,    \* the job roles of the catalog files administrators import
    CatalogName,     \* CatalogName[c]: the name of catalog role c
    Requests,        \* concurrent administrator requests
    Reviewers,       \* the requests that decide on proposals
    MaxDecisions,    \* bound: decisions started on one proposal
    MaxAttempts,     \* bound: publish attempts of one version
    CrashesAllowed   \* whether the API process may die inside a request

NoProposal == "none"

ASSUME ConstantsAssumption ==
    /\ FromDiscovery \subseteq Proposals
    /\ NoProposal \notin Proposals
    /\ Reviewers \subseteq Requests
    /\ DOMAIN RoleName = Payloads
    /\ DOMAIN CatalogName = CatalogRoles
    /\ CatalogRoles \cap Proposals = {}
    /\ MaxDecisions \in Nat
    /\ MaxAttempts \in Nat
    /\ CrashesAllowed \in BOOLEAN

VARIABLES
    reviewStatus,    \* GraphChangeCandidate.review_status
    payload,         \* GraphChangeCandidate.proposed_payload
    decisions,       \* the ReviewDecision rows of a proposal, oldest first
    candidate,       \* SkillCombinationCandidate.status of a proposal's source
    vStatus,         \* GraphVersion.status ("absent": no row)
    vNo,             \* GraphVersion.version_no
    vSnapshot,       \* the definition frozen in GraphVersion.snapshot
    attempts,        \* GraphVersion.attempt_count
    graphCurrent,    \* graph versions that are published and is_current
    catalogCurrent,  \* catalog versions that are published and is_current
    catalogItems,    \* job-role items of a catalog version
    roles,           \* JobRole rows inserted by publications, all active
    imported,        \* JobRole.status of a catalog role ("absent": no row)
    neo,             \* JobRole nodes of the Neo4j projection
    req              \* what each request has read and what it does next

proposalVars == <<reviewStatus, payload, decisions, candidate>>
versionVars  == <<vStatus, vNo, vSnapshot, attempts>>
officialVars == <<graphCurrent, catalogCurrent, catalogItems, roles, imported>>
vars == <<proposalVars, versionVars, officialVars, neo, req>>

-----------------------------------------------------------------------------
ReviewStatus  == {"absent", "pending", "needs_revision", "approved",
                  "rejected", "published"}

FINAL_STATUSES == {"approved", "rejected", "published"}
VersionStatus == {"absent", "draft", "publishing", "published", "failed"}
Verdict       == {"approve", "revise", "reject"}
CandidateStatus == {"none", "candidate", "proposed_for_review",
                    "feedback_collected", "rejected"}

\* Mutant: a revision leaves a status the row's check constraint refuses.
OutcomeMisspelt(verdict) == CASE verdict = "approve" -> "approved"
                              [] verdict = "revise"  -> "revise"
                              [] verdict = "reject"  -> "rejected"

\* The review_status a decision writes.
Outcome(verdict) == CASE verdict = "approve" -> "approved"
                      [] verdict = "revise"  -> "needs_revision"
                      [] verdict = "reject"  -> "rejected"

\* The states of a request: idle, between the read and the commit of a
\* decision or of a version's creation, or somewhere inside a publication.
IdleRequest   == [pc |-> "idle", prop |-> NoProposal]
DecideRequest == [pc : {"decide"}, prop : Proposals, status : ReviewStatus,
                  before : Payloads, verdict : Verdict, after : Payloads]
CreateRequest == [pc : {"create"}, prop : Proposals, no : Nat,
                  imports : SUBSET CatalogRoles, definition : Payloads]
PublishPC     == {"project", "finalize", "switch", "wait", "commit", "fail"}
PublishRequest == [pc : PublishPC, prop : Proposals,
                   roles : SUBSET (Proposals \cup CatalogRoles),
                   demoted : SUBSET Proposals]

TypeOK ==
    /\ reviewStatus \in [Proposals -> ReviewStatus]
    /\ payload \in [Proposals -> Payloads]
    /\ decisions \in [Proposals -> Seq([verdict : Verdict, after : Payloads])]
    /\ candidate \in [Proposals -> CandidateStatus]
    /\ vStatus \in [Proposals -> VersionStatus]
    /\ vNo \in [Proposals -> Nat]
    /\ vSnapshot \in [Proposals -> Payloads]
    /\ attempts \in [Proposals -> Nat]
    /\ graphCurrent \subseteq Proposals
    /\ catalogCurrent \subseteq Proposals
    /\ catalogItems \in [Proposals -> SUBSET (Proposals \cup CatalogRoles)]
    /\ roles \subseteq Proposals
    /\ imported \in [CatalogRoles -> {"absent", "candidate", "active"}]
    /\ neo \subseteq Proposals
    /\ req \in [Requests -> {IdleRequest} \cup DecideRequest
                             \cup CreateRequest \cup PublishRequest]

\* A fresh deployment: candidates have been mined, nothing is proposed.
Init ==
    /\ reviewStatus = [p \in Proposals |-> "absent"]
    /\ payload \in [Proposals -> Payloads]
    /\ decisions = [p \in Proposals |-> <<>>]
    /\ candidate = [p \in Proposals |->
                        IF p \in FromDiscovery THEN "candidate" ELSE "none"]
    /\ vStatus = [p \in Proposals |-> "absent"]
    /\ vNo = [p \in Proposals |-> 0]
    /\ vSnapshot = payload
    /\ attempts = [p \in Proposals |-> 0]
    /\ graphCurrent = {}
    /\ catalogCurrent = {}
    /\ catalogItems = [p \in Proposals |-> {}]
    /\ roles = {}
    /\ imported = [c \in CatalogRoles |-> "absent"]
    /\ neo = {}
    /\ req = [r \in Requests |-> IdleRequest]

-----------------------------------------------------------------------------
(* Reviews                                                                 *)

\* create_review_proposal: one proposal per discovery candidate; a second
\* call returns the existing one.
CreateReviewProposal(p) ==
    /\ p \in FromDiscovery
    /\ reviewStatus[p] = "absent"
    /\ reviewStatus' = [reviewStatus EXCEPT ![p] = "pending"]
    /\ candidate' = [candidate EXCEPT ![p] = "proposed_for_review"]
    /\ UNCHANGED <<payload, decisions, versionVars, officialVars, neo, req>>

\* import_algorithm_job_definitions: a proposal without a source candidate.
ImportAlgorithmProposal(p) ==
    /\ p \notin FromDiscovery
    /\ reviewStatus[p] = "absent"
    /\ reviewStatus' = [reviewStatus EXCEPT ![p] = "pending"]
    /\ UNCHANGED <<payload, decisions, candidate, versionVars, officialVars,
                   neo, req>>

\* decide_review_proposal up to its commit: the row is read without a lock,
\* a final proposal is refused, and only "revise" must bring a definition.
DecideRead(r, p, verdict, after) ==
    /\ r \in Reviewers
    /\ req[r].pc = "idle"
    /\ reviewStatus[p] \notin FINAL_STATUSES \cup {"absent"}
    /\ Len(decisions[p]) < MaxDecisions
    /\ verdict = "reject" => after = payload[p]
    /\ req' = [req EXCEPT ![r] =
                 [pc |-> "decide", prop |-> p, status |-> reviewStatus[p],
                  before |-> payload[p], verdict |-> verdict, after |-> after]]
    /\ UNCHANGED <<proposalVars, versionVars, officialVars, neo>>

\* Mutant: a rejection gives the candidate back for feedback.
CandidateNeverRejected(verdict, status) ==
    IF verdict = "approve" THEN status ELSE "feedback_collected"

\* What a decision makes of the source candidate's status.
CandidateAfter(verdict, status) ==
    CASE verdict = "approve" -> status
      [] verdict = "revise"  -> "feedback_collected"
      [] verdict = "reject"  -> "rejected"

\* The commit writes only the columns whose value differs from the one read.
\* The candidate is read last, after the autoflush has locked the proposal.
DecideCommit(r) ==
    LET d == req[r]
        p == d.prop
    IN  /\ d.pc = "decide"
        /\ IF Outcome(d.verdict) = d.status
           THEN UNCHANGED reviewStatus
           ELSE reviewStatus' = [reviewStatus EXCEPT ![p] = Outcome(d.verdict)]
        /\ IF d.after = d.before
           THEN UNCHANGED payload
           ELSE payload' = [payload EXCEPT ![p] = d.after]
        /\ decisions' = [decisions EXCEPT ![p] =
                            Append(@, [verdict |-> d.verdict,
                                       after |-> d.after])]
        /\ candidate' = IF p \notin FromDiscovery THEN candidate
                        ELSE [candidate EXCEPT ![p] =
                                CandidateAfter(d.verdict, @)]
        /\ req' = [req EXCEPT ![r] = IdleRequest]
        /\ UNCHANGED <<versionVars, officialVars, neo>>

-----------------------------------------------------------------------------
(* Job roles                                                               *)

\* A name is a pair: the domain and the name without its case, which creation
\* compares, and its exact spelling, which the unique constraint adds.
Folded(name) == name[1]

Imported    == {c \in CatalogRoles : imported[c] # "absent"}
JobRoles    == roles \cup Imported
ActiveRoles == roles \cup {c \in CatalogRoles : imported[c] = "active"}

RowName(x) == IF x \in Proposals THEN RoleName[vSnapshot[x]] ELSE CatalogName[x]

\* Mutant: names are compared when the version is created and never again.
SameNameUnchecked(x, y) == FALSE

\* The unique constraint on (domain_id, canonical_name).
SameName(x, y) == RowName(x) = RowName(y)

InTransaction(r) == req[r].pc \in {"switch", "wait", "commit"}

\* The commit of a catalog import (_apply_rows) that holds job role c.  It
\* projects nothing to Neo4j, its own catalog version stays a draft, and it
\* waits for an uncommitted role of the same name.
ImportRole(c, status) ==
    /\ imported[c] = "absent"
    /\ \A x \in JobRoles : ~ SameName(c, x)
    /\ \A r \in Requests : InTransaction(r) => ~ SameName(c, req[r].prop)
    /\ imported' = [imported EXCEPT ![c] = status]
    /\ UNCHANGED <<proposalVars, versionVars, graphCurrent, catalogCurrent,
                   catalogItems, roles, neo, req>>

-----------------------------------------------------------------------------
(* Creation of a draft graph version                                       *)

HasVersion(p) == vStatus[p] # "absent"
VersionNos == 1 .. Cardinality(Proposals) + 1

\* n = max(version_no) + 1
IsNextNo(n) == /\ \A p \in Proposals : vNo[p] < n
               /\ n = 1 \/ \E p \in Proposals : vNo[p] = n - 1

\* Mutant: a proposal sent back for revision is accepted too.
ApprovedOrRevised(p) == reviewStatus[p] \in {"approved", "needs_revision"}

Approved(p) == reviewStatus[p] = "approved"

\* create_graph_version up to its commit: refuses a proposal that is not
\* approved or whose role name is taken by a job role of any status, and picks
\* max + 1 for the graph version and for its catalog version.
CreateRead(r, p, no) ==
    /\ req[r].pc = "idle"
    /\ ~ HasVersion(p)
    /\ IsNextNo(no)
    /\ Approved(p)
    /\ \A x \in JobRoles : Folded(RowName(x)) # Folded(RoleName[payload[p]])
    /\ req' = [req EXCEPT ![r] = [pc |-> "create", prop |-> p, no |-> no,
                                  imports |-> Imported,
                                  definition |-> payload[p]]]
    /\ UNCHANGED <<proposalVars, versionVars, officialVars, neo>>

\* Mutant: only the proposal is unique, not the version numbers.
TakenByProposalOnly(p, no) == HasVersion(p)

Taken(p, no) == HasVersion(p) \/ \E q \in Proposals : vNo[q] = no

\* The unique constraints on source_proposal_id and on the numbers of graph
\* and catalog versions arbitrate two concurrent creations, or a creation and
\* a catalog import: the loser answers 500 and writes nothing.
CreateCommit(r) ==
    LET c == req[r]
        p == c.prop
    IN  /\ c.pc = "create"
        /\ IF Taken(p, c.no) \/ Imported # c.imports
           THEN UNCHANGED versionVars
           ELSE /\ vStatus' = [vStatus EXCEPT ![p] = "draft"]
                /\ vNo' = [vNo EXCEPT ![p] = c.no]
                /\ vSnapshot' = [vSnapshot EXCEPT ![p] = c.definition]
                /\ UNCHANGED attempts
        /\ req' = [req EXCEPT ![r] = IdleRequest]
        /\ UNCHANGED <<proposalVars, officialVars, neo>>

-----------------------------------------------------------------------------
(* Publication                                                             *)

At(p, pc) == [pc |-> pc, prop |-> p, roles |-> {}, demoted |-> {}]

\* Mutant: only a published version is refused, so a version somebody else is
\* publishing may be started again.
PublishableUnlessPublished(p) == vStatus[p] \notin {"absent", "published"}

\* Mutant: a published version may be published again.
PublishableAgain(p) == vStatus[p] \in {"draft", "failed", "published"}

Publishable(p) == vStatus[p] \in {"draft", "failed"}

\* Mutant: a retry trusts the projection of the attempt that failed.
FirstStepSkipsNeo4j(p) == IF attempts[p] = 0 THEN "project" ELSE "finalize"

\* Every attempt starts with the projection, a retry included.
FirstStep(p) == "project"

\* The first transaction of publish_graph_version, under the row lock.
PublishBegin(r, p) ==
    /\ req[r].pc = "idle"
    /\ Publishable(p)
    /\ attempts[p] < MaxAttempts
    /\ vStatus' = [vStatus EXCEPT ![p] = "publishing"]
    /\ attempts' = [attempts EXCEPT ![p] = @ + 1]
    /\ req' = [req EXCEPT ![r] = At(p, FirstStep(p))]
    /\ UNCHANGED <<vNo, vSnapshot, proposalVars, officialVars, neo>>

\* publish_job_role_snapshot: the MERGE is idempotent and commits on its own.
ProjectToNeo4j(r) ==
    /\ req[r].pc = "project"
    /\ neo' = neo \cup {req[r].prop}
    /\ req' = [req EXCEPT ![r].pc = "finalize"]
    /\ UNCHANGED <<proposalVars, versionVars, officialVars>>

\* Neo4j is unreachable, or answers badly after its transaction committed.
ProjectionFails(r) ==
    /\ req[r].pc = "project"
    /\ neo' \in {neo, neo \cup {req[r].prop}}
    /\ req' = [req EXCEPT ![r].pc = "fail"]
    /\ UNCHANGED <<proposalVars, versionVars, officialVars>>

\* _finalize_graph_version up to the UPDATE of the current catalog: the job
\* role is inserted (not yet visible to others) and the active roles are read.
\* The insert waits for an uncommitted role of the same name, and fails on a
\* committed one.
FinalizeInsert(r) ==
    LET p == req[r].prop
    IN  /\ req[r].pc = "finalize"
        /\ \A s \in Requests : InTransaction(s) => ~ SameName(p, req[s].prop)
        /\ req' = [req EXCEPT ![r] =
              IF vStatus[p] # "publishing"
                 \/ \E x \in JobRoles \ {p} : SameName(p, x)
              THEN At(p, "fail")
              ELSE [At(p, "switch") EXCEPT !.roles = ActiveRoles \cup {p}]]
        /\ UNCHANGED <<proposalVars, versionVars, officialVars, neo>>

\* Whether a transaction holds the row locks of the switch of current rows.
SwitchHeld == \E s \in Requests : req[s].pc = "commit"

\* UPDATE catalog_versions SET is_current = false: the statement demotes the
\* rows current when it starts, and its row locks last until the commit.
FinalizeSwitch(r) ==
    /\ req[r].pc = "switch"
    /\ req' = [req EXCEPT ![r] =
                  [@ EXCEPT !.pc = IF SwitchHeld THEN "wait" ELSE "commit",
                            !.demoted = catalogCurrent]]
    /\ UNCHANGED <<proposalVars, versionVars, officialVars, neo>>

\* Mutant: no partial unique index on the current catalog.
SecondCurrentAllowed(r) == FALSE

SecondCurrent(r) == ~ (catalogCurrent \subseteq req[r].demoted)

\* The other transaction ended.  The partial unique index on the current
\* catalog refuses a second current row: one the statement did not demote.
FinalizeResume(r) ==
    /\ req[r].pc = "wait"
    /\ ~ SwitchHeld
    /\ req' = [req EXCEPT ![r].pc = IF SecondCurrent(r)
                                    THEN "fail" ELSE "commit"]
    /\ UNCHANGED <<proposalVars, versionVars, officialVars, neo>>

\* The commit of _finalize_graph_version.
FinalizeCommit(r) ==
    LET p == req[r].prop
    IN  /\ req[r].pc = "commit"
        /\ roles' = roles \cup {p}
        /\ catalogItems' = [catalogItems EXCEPT ![p] = @ \cup req[r].roles]
        /\ catalogCurrent' = (catalogCurrent \ req[r].demoted) \cup {p}
        /\ graphCurrent' = {p}
        /\ reviewStatus' = [reviewStatus EXCEPT ![p] = "published"]
        /\ vStatus' = [vStatus EXCEPT ![p] = "published"]
        /\ req' = [req EXCEPT ![r] = IdleRequest]
        /\ UNCHANGED <<payload, decisions, candidate, vNo, vSnapshot,
                       attempts, imported, neo>>

\* Any database error inside _finalize_graph_version rolls it back.
FinalizeError(r) ==
    /\ req[r].pc = "finalize" \/ InTransaction(r)
    /\ req' = [req EXCEPT ![r] = At(req[r].prop, "fail")]
    /\ UNCHANGED <<proposalVars, versionVars, officialVars, neo>>

\* Mutant: only last_error is recorded.
FailureStatusKept == "publishing"

FailureStatus == "failed"

\* _mark_failed
MarkFailed(r) ==
    /\ req[r].pc = "fail"
    /\ vStatus' = [vStatus EXCEPT ![req[r].prop] = FailureStatus]
    /\ req' = [req EXCEPT ![r] = IdleRequest]
    /\ UNCHANGED <<vNo, vSnapshot, attempts, proposalVars, officialVars, neo>>

\* The process dies (or its connection to PostgreSQL does): an open
\* transaction is rolled back, nothing else is undone.
Crash(r) ==
    /\ CrashesAllowed
    /\ req[r].pc # "idle"
    /\ req' = [req EXCEPT ![r] = IdleRequest]
    /\ UNCHANGED <<proposalVars, versionVars, officialVars, neo>>

-----------------------------------------------------------------------------
\* The steps a running request takes by itself.
RequestStep(r) ==
    \/ DecideCommit(r)
    \/ CreateCommit(r)
    \/ ProjectToNeo4j(r)
    \/ ProjectionFails(r)
    \/ FinalizeInsert(r)
    \/ FinalizeSwitch(r)
    \/ FinalizeResume(r)
    \/ FinalizeCommit(r)
    \/ FinalizeError(r)
    \/ MarkFailed(r)

Next ==
    \/ \E p \in Proposals : CreateReviewProposal(p) \/ ImportAlgorithmProposal(p)
    \/ \E c \in CatalogRoles, status \in {"candidate", "active"} :
          ImportRole(c, status)
    \/ \E r \in Requests, p \in Proposals :
          \/ \E verdict \in Verdict, after \in Payloads :
                DecideRead(r, p, verdict, after)
          \/ \E no \in VersionNos : CreateRead(r, p, no)
          \/ PublishBegin(r, p)
    \/ \E r \in Requests : RequestStep(r) \/ Crash(r)

Spec == Init /\ [][Next]_vars

\* A request that was started is carried through (asyncio runs every ready
\* task); nobody is obliged to start one.
FairSpec == Spec /\ \A r \in Requests : WF_vars(RequestStep(r))
-----------------------------------------------------------------------------
(* Properties                                                              *)

Published == {p \in Proposals : vStatus[p] = "published"}
Publishing(r) == req[r].pc \in PublishPC

\* publish_graph_version takes the row lock and refuses a version that is
\* being published: two requests never publish the same version.
OnePublisherPerVersion ==
    \A r, s \in Requests :
        Publishing(r) /\ Publishing(s) /\ req[r].prop = req[s].prop => r = s

\* At most one catalog version and one graph version are current, and they
\* come from the same publication, whatever publications overlap or fail.
CurrentVersionsAgree ==
    /\ catalogCurrent = graphCurrent
    /\ \A p, q \in catalogCurrent : p = q

\* What one publication promises: a version is published exactly when its job
\* role is inserted, and then the role is projected in Neo4j, listed in the
\* version's own catalog, and the catalog's other items are active roles too.
PublishedIsBacked ==
    /\ roles = Published
    /\ Published \subseteq neo
    /\ \A p \in Published :
          p \in catalogItems[p] /\ catalogItems[p] \subseteq ActiveRoles

\* Two job roles never share a domain and a spelling, although publication
\* compares the name long before it inserts the role, and a catalog import may
\* insert it in between.
RoleNamesUnique == \A x, y \in JobRoles : RowName(x) = RowName(y) => x = y

\* A new version's number is larger than every other's, although the number is
\* read long before it is inserted: a creation that was overtaken is refused,
\* it never comes in under a number below those that overtook it.
VersionNosGrow ==
    [][\A p, q \in Proposals :
          HasVersion(p) /\ ~ HasVersion(q) /\ HasVersion(q)'
              => vNo'[q] > vNo[p]]_vars

\* The errors of get_global_graph and get_job_role_graph
\* (GRAPH_PROJECTION_INCONSISTENT) and of a recommendation
\* (MATCH_CATALOG_INCONSISTENT) that blame the stores.
GlobalReadInconsistent   == graphCurrent # {} /\ neo = {}
RoleReadInconsistent(x)  == x \in ActiveRoles /\ graphCurrent # {} /\ x \notin neo
MatchCatalogInconsistent == ~ (graphCurrent \subseteq catalogCurrent)

\* Publication causes none of them: PostgreSQL never runs ahead of the
\* projection, both current rows are switched by one commit, and a role whose
\* graph cannot be read is one that a catalog import made active.
OnlyImportsAreUnreadable ==
    /\ ~ GlobalReadInconsistent
    /\ \A x \in Proposals \cup CatalogRoles :
          RoleReadInconsistent(x) => x \in CatalogRoles /\ imported[x] = "active"
    /\ ~ MatchCatalogInconsistent

\* A published version is final: no later request, failure or crash changes
\* its status, number, snapshot or catalog, or removes its role.
PublishedIsForever ==
    [][\A p \in Published :
          /\ p \in Published' /\ p \in roles' /\ p \in neo'
          /\ vNo'[p] = vNo[p] /\ vSnapshot'[p] = vSnapshot[p]
          /\ catalogItems'[p] = catalogItems[p]]_vars

\* While no process dies, a publication ends: published, or failed and so
\* open to a retry.
PublicationSettles ==
    \A p \in Proposals :
        vStatus[p] = "publishing" ~> vStatus[p] \in {"published", "failed"}

\* Decision i is the last one whose verdict is another than the given one.
LastUnless(log, verdict, i) ==
    /\ log[i].verdict # verdict
    /\ \A j \in i + 1 .. Len(log) : log[j].verdict = verdict

\* A proposal and its decision log: an undecided one has none; an approval or a
\* rejection that stands was followed by revisions only; one under revision
\* was sent back; and the candidate is what the last decision that touched it
\* made of it.
Explains(log, p) ==
    LET I == 1 .. Len(log)
    IN  /\ log = <<>> <=> reviewStatus[p] \in {"absent", "pending"}
        /\ reviewStatus[p] \in {"approved", "rejected"} =>
              \E i \in I : /\ LastUnless(log, "revise", i)
                           /\ reviewStatus[p] = IF log[i].verdict = "approve"
                                                THEN "approved" ELSE "rejected"
        /\ reviewStatus[p] = "needs_revision" =>
              \E i \in I : log[i].verdict = "revise"
        /\ p \in FromDiscovery /\ reviewStatus[p] # "absent" =>
              \/ /\ \A i \in I : log[i].verdict = "approve"
                 /\ candidate[p] = "proposed_for_review"
              \/ \E i \in I : /\ LastUnless(log, "approve", i)
                              /\ candidate[p] = IF log[i].verdict = "reject"
                                                THEN "rejected"
                                                ELSE "feedback_collected"

\* The decision log accounts for every proposal and its candidate, however the
\* decisions of concurrent administrators overlap.
ReviewHistoryExplains == \A p \in Proposals : Explains(decisions[p], p)

\* Nothing gets into a version behind the reviewers' back: a proposal with a
\* version was approved at some time, and the definition frozen in it is one
\* that some decision recorded.
VersionsTraceToReviews ==
    \A p \in Proposals : HasVersion(p) =>
        /\ \E i \in 1 .. Len(decisions[p]) : decisions[p][i].verdict = "approve"
        /\ \E i \in 1 .. Len(decisions[p]) : decisions[p][i].after = vSnapshot[p]

-----------------------------------------------------------------------------
(* What the documents say and the code does not keep                       *)

\* README.md:403: after publication a proposal is read-only.
PublishedProposalIsReadOnly ==
    [][\A p \in Proposals : reviewStatus[p] = "published" =>
          /\ reviewStatus'[p] = "published"
          /\ payload'[p] = payload[p]
          /\ decisions'[p] = decisions[p]]_vars

\* README.md:440: the new catalog version is complete: it lists every role
\* that was active before it and the new one.
CurrentCatalogIsComplete ==
    \A p \in catalogCurrent : roles \subseteq catalogItems[p]

-----------------------------------------------------------------------------
\* The detailed publication implements the two-store ledger.
Ledger == INSTANCE PublicationLedger
            WITH Items <- Proposals, projected <- neo, official <- Published,
                 current <- graphCurrent

ImplementsLedger == Ledger!Spec
=============================================================================
