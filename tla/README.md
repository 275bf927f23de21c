# Verification of the job capability graph backend

TLA+ models of the backend under `src/backend/app`, the TLC configurations that
check them on small instances, and proofs, checked by TLAPS, of what holds for
every instance. `PROJECT.json` maps every definition to the lines it models and
lists the runs, the mutants, the findings, the hazards and the theorems.

## 1. The system

One FastAPI process (asyncio, one PostgreSQL connection per request), one or
more Celery workers with Redis as broker, Celery Beat, PostgreSQL (the source of
truth), Neo4j (a projection of the published job roles that users browse), a
file volume and an LLM. SQLAlchemy sessions keep loaded rows as they were
(`expire_on_commit=False`), PostgreSQL runs READ COMMITTED, Celery acknowledges
a message before its task starts. Most of the difficulty of this code follows
from these three facts: a value read before an `await` is used after it, only
changed columns are written, and a message is neither lost-proof nor unique.

| component | state it keeps | operations | what is hard | what makes it correct |
|---|---|---|---|---|
| reviews | proposals, decisions, candidate status | create from discovery, import an algorithm result, decide | decisions are read without a lock and overlap versioning and publication | the decision log explains the status and the candidate; a version traces to an approval and to a recorded definition |
| graph publication | graph versions, catalog versions, job roles, Neo4j nodes | create a draft version, publish | two stores without a common transaction, overlapping publications, retries, death in the middle | published = inserted, projected and listed; one current version; nothing published is ever disturbed |
| graph reads | none | global graph, one role, search | read two stores, one of which catalog imports never reach | the stores disagree about imported roles only |
| processing runs | `processing_runs`, messages | create+send, redispatch, mark stale, cancel, retry | commit and send are not atomic; statuses written from stale reads | a run ends; its message is not lost for ever |
| resumes | parse status, profile versions | upload, parse (worker), revise, edit, confirm, archive | duplicate workers, cancellation against completion, archive against worker | one extraction, one confirmed profile, immutable confirmed profiles, a frozen archive |
| recruitment | projects, JD drafts, requirements, candidates, match runs | submit and replace a JD, confirm, upload, parse, match | a superseded JD run overwrites a newer draft; batches lose candidates on cancel | the draft belongs to the latest run; match runs use complete candidates |
| market imports | batches, raw postings, their normalised versions | upload, import (worker), reprocess, archive, retry | chunked commits without locks, crash between chunks, two runs over one batch | counts are backed by rows; one current normalisation per row |
| discovery | discovery runs, candidates, analyses shared by all runs | create, mine (worker), clone on retry, propose | reruns delete candidates, runs analyse the same postings | every posting analysed once, a completed run keeps its candidates |
| catalog | versions, domains, capabilities, roles, aliases | import, map labels | validation and insertion in between which others commit; case folding | what is validated can be inserted and has no homonyms |
| matching, growth | match runs, growth paths | score, rank, reuse, generate | concurrent creation under a natural key; rounding and ties | one result per key, a settled ranking, scores that add up |
| authentication | users, sessions, attempts | login, logout, administer users | check-then-act around revocation, the last administrator, the failure counter | revocation reaches every session; an administrator remains |
| housekeeping | sessions, files | delete what expired | | the deletion of sessions is modelled with them |
| audit, files, system status, LGF signals, text analysis, frontend, migrations | see `PROJECT.json` | | | not modelled, with the reason there |

How they interact: discovery candidates become review proposals; an approved
proposal becomes a draft graph version with its catalog version and role;
publication writes Neo4j first and then switches, in one PostgreSQL
transaction, the current catalog and graph versions, activates the role and
closes the proposal. Resumes, JDs, candidate batches, imports and discovery all
run as processing runs: the API commits a row and then sends a message naming
it. Recommendations pin the current graph and catalog version as a watermark.

## 2. Modules

    PublicationLedger          what publication promises
      ^ implemented by (INSTANCE ... WITH, run and theorem)
    GraphPublication           reviews, versions, publication, Neo4j
      ^ MCGraphPublication     values for TLC
      ^ GraphPublicationProofs TLAPS
    ProcessingRuns             a run outside its worker
      ^ ProcessingRunsProofs   TLAPS: lemmas for the three below
      ^ ResumePipeline         the resume worker and the owner's operations
          ^ MCResumePipeline   values for TLC
          ^ ResumePipelineProofs   TLAPS
      ^ RecruitmentJD          the job description of a project and its worker
      ^ RecruitmentCandidates  its candidates and their worker
          ^ Recruitment        both, and the match runs over them
              ^ MCRecruitment  values and bounds for TLC
              ^ RecruitmentProofs  TLAPS
      ^ ImportBatches          one batch, its worker, reprocessing
      ^ Discovery              discovery runs and their worker
          ^ MarketProofs       TLAPS, of both
    WriteOnce                  what creating at most once promises
      ^ CreateOnce             growth paths and import keys (INSTANCE ... WITH, run)
    Recommendations            match runs of a resume
    CatalogImport              imports into the catalog
    Sessions                   users, sessions, failed logins, administrators
      ^ RequestProofs          TLAPS: CreateOnce, Recommendations, Sessions
    SkillMining, Normalization, MatchScoring     the pure algorithms
      ^ AlgorithmProofs        TLAPS, of all three
      ^ BackOffice             the nine modules above, side by side
          ^ MCBackOffice       values and bounds for TLC
          ^ BackOfficeProofs   TLAPS: catalog imports, and all that was proved
                               of the components
      ^ MCNormalization        the salaries of a file (Normalization only)

### GraphPublication

A request of an administrator (`req[r]`) is a record of its place in the code
and of what it has read. Everything between two awaits on another store, or
between a read and the commit that relies on it, is one action, so requests
interleave exactly where the code lets them. A graph version, its draft catalog
version and its job role are made together from one proposal and each is unique
to it by a constraint, so all three are indexed by the proposal.

| code | actions |
|---|---|
| `create_review_proposal`, `import_algorithm_job_definitions` | `CreateReviewProposal`, `ImportAlgorithmProposal` |
| `decide_review_proposal` | `DecideRead` (unlocked read, checks) and `DecideCommit` (writes the changed columns only) |
| `_apply_rows` of a catalog import, where it inserts a job role | `ImportRole` |
| `create_graph_version` | `CreateRead` (approval, name, `max(version_no)+1`) and `CreateCommit` (unique constraints) |
| `publish_graph_version` | `PublishBegin` (row lock, status, attempt), `ProjectToNeo4j` / `ProjectionFails`, `FinalizeInsert`, `FinalizeSwitch`, `FinalizeResume`, `FinalizeCommit`, `FinalizeError`, `MarkFailed` |
| process death | `Crash` |

The transaction of `_finalize_graph_version` is split at the two places where
PostgreSQL lets another transaction in. The insert of the role waits for an
uncommitted role of the same name and fails on a committed one. The `UPDATE`
that demotes the current catalog sees the rows current when it starts, waits
for whoever holds them, and its own new current row then meets the partial
unique index on `is_current`. A projection error may be raised before or after
Neo4j committed; an API death rolls an open transaction back and leaves the
committed steps.

Catalog imports insert job roles too, candidates or active ones, and project
none of them (`ImportRole`, `imported`). A name is a pair of domain and name without
its case (`Folded`) and exact spelling: `CreateRead` compares the first with every
job role of any status, the unique constraint compares both. A catalog import also
takes a catalog version number, so a creation that was overtaken by one is refused.

Abstracted: a role definition is one of a few values with a name
(`RoleName`); capabilities and relations of a role, authors, texts, timestamps,
the snapshot's hash and the audit rows are left out.

### ProcessingRuns and ResumePipeline

`run[n]` is a row of `processing_runs`: its status, whether `celery_task_id` is
set (`sent`), `cancel_requested` (`flag`), whether its heartbeat is older than
five minutes (`silent`) and `total_count`. `queue[n]` counts the messages that
name it. The API's steps are `NewRun`, `Send`, `Record` (creation: commit, send,
commit), `CancelRead` and `CancelCommit`, and `RetryRun`; Beat's are
`Redispatch`, `RedispatchCommit`, `MarkStaleRead`, `MarkStaleCommit`. `LoseMessage`
is a worker that dies after the early acknowledgement.

`ResumePipeline` adds one resume. The worker's first transaction (under the
resume's lock) is one of `StartIgnored`, `StartCancelled`, `StartReuse` and
`StartParse`; then it holds no lock while it reads the file and asks the LLM;
`ParseEnds` reads the run again; `Persist` or `WorkerCancels` is the last
transaction, `PersistFails`/`ParseFails` lead to `WorkerFails` (`_fail_run`).
The check constraints of the two tables are modelled where a write can violate
them (`CountRefused`, `ArchiveRefused`). A status equal to the one the session
has loaded is not written, which `done` remembers. The owner's operations hold
the resume's lock from first read to commit and are single actions: `Archive`,
`Revise`, `Replace`, `Confirm`.

Abstracted: the content of a profile is one of a few values; stages other than
their heartbeat, counts other than `total_count`, `latest_run_id`, idempotency
keys and files. The status `waiting_review` is declared in the code and never
written, so it is not a status of the model.

### Recruitment

`jd` holds the columns of one project that concern its job description, `jdTask[w]`
what a worker has loaded; a job description is named by the run submitted with
it, so that one can tell from which one a draft was extracted (`draft.of`) and
which run stored it (`draft.by`). The HR's operations hold the project's lock and
are single actions: `SubmitJD`, `ReplaceRequirements`, `ConfirmRequirements`. The
worker's first transaction is `JDStartIgnored`, `JDStartSuperseded` or `JDStart`;
after it nothing is locked: `JDExtract` stores the text of a file, `JDPersist`
the draft. A failure inside a transaction (`JDFails`) rolls it back, which expires the
rows, so `_fail_run` reads them again (`JDFailRead`) before it commits
(`JDFailCommit`). A failure with no transaction open, the LLM's above all
(`JDFailsAsLoaded`), expires nothing: `_fail_run` goes by the rows the worker has
loaded and so may mark failed a project that has another run by now.

`RecruitmentCandidates` has the batch worker's loop: between two candidates the
run is refreshed (`Proceeds`, `BatchCancels`); a candidate is taken under its lock
(`TakeReady`, `TakeToParse`), then parsed without one, then stored
(`StoreProfile`) or failed (`ParseFailed`). The second `SELECT ... FOR UPDATE`
returns the object the session already holds, so the owner the worker compares
at the end is the one it wrote itself; the model therefore has no such check.
`RUN_SUPERSEDED` and database errors roll a transaction back, which expires the
loaded run, and `_fail_candidate` dies reading it: `TakeSuperseded` and
`StoreFails` end the task and leave the run running.

`Recruitment` adds `CreateMatchRun`, one action because it holds the locks of the
project and of all its candidates. Abstracted: the content of a draft is one of
two values, with and without a mapped required skill; ranking, idempotency keys,
files and audit are left out; two submissions count as two texts.

### ImportBatches

`importBatch` is the row of the batch, `raws[i]` the normalised versions of row
`i` of the file (only `is_current` of each), `importer[w]` what a worker's session
has loaded. A worker takes no lock, commits every `ChunkSize` rows and writes, at a
commit, the columns that differ from those it loaded (`Flush`). `ImportTake`
chooses what the run does from the batch's status: settle (`_finish_existing`),
reopen (`_reprocess_existing`) or import (`ImportStart`, `ImportParsed`,
`ImportChunk`, `ImportFinish`); `ImportCancel` and `RenormCancel` are the checks of
`cancel_requested`, which a chunk can pass once a row of it holds the run's lock
(`Overlooks`). A collision with `uq_raw_job_batch_row` or
`uq_normalized_job_current` raises out of the task (`Dies`): the run stays running.
The content of a row is one of accepted, accepted with a warning, rejected.

### Discovery

`discovery[n]` is the discovery run of processing run `n`: a retry clones the one of
the run it retries, which is also why a retry of a retry that never started ends
`DISCOVERY_RUN_NOT_FOUND` (`MinerTake`). `MinerLoads` deletes the candidates,
`MapChunk` and `MapRest` analyse the postings not yet analysed by anybody (a
collision ends the task), `MinerEnds` stores outcome and candidates, if mining came to
any, in one commit.
`started` counts the workers that have begun a run: history for the property.

### CreateOnce, Recommendations

`CreateOnce` is the two endpoints that look for a row, work without a lock and
insert under a unique key: `create_or_reuse_growth_path` and the idempotency key of
`create_import`. It implements `WriteOnce`: a key is given one value for ever, and
whoever is answered gets it and asked with its body. The loser of the race gets an error in the model: `db.rollback()`
expires `actor`, and reading `actor.id` again fails. `create_or_reuse_recommendations` has the same handler, but `Recommendations`
shows that it is never reached: `get_visible_resume(..., for_update=True)` holds the
resume from the watermark to the commit. Publishing takes other locks and may come
in between; the run then keeps the older graph version it was asked for.

### CatalogImport

A request validates its rows (`ValidateUpload`), reads the highest version number
(`ReadVersionNo`) and inserts (`InsertUpload`); others commit in between: imports,
new graph versions (`GraphVersionCreated`, which raises the version), and their
publication (`RolePublished`, which later inserts the role and raises none). A name is a pair of what `casefold` makes of
it and its spelling: the validation compares the first, the constraints both.
`create_catalog_import` runs once per entity type; the other type lies in other tables.

### Sessions

A request reads its target (`ReadLogin`, `ReadCreate`, `ReadTarget`) and commits
later what it has concluded (`CommitLogin`, `CommitCreate`, `CommitChange`);
`CheckUpdate` locks the rows of the active administrators, which is modelled as a
lock per user row held to the commit. `changes` in a user row counts the changes that
revoke sessions, and a session remembers the count at its insertion: history. A
username is the user, everybody has one address, `hr` is as `applicant`.

### SkillMining, Normalization, MatchScoring

Operators without state. Identifiers are numbers in the order of their text; a
mining score is in units of 1/10000, a match score of 1/100, and what the code
computes with `Decimal` is an exact fraction until it is rounded half up. A salary is
the numbers in its text, each with its unit; a date text its form and parts. Texts
the parsers do not split (CSV, JSON, garbled text) enter as flags. A definition of an
algorithm result with fewer than two required capabilities of one domain is skipped
(`Proposed`).

### BackOffice

These components share no state their properties depend on, so a behaviour of
`BackOffice` runs one of them (`part`) or gives one input (`input`) to one
algorithm. Imports and discovery share `ProcessingRuns`, each with runs of its type.

## 3. Runs

| run | instance | shows |
|---|---|---|
| `publication_safety` | 2 proposals (one mined, one imported), 3 requests of which two decide, 2 definitions with different names, 1 job role of a catalog file with the name of one of them, 1 decision on each proposal or 3 on one alone, 2 attempts per version, crashes | the type invariant, seven safety invariants, `VersionNosGrow`, `PublishedIsForever` and the refinement `ImplementsLedger` |
| `publication_settles` | 2 proposals, 2 requests, 2 attempts, no crashes, fairness | a version does not stay `publishing` |
| `published_read_only` | 1 proposal, 2 deciding requests | violated: finding 1 |
| `catalog_complete` | 2 proposals, 2 requests | violated: finding 2 |
| `resume_safety` | 2 runs (an upload and a retry), 2 workers, 1 request at a time, 2 contents, 2 profiles, 1 message per run, crashes | the type invariant, three safety invariants, `ConfirmedIsImmutable`, `ArchivedIsFrozen` |
| `resume_settles` | 1 run, 2 messages of it, 2 workers, failing broker, crashes, fairness | a run does not stay `running` |
| `retried_run_ends` | 2 runs, 1 worker, no crashes | violated: finding 3 |
| `pending_ends` | 1 run, failing broker, no crashes, fairness | violated: finding 4 |
| `recruitment_safety` | 2 runs of either kind, 1 JD worker, 2 batch workers, 2 candidates, 2 drafts, 1 confirmation, workers may die in a task | the type invariant, three safety invariants and `OwnershipMovesOn` |
| `draft_of_current_jd` | 2 runs, 2 JD workers | violated: finding 5 |
| `back_office` | 2 runs, 1 request for runs, 2 workers, a file of 3 rows in chunks of 2, 3 postings in chunks of 2, 3 clients, 2 profiles and 2 graphs, 2 uploads of files of up to 2 rows, 2 users, 2 requests about them, 1 session, 2 failures, and the inputs of the algorithms | the type invariant, fourteen invariants and `ImplementsWriteOnce` |
| `salary_ranges` | two amounts out of five, four units, with and without a number of salaries | violated: finding 6 |

What `back_office` shows of each component: `OneCurrentVersion` and `CountsAreBacked`
of imports; `CompletedDiscoveryIsWhole`; `ImplementsWriteOnce` and
`MatchRunsNeverConflict` of creation; `ValidatedRowsFit` of catalog imports;
`AdminsOutlastChecks`, `RevocationIsComplete`, `GuessesAreBounded` of users. Of the
algorithms: the two implementations of label mapping never disagree
(`LabelsAgree`), a limit never cuts off a better pair (`MinedAreBest`), an imported
proposal meets what publication demands (`ProposalsPublishable`), a row meets the
constraints of its table but for finding 6 and a date is the latest such day
(`RowNormalizes`), a score adds up, is monotone in evidence, experience and
education and gives a profile that lacks nothing its due (`ScoresAddUp`), and a
ranking does not depend on the order of the rows (`RankingIsSettled`).

**Why these bounds.** Every conflict in publication is between two versions (same
name, same number, both becoming current), between two requests on one version, or
between a version and a role imported under its name; two proposals and three
requests give the first two at once, and the role of the catalog file has the name
of one definition and not of the other. Two definitions make names both collide and
differ; two attempts give the retry. Three decisions of two reviewers give an approval
and a rejection that were read together, a revision between them, and a version created
in the middle; the constraint `ReviewsApart` keeps a proposal that is decided on more than once alone, since neither
another proposal nor an imported role plays a part in reviews. For the safety
properties the proofs of section 5 remove the bounds. In the resume model two
runs are the interesting number (the one that was slow and its retry), two
workers on one run need a duplicate message, which `resume_settles` and the
redispatch of `resume_safety` both produce, and two profiles give the confirmed
one and its successor. In the recruitment model the two runs are two submissions, a submission and its
retry, a batch and its retry, or one of each, which a match run needs. Two
constraints of `MCRecruitment` keep it small: `Separately` uploads candidates to a
project without a job description or with a confirmed one at rest (the two sides
share no variable but the runs until they are matched), and `OneUpload` uploads
both candidates together (two batches share nothing). In the back office two
workers on two runs give an import and its retry, two reprocessings, and a
discovery with its retry over the same postings; three rows in chunks of two give a
full chunk and a rest, with each kind of row. Three clients give a loser of the
race and one that comes later. Two requests about two users give two administrators
who end each other, and a login under way during a change. Two constraints keep
it small: `NoRedispatch` leaves out Beat's redispatch, which `resume_safety` has,
and `GuessesApart` keeps failed logins apart from changes of users (they share only
the requests). The algorithms' inputs contain every tie and threshold of the code
that two or three items can reach. Deadlock is not checked:
the system rests when no user asks for anything.

**Symmetry** is declared for requests that do not decide, reviewers, runs, requests,
workers and users, only in runs without liveness properties.

**Fairness.** `GraphPublication`: weak fairness of each request's own steps;
asyncio runs every ready task. Nobody is obliged to review or to publish.
`ResumePipeline`: weak fairness of request and worker steps, of Beat's two tasks
(started every minute) and of the passing of time (`FallSilent`); strong
fairness of the stale task's commit, because the task may be killed again and
again but not in each of its runs. Owners have none.

**What the liveness properties do not say.** A process that dies after the commit
of `publishing` leaves its version `publishing`, and nothing in the code
recovers it, so `PublicationSettles` is checked without crashes. A run that is
`cancel_requested` when its worker dies is seen by no periodic task, so
`RunningEnds` speaks of `running` only. Both are listed as hazards.

**Mutants.** Each property of a passing run is broken by a mutant of a mapped
definition, given beside the definition it replaces and marked `Mutant`.

## 4. Findings

1. *A published proposal is rewritten* (`published_read_only`). `decide_review_proposal`
   reads without a lock; a decision that commits after the publication overwrites
   the final status. `README.md:403` calls `published` a read-only final state.
2. *The current catalog misses an active role* (`catalog_complete`).
   `_finalize_graph_version` reads the active roles before it waits for the
   current catalog's row. `README.md:440` calls the new catalog complete.
3. *A retried run never ends itself* (`retried_run_ends`). `retry_run` does not copy
   `total_count`; `processed_count = 1` then violates the check constraint in the
   success path and in `_fail_run`, and the run stays `running` until it is
   marked stale. The design (`docs/superpowers/specs/2026-08-06-resume-profile-design.md:750-758`)
   ends it `completed` or `failed`.
4. *A pending run is never delivered* (`pending_ends`). `redispatch_pending_runs`
   sends before it commits; the worker drops the message of a run that still
   reads `enqueue_failed`, and the commit makes it pending and sent. The detailed
   design (line 4604) has Beat redeliver such runs.

5. *A project gets the draft of an older job description* (`draft_of_current_jd`).
   The JD worker checks whose project it is at its start only, and a cancelled
   run lets a new submission in while its worker still runs. The recruitment
   design (`docs/superpowers/specs/2026-08-07-hr-recruitment-design.md:1280`) says that
   an old run cannot overwrite the new draft.

6. *A stated salary is refused* (`salary_ranges`). `normalize_salary` has one
   multiplier for both ends and does not know the unit of a thousand: `6k` to `1.2`
   ten thousand becomes 60000 to 12000, and an amount followed by a number of
   salaries takes it for its upper end. The table's `salary_range` (detailed design,
   line 1085) refuses the row and the import of the whole file dies; more than two
   thousand rows of `data/merged_data/job51` read like this.

Met and not given a run:

- An approval read before a revision and committed after it writes the status only: the
  log says that the old definition was approved, the proposal carries the new one, and
  the version freezes that (`README.md:21` speaks of a graph that has passed review).
  It is the race of finding 1, met before the publication instead of after it.
- A catalog import makes job roles active and projects nothing, so that
  `get_job_role_graph` answers `GRAPH_PROJECTION_INCONSISTENT` for them (`README.md:480`
  reads the graph of a single active job role). `OnlyImportsAreUnreadable` has them as
  the only exception.
- A slow worker may mark a candidate failed that a retry has made ready, so that a
  failed candidate can have a profile (the recruitment design, line 279, says it has none).
- The detailed design's run states (lines 4571-4592) make `completed`, `failed` and
  `cancelled` terminal; `Record`, `CancelCommit` and the worker may overwrite them.
  Its publication leases (lines 1822, 2551, 2777, 5203) do not exist in the code.
- The last administrator can be removed by a request whose target became one after
  it was read (detailed design, line 662: not allowed).
- A login that overlaps a password reset leaves a session that was verified with the
  old password; a user insertion that fails at its flush answers 500.
- The losers of the race for a growth path or an import key answer 500: the rollback
  expires the user they name in their answer.
- An import that crashed after its first chunk can never be retried: the retry
  collides with the rows it finds. A cancelled retry leaves the batch `partial`
  with counts of its own; a run that overlaps an archiving un-archives the batch;
  reprocessing a batch that was never imported imports it.
- The retry of a discovery retry that no worker took ends `DISCOVERY_RUN_NOT_FOUND`;
  a duplicate worker can leave a completed discovery without candidates.
- `normalize_date` raises for 29 February collected in January or February of a leap
  year; a range of years written backwards violates the table like finding 6.
- A catalog row whose alias text repeats an alias is called valid and refused by the
  table, and the stored file stays on the disk; a stale validation lets in names that
  differ in case only.
- Two skills of a resume mapped to one capability: whichever row is read last counts.
  Another skill with weak evidence can lower a total.

## 5. Proofs

Eight modules hold theorems. What the runs check on small instances is proved for
all values of the constants that satisfy the named assumptions (`ASSUME`, evaluated
by TLC in every run): any number of requests, workers, runs, messages, retries,
versions, rows, files and users, with no bound but those the actions name.

| module | proves |
|---|---|
| `GraphPublicationProofs` | ten properties of publication and the decision log, and the refinement of `PublicationLedger` |
| `ProcessingRunsProofs` | lemmas: what the steps outside a worker do to a run |
| `ResumePipelineProofs` | the four invariants, `ConfirmedIsImmutable`, `ArchivedIsFrozen` |
| `RecruitmentProofs` | the four invariants and `OwnershipMovesOn` |
| `RequestProofs` | `MatchRunsNeverConflict`, that `CreateOnce` implements `WriteOnce`, `RevocationIsComplete`, `AdminsOutlastChecks`, `GuessesAreBounded` |
| `MarketProofs` | lemmas: what the steps of imports and of discovery preserve |
| `AlgorithmProofs` | lemmas: labels, rows, scores, rankings, proposals and mined pairs have their property on every input |
| `BackOfficeProofs` | the properties of imports, discovery, catalog imports and the algorithms; all of these for the composition the run checks |

Few of the properties are inductive. Each proof has an inductive invariant that says
what the steps in flight rely on, a lemma per action (or group of actions), and the
listed theorems by PTL.

**Publication.** `CurrentVersionsAgree` at the commit of a publication depends on
what the request demoted, which depends on who held the rows when it read them.
`IInv` adds:

- `Ownership`: a request inside a publication is the only one there for its
  version, and its version is `publishing`;
- `Carried`: what a request has read of the roles still holds (its list of roles
  contains its own and only active ones beside it), and from `finalize` on its
  node is in Neo4j;
- `Switching`: at most one transaction holds the rows of the switch, and it has
  demoted every current row;
- `Official`: published, active, projected and listed are one;
- `NamesReserved`: two transactions in flight, or one in flight and a job role of
  any status, imported ones included, never share a name;
- `Numbers`: the numbers given are those up to the largest, and a creation in flight
  carries one no larger than the next; so a number that is still free when the
  creation commits exceeds every other (`VersionNosGrow`);
- `CurrentVersionsAgree` itself.

The refinement uses `IInv` in its step: a commit publishes an item that is projected
and not yet official.

**The decision log.** `decide_review_proposal` takes no lock. Of two overlapping
decisions the second writes only the columns it has changed, so that the log does not
say which definition was approved (section 4) or that a published proposal stays as it
is (finding 1). What it does account for is proved without any hypothesis on the
reviewers. `ReviewHistoryExplains`: a request that decides has read an undecided or
revised proposal (`DecisionsRead`), so an approval or a rejection always writes its
status, and only a revision that was itself read under revision leaves one standing;
the candidate is written last, under the lock the flush has taken, and is what the last
revision or rejection made of it. `VersionsTraceToReviews`: the log never loses an
entry; a proposal that reads approved has an approval in it, a definition in the
proposal, or read by a creation, was recorded by some decision once there is one
(`PayloadsRecorded`, `CreationsTraced`). That a published proposal is never rewritten is
proved under `[]DecisionsDoNotOverlap` only (`ReadOnlyUnlessOverlap`): the code does not
ensure it, and the theorem says that finding 1 has no other cause. `OneReviewer` shows
that a deployment which reviews one request at a time meets the hypothesis.

**Resumes.** Profiles are only added at the end and keep their base (`Grows`), so a
worker that has found a profile is not deceived (`Remembered`). Only `Persist` and
`StartReuse` complete a run and only under the resume's lock, with a profile there;
every other step is `Modest`. `OneExtracted` holds because `Persist` looks again under
the lock. `ArchivedIsFrozen` and `ConfirmedIsImmutable` follow action by action.

**Recruitment.** The two halves of a project share only the runs, and the type of a
run never changes, so a step of one half leaves the other's invariants alone
(`JDSound`, `BatchesSound`). A run of a job description has no candidates. A batch
completes what it has handled without a failure, and what it has handled has a profile
because no profile is ever removed (`ProfilesGrow`): workers that overlap, and owners
that change, cannot take it away. `OwnershipMovesOn` needs no invariant but the typing.

**Imports and discovery.** Both use the table of runs, so the steps of each must leave
it as the other needs it (`MarketInv`). A posting is analysed once because a second
analysis dies of the unique key; what is analysed stays so, and a worker has gone
through all postings before it completes (`MinerSound`); a completed discovery loses
its candidates only to a worker that started the same run a second time
(`StartsCounted`). Rows are only added, one version at a time, and the one that was
current ceases to be. The counts are the hard part, as a session writes back the
columns it changed and keeps the others: `CopyBacked` holds of the batch and of every
session's copy column by column, so that no mixture of them claims a row that is not
there.

**Catalog imports.** `NothingTaken` says what validation has found: no name and no
alias of the valid rows, folded, is in the catalog or in another of the rows. It stays
true of a request until another version commits (`IsCurrent`), but for roles that a
publication has inserted meanwhile (`published`): these take their own name only, so
unless one has the name of a row (`PublishedSince`) the rows still fit. That the table's constraints
and the absence of homonyms follow is a matter of cardinalities. Which rows are valid
is defined row by row; that there is such a set (`ValidationSettles`) is proved by
taking the first row at which there would be none.

**What is created once.** `OneHolder`: whoever is past the watermark holds the resume's
row; `Settled`: so what it read of the profile still holds, and from the look-up on no
run with its key exists. `WellAsked`: a request under way has a key and a body; a step
of `CreateOnce` is, seen through the answers, `Create`, `Reuse`, `Dismiss` or a
stutter of `WriteOnce`.

**Users.** `Known`: a user that exists is never created again, so the number of its
changes only grows; the step that raises it revokes every session that counts fewer.
`Kept`: the administrator found by the check is a row whose lock the request holds
until it commits. `GuessInv`: below the limit every answer to a guess is one of the
failures; from the limit on nobody joins those who are still guessing, and one of them
has brought it there.

**Algorithms.** `InputInv`: what an algorithm is given is one of its inputs, of which
the assumptions of `BackOffice` say only that they are well-formed (a salary and an
experience are stated from low to high, the collection is a date, an identifier is
ranked once, a posting has finitely many capabilities and a quality of 0 to 100, a
required capability has a domain, a proposal may name at least two capabilities, a
skill has one of three kinds of evidence, a requirement a positive importance, and a
role asks for a known education or none, as the schemas and publication enforce).

- Labels: a label that names exactly one capability, or is the alias of exactly one
  and names none, is the one the index keeps.
- Rows: by cases on the amounts, the form of the experience and the date; the score
  loses at most 20, 20 and 25 points.
- Scores: a sum is the number of its points (`Points`), so a sum over fewer or smaller
  terms is no larger (`TotalRises`, by `FS_Subset`) and one of terms m times as large is
  m times as large (`TotalScaled`, a bijection); hence a matched importance is at most
  the whole and evidence between 4 and 10 tenths of it (`EvidenceBetween`), and each
  part is a share of 1 (`FractionsShared`). `Quantized` keeps the order of fractions
  (`QuantizedGrows`) and is off by half a hundredth at most (`QuantizedBounds`). Over
  their common denominator the parts are integers (`CommonDenominator`), in which the
  total is linear: so it is in bounds, near the displayed parts (`PartsWeighed`), at
  least 71 points for a complete profile (`CompleteScores`) and grows with each part
  (`TotalGrows`). What is better in a profile raises one part and leaves the others
  (`BetterScores`). The fractions are exact; that 28 digits round like them is assumed.
- Rankings: the sort key is a strict order on values with different identifiers, so a
  value's place is the number of values before it, which is a bijection that no
  reordering of the list changes.
- Sorting: a sort is `InOrder` of what comes before each element, a selection
  `Arranged` by it. Where that is an order on finitely many elements (`IsOrder`), the
  numbers of elements before them are distinct and fill `0 .. n - 1` (`PlacesFilled`),
  so each element is at one place after all that come before it (`OrderListed`).
- Proposals: some domain has the most required capabilities (`DominantTaken`, the least
  number by which one falls short of all of them), so the core is of one domain; it has
  two capabilities as soon as two share any domain (`HasPair`), since theirs has no
  fewer; first occurrences do not repeat, and the bonus leaves the core out.
- Mined pairs: two capabilities are found again from the least and the greatest of them,
  so that scores, support and identifiers order the candidates totally. A score is a
  quotient rounded to 0 to 1 (`RoundedWithin`); it falls as the denominator grows
  (`RoundedFalls`), and the postings asking for either capability are no more than all
  of them (`UnionBetween`), so coherence is never below support; a weighted mean,
  rounded, does not exceed the largest part (`BlendBelowBest`).

**Composition.** `BackOfficeProofs` shows that every step of `BackOffice` is a step of
the component or leaves its variables alone (`ComponentsRun`), and so carries the
theorems over to the specification the run checks.

Every safety property of the runs that pass is stated by a theorem; only the liveness
properties `PublicationSettles` and `RunningEnds` are model-checked alone. Out of the
prover's reach: liveness under fairness, `ENABLED`, induction over data by the
library's theorems (they take operators as parameters; where a least counterexample, a
bijection or an order on positions does, it was used) and modules with `RECURSIVE`
operators, of which this project has none.

## 6. Not modelled

Text extraction and prompts (`resumes/analysis.py`, `recruitment/llm.py` and their
like): string processing whose result the models choose freely. Files: their
visibility is a predicate over rows their owners write, and streaming is I/O.
Audit rows are appended in the transaction they describe and never read back. LGF
signals are numeric and only displayed. The lists and reads of every component
change nothing. Middleware, settings and drivers configure what the models assume:
READ COMMITTED, early acknowledgement, sessions that keep what they loaded.
Migrations repeat the constraints of the models; of the scripts, `create_user.py`
is the start of `Sessions` and the others load data once.

## 7. Plan

Every property a run checks and the prover can reach is stated by a theorem. What
could be added is what section 6 and the notes of the partly modelled components in
`PROJECT.json` name. A run is added only for a question no run asks yet.
