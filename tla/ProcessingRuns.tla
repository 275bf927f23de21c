---------------------------- MODULE ProcessingRuns ----------------------------
(***************************************************************************)
(* The life of a ProcessingRun outside its worker: the request that        *)
(* creates it commits the row first and sends the Celery message second,   *)
(* Celery Beat redispatches what was not sent and fails what went silent,  *)
(* and users cancel and retry.  Statuses are written without row locks:    *)
(* a value read before an await is used after it.                          *)
(*                                                                         *)
(* The worker of a run type is a module that extends this one.             *)
(***************************************************************************)
EXTENDS Naturals, Sequences, FiniteSets

CONSTANTS
    Runs,             \* processing_runs rows
    Requests,         \* concurrent HTTP requests
    MaxMessages,      \* bound: messages of one run in the queue
    SendsMayFail,     \* whether the broker may be unreachable
    CrashesAllowed,   \* whether the API, Beat and idle workers may die
    TasksMayDie       \* whether a worker may die in a task

NoRun == "none"

ASSUME RunConstants ==
    /\ NoRun \notin Runs
    /\ MaxMessages \in Nat
    /\ SendsMayFail \in BOOLEAN
    /\ CrashesAllowed \in BOOLEAN
    /\ TasksMayDie \in BOOLEAN

VARIABLES
    run,       \* the processing_runs table
    queue,     \* queue[n]: messages naming run n the broker holds
    request,   \* what each HTTP request has read and does next
    batch,     \* what redispatch_pending_runs has sent and not yet committed
    stale      \* the runs mark_stale_runs has read and not yet committed

lifeVars == <<run, queue, request, batch, stale>>

Status == {"absent", "pending", "enqueue_failed", "running",
           "cancel_requested", "completed", "failed", "cancelled"}
\* reprocess_market_jd is import_market_jd with reprocess in its input.
RunType == {"parse_resume", "parse_recruitment_jd",
            "parse_recruitment_candidates", "import_market_jd",
            "reprocess_market_jd", "discover_skill_combinations"}
Ended  == {"completed", "failed", "cancelled"}

\* type: run_type; retryOf: retry_of_run_id; sent: celery_task_id is set; flag: the column
\* cancel_requested; silent: no heartbeat for five minutes; total: total_count,
\* 0 or (1) as many as the run has items.
Run == [status : Status, type : RunType \cup {NoRun}, retryOf : Runs \cup {NoRun},
        sent : BOOLEAN, flag : BOOLEAN, silent : BOOLEAN, total : 0 .. 1]
RunRow(status, type, retryOf, total) ==
    [status |-> status, type |-> type, retryOf |-> retryOf,
     sent |-> FALSE, flag |-> FALSE, silent |-> FALSE, total |-> total]
AbsentRun == RunRow("absent", NoRun, NoRun, 0)
PendingRun(type, retryOf, total) == RunRow("pending", type, retryOf, total)

IdleRequest == [pc |-> "idle", run |-> NoRun, seen |-> "absent", ok |-> TRUE]
\* reprocess, archive: what ImportBatches adds.
Request == [pc : {"idle", "send", "record", "cancel", "reprocess", "archive"},
            run : Runs \cup {NoRun},
            seen : Status, ok : BOOLEAN]
Sent == [run : Runs, seen : {"pending", "enqueue_failed"}, ok : BOOLEAN]

LifeTypeOK ==
    /\ run \in [Runs -> Run]
    /\ queue \in [Runs -> Nat]
    /\ request \in [Requests -> Request]
    /\ batch \subseteq Sent
    /\ stale \subseteq Runs

LifeInit ==
    /\ run = [n \in Runs |-> AbsentRun]
    /\ queue = [n \in Runs |-> 0]
    /\ request = [r \in Requests |-> IdleRequest]
    /\ batch = {}
    /\ stale = {}

\* A row with another status.  silent matters while a run is running, and
\* to be running again it has a new heartbeat.
Written(m, status) == [m EXCEPT !.status = status, !.silent = FALSE]

SetStatus(n, status) == run' = [run EXCEPT ![n] = Written(@, status)]

\* A session writes a status only where it differs from the one it has loaded.
Overwritten(n, loaded, status) ==
    IF loaded = status THEN run[n] ELSE Written(run[n], status)

\* The check processed_count <= total_count, when processed_count is set to 1.
CountRefused(n) == run[n].total < 1

\* What a worker asks to find out that its run is to be cancelled.
CancelSeen(n) == run[n].flag \/ run[n].status = "cancel_requested"

\* A worker takes a message of a run.
Receive(n) == queue[n] > 0 /\ queue' = [queue EXCEPT ![n] = @ - 1]

-----------------------------------------------------------------------------
(* Creation and retry                                                      *)

\* The first commit of a creation: the row is pending, nothing is sent.
NewRun(r, n, type, retryOf, total) ==
    /\ request[r].pc = "idle"
    /\ run[n].status = "absent"
    /\ run' = [run EXCEPT ![n] = PendingRun(type, retryOf, total)]
    /\ request' = [request EXCEPT ![r] = [IdleRequest EXCEPT !.pc = "send",
                                                             !.run = n]]
    /\ UNCHANGED <<queue, batch, stale>>

\* retry_run's new row copies the input of the old one; total_count is not
\* among the copied columns and takes the column's default.
RetryTotal(old) == 0

RetryRun(r, old, new) ==
    /\ run[old].status \in {"failed", "enqueue_failed"}
    /\ NewRun(r, new, run[old].type, old, RetryTotal(old))

\* celery_app.send_task: an error does not mean that nothing was queued.
Send(r) ==
    LET n == request[r].run
    IN  /\ request[r].pc = "send"
        /\ \E ok \in {TRUE} \cup (IF SendsMayFail THEN {FALSE} ELSE {}) :
             /\ request' = [request EXCEPT ![r].pc = "record", ![r].ok = ok]
             /\ \/ queue[n] < MaxMessages /\ queue' = [queue EXCEPT ![n] = @ + 1]
                \/ ~ ok /\ UNCHANGED queue
        /\ UNCHANGED <<run, batch, stale>>

\* The second commit writes the task id, or enqueue_failed over whatever the
\* status has become.
Record(r) ==
    LET n == request[r].run
    IN  /\ request[r].pc = "record"
        /\ IF request[r].ok THEN run' = [run EXCEPT ![n].sent = TRUE]
                            ELSE SetStatus(n, "enqueue_failed")
        /\ request' = [request EXCEPT ![r] = IdleRequest]
        /\ UNCHANGED <<queue, batch, stale>>

-----------------------------------------------------------------------------
(* Cancellation                                                            *)

\* get_visible_run reads the row without a lock ...
CancelRead(r, n) ==
    /\ request[r].pc = "idle"
    /\ run[n].status \in {"pending", "running"}
    /\ request' = [request EXCEPT ![r] = [IdleRequest EXCEPT !.pc = "cancel",
                                          !.run = n, !.seen = run[n].status]]
    /\ UNCHANGED <<run, queue, batch, stale>>

\* ... and cancel_run writes what follows from the status read: a pending run
\* is cancelled without its cancel_requested flag.  Any other status is left.
CancelCommit(r) ==
    LET n == request[r].run
    IN  /\ request[r].pc = "cancel"
        /\ IF request[r].seen = "pending"
           THEN SetStatus(n, "cancelled")
           ELSE run' = [run EXCEPT ![n] =
                          [Written(@, "cancel_requested") EXCEPT !.flag = TRUE]]
        /\ request' = [request EXCEPT ![r] = IdleRequest]
        /\ UNCHANGED <<queue, batch, stale>>

-----------------------------------------------------------------------------
(* Celery Beat                                                             *)

Redispatchable(n) ==
    run[n].status \in {"pending", "enqueue_failed"} /\ ~ run[n].sent

\* redispatch_pending_runs reads the unsent runs and sends each of them; the
\* messages are in the queue before anything is committed.
Redispatch(ok, lost) ==
    LET due == {n \in Runs : Redispatchable(n)}
    IN  /\ batch = {} /\ due # {}
        /\ ok \subseteq due
        /\ ok = due \/ SendsMayFail
        /\ lost \subseteq due \ ok
        /\ \A n \in due \ lost : queue[n] < MaxMessages
        /\ batch' = {[run |-> n, seen |-> run[n].status, ok |-> n \in ok] : n \in due}
        /\ queue' = [n \in Runs |-> IF n \in due \ lost THEN queue[n] + 1 ELSE queue[n]]
        /\ UNCHANGED <<run, request, stale>>

\* The one commit at its end.  A status equal to the one read is not written.
Redispatched(m, s) ==
    CASE s.ok /\ s.seen = "enqueue_failed" ->
            [Written(m, "pending") EXCEPT !.sent = TRUE]
      [] s.ok /\ s.seen = "pending" -> [m EXCEPT !.sent = TRUE]
      [] ~ s.ok /\ s.seen = "pending" -> Written(m, "enqueue_failed")
      [] OTHER -> m

RedispatchCommit ==
    /\ batch # {}
    /\ run' = [n \in Runs |->
                 IF \E s \in batch : s.run = n
                 THEN Redispatched(run[n], CHOOSE s \in batch : s.run = n)
                 ELSE run[n]]
    /\ batch' = {}
    /\ UNCHANGED <<queue, request, stale>>

\* Five minutes pass without a heartbeat of a running run.
FallSilent(n) ==
    /\ run[n].status = "running"
    /\ ~ run[n].silent
    /\ run' = [run EXCEPT ![n].silent = TRUE]
    /\ UNCHANGED <<queue, request, batch, stale>>

\* Mutant: only runs whose dispatch was not recorded are looked at.
IsStaleUnsent(n) == run[n].status = "running" /\ run[n].silent /\ ~ run[n].sent

\* mark_stale_runs, up to and from its commit.
IsStale(n) == run[n].status = "running" /\ run[n].silent

MarkStaleRead ==
    /\ stale = {}
    /\ stale' = {n \in Runs : IsStale(n)}
    /\ stale' # {}
    /\ UNCHANGED <<run, queue, request, batch>>

MarkStaleCommit ==
    /\ stale # {}
    /\ run' = [n \in Runs |-> IF n \in stale THEN Written(run[n], "failed")
                                            ELSE run[n]]
    /\ stale' = {}
    /\ UNCHANGED <<queue, request, batch>>

-----------------------------------------------------------------------------
(* Failures                                                                *)

\* The API process dies, or the connection of one request does.
RequestCrash(r) ==
    /\ CrashesAllowed
    /\ request[r].pc # "idle"
    /\ request' = [request EXCEPT ![r] = IdleRequest]
    /\ UNCHANGED <<run, queue, batch, stale>>

\* The process running Beat's tasks dies before their commit.
MaintenanceCrash ==
    /\ CrashesAllowed
    /\ batch \cup stale # {}
    /\ batch' = {} /\ stale' = {}
    /\ UNCHANGED <<run, queue, request>>

\* Celery acknowledges a message before its task starts: a worker that dies
\* in between loses it.
LoseMessage(n) ==
    /\ CrashesAllowed
    /\ queue[n] > 0
    /\ queue' = [queue EXCEPT ![n] = @ - 1]
    /\ UNCHANGED <<run, request, batch, stale>>

-----------------------------------------------------------------------------
\* Steps the system takes by itself.
RequestStep(r) == Send(r) \/ Record(r) \/ CancelCommit(r)
RedispatchStep ==
    \/ \E ok, lost \in SUBSET Runs : Redispatch(ok, lost)
    \/ RedispatchCommit
MarkStaleStep == MarkStaleRead \/ MarkStaleCommit

LifeNext ==
    \/ \E r \in Requests : RequestStep(r) \/ RequestCrash(r)
    \/ \E r \in Requests, n \in Runs : CancelRead(r, n)
    \/ RedispatchStep
    \/ MarkStaleStep
    \/ \E n \in Runs : FallSilent(n) \/ LoseMessage(n)
    \/ MaintenanceCrash
=============================================================================
