------------------------- MODULE ProcessingRunsProofs -------------------------
(***************************************************************************)
(* What the life of a run outside its worker keeps, for any sets of runs   *)
(* and requests and any bounds.  The proofs about the workers, in modules  *)
(* that extend ProcessingRuns, rest on these lemmas.                       *)
(***************************************************************************)
EXTENDS ProcessingRuns, TLAPS

\* A row goes on being the run it is: its type and its predecessor are never
\* written again, and a row never disappears.
Continues(n) ==
    /\ run'[n].type = run[n].type
    /\ run'[n].retryOf = run[n].retryOf
    /\ run'[n].status = "absent" => run[n].status = "absent"

\* Only a worker completes a run.
NotCompleted(n) == run'[n].status = "completed" => run[n].status = "completed"

-----------------------------------------------------------------------------
LEMMA WrittenRow ==
    ASSUME NEW m \in Run, NEW status \in Status
    PROVE  /\ Written(m, status) \in Run
           /\ Written(m, status).status = status
           /\ Written(m, status).type = m.type
           /\ Written(m, status).retryOf = m.retryOf
BY DEF Written, Run

LEMMA AbsentRow == AbsentRun \in Run /\ IdleRequest \in Request
BY DEF AbsentRun, RunRow, Run, Status, IdleRequest, Request, RunType

\* A step that writes one row keeps the others.
LEMMA SetStatusKeeps ==
    ASSUME LifeTypeOK, NEW n, NEW status \in Status \ {"absent"}, SetStatus(n, status)
    PROVE  /\ run' \in [Runs -> Run]
           /\ \A m \in Runs : Continues(m)
           /\ \A m \in Runs : run'[m] = IF m = n THEN Written(run[m], status) ELSE run[m]
<1>1. \A m \in Runs : run'[m] = IF m = n THEN Written(run[m], status) ELSE run[m]
  BY DEF SetStatus, LifeTypeOK
<1>2. \A m \in Runs : run'[m] \in Run /\ Continues(m)
  BY <1>1, WrittenRow DEF LifeTypeOK, Continues
<1> QED
  BY <1>1, <1>2 DEF SetStatus, LifeTypeOK

\* A worker that takes a message leaves a queue.
LEMMA ReceiveKeeps ==
    ASSUME LifeTypeOK, NEW n \in Runs, Receive(n) PROVE queue' \in [Runs -> Nat]
<1>1. queue \in [Runs -> Nat] /\ queue[n] > 0 /\ queue' = [queue EXCEPT ![n] = @ - 1]
  BY DEF LifeTypeOK, Receive
<1>2. queue[n] - 1 \in Nat
  BY <1>1
<1> QED
  BY <1>1, <1>2

-----------------------------------------------------------------------------
(* Creation and retry                                                      *)

LEMMA NewRunKeeps ==
    ASSUME LifeTypeOK, NEW r \in Requests, NEW n \in Runs,
           NEW type \in RunType \cup {NoRun}, NEW old \in Runs \cup {NoRun}, NEW total \in 0 .. 1,
           NewRun(r, n, type, old, total)
    PROVE  /\ LifeTypeOK'
           /\ run[n].status = "absent"
           /\ run'[n].status = "pending" /\ run'[n].type = type /\ run'[n].retryOf = old
           /\ \A m \in Runs \ {n} : run'[m] = run[m]
<1>1. run' = [run EXCEPT ![n] = [status |-> "pending", type |-> type, retryOf |-> old,
                                 sent |-> FALSE, flag |-> FALSE, silent |-> FALSE,
                                 total |-> total]]
  BY DEF NewRun, PendingRun, RunRow
<1>2. run' \in [Runs -> Run]
  BY <1>1 DEF LifeTypeOK, Run, Status
<1>3. request' \in [Requests -> Request]
  BY DEF NewRun, LifeTypeOK, Request, IdleRequest, Status
<1> QED
  BY <1>1, <1>2, <1>3 DEF NewRun, LifeTypeOK

\* A retry has the type of the run it names.
LEMMA RetryRunKeeps ==
    ASSUME LifeTypeOK, NEW r \in Requests, NEW old \in Runs, NEW new \in Runs,
           RetryRun(r, old, new)
    PROVE  /\ LifeTypeOK'
           /\ run[new].status = "absent"
           /\ run'[new].status = "pending" /\ run'[new].type = run[old].type
           /\ run'[new].retryOf = old
           /\ \A m \in Runs \ {new} : run'[m] = run[m]
<1>1. NewRun(r, new, run[old].type, old, 0)
  BY DEF RetryRun, RetryTotal
<1>2. run[old].type \in RunType \cup {NoRun}
  BY DEF LifeTypeOK, Run
<1> QED
  BY <1>1, <1>2, NewRunKeeps

-----------------------------------------------------------------------------
(* The steps outside the worker                                            *)

LEMMA LifeInitially == LifeInit => LifeTypeOK
BY AbsentRow DEF LifeInit, LifeTypeOK

\* What redispatch_pending_runs writes over a row.
LEMMA RedispatchedRow ==
    ASSUME NEW m \in Run, NEW s \in Sent
    PROVE  /\ Redispatched(m, s) \in Run
           /\ Redispatched(m, s).type = m.type
           /\ Redispatched(m, s).retryOf = m.retryOf
           /\ Redispatched(m, s).status \in {m.status, "pending", "enqueue_failed"}
<1>1. \A status \in {"pending", "enqueue_failed"} :
         /\ Written(m, status) \in Run
         /\ Written(m, status).type = m.type
         /\ Written(m, status).retryOf = m.retryOf
         /\ Written(m, status).status = status
  BY WrittenRow DEF Status
<1>2. \A x \in Run : /\ [x EXCEPT !.sent = TRUE] \in Run
                     /\ [x EXCEPT !.sent = TRUE].type = x.type
                     /\ [x EXCEPT !.sent = TRUE].retryOf = x.retryOf
                     /\ [x EXCEPT !.sent = TRUE].status = x.status
  BY DEF Run
<1>3. CASE s.ok /\ s.seen = "enqueue_failed"
  BY <1>1, <1>2, <1>3 DEF Redispatched
<1>4. CASE s.ok /\ s.seen = "pending"
  BY <1>2, <1>4 DEF Redispatched
<1>5. CASE ~ s.ok /\ s.seen = "pending"
  BY <1>1, <1>5 DEF Redispatched
<1>6. CASE ~ s.ok /\ s.seen = "enqueue_failed"
  BY <1>6 DEF Redispatched
<1> QED
  BY <1>3, <1>4, <1>5, <1>6 DEF Sent

\* A request, the broker, Celery Beat and time keep the types, and what they
\* write of a row keeps it the run it is and completes none.
LEMMA LifeKeeps ==
    ASSUME LifeTypeOK, LifeNext
    PROVE  LifeTypeOK' /\ \A n \in Runs : Continues(n) /\ NotCompleted(n)
<1> DEFINE Goal == LifeTypeOK' /\ \A n \in Runs : Continues(n) /\ NotCompleted(n)
<1> USE DEF LifeTypeOK
<1>1. ASSUME UNCHANGED run, LifeTypeOK' PROVE Goal
  BY <1>1 DEF Continues, NotCompleted
<1>2. ASSUME NEW r \in Requests, Send(r) PROVE Goal
  <2>1. PICK ok \in BOOLEAN :
           request' = [request EXCEPT ![r].pc = "record", ![r].ok = ok]
    BY <1>2 DEF Send
  <2>2. \A q \in Request : /\ [q EXCEPT !.pc = "record"] \in Request
                           /\ [q EXCEPT !.ok = ok] \in Request
    BY DEF Request
  <2>3. request' \in [Requests -> Request]
    BY <2>1, <2>2
  <2>4. queue' \in [Runs -> Nat]
    BY <1>2 DEF Send
  <2> QED
    BY <1>1, <1>2, <2>3, <2>4 DEF Send
<1>3. ASSUME NEW r \in Requests, request' = [request EXCEPT ![r] = IdleRequest]
      PROVE  request' \in [Requests -> Request]
  BY <1>3, AbsentRow
<1>4. ASSUME NEW r \in Requests, Record(r) PROVE Goal
  <2>1. CASE request[r].ok
    <3>1. run' = [run EXCEPT ![request[r].run].sent = TRUE]
      BY <1>4, <2>1 DEF Record
    <3>2. \A m \in Run : LET s == [m EXCEPT !.sent = TRUE]
                         IN  /\ s \in Run /\ s.type = m.type
                             /\ s.retryOf = m.retryOf /\ s.status = m.status
      BY DEF Run
    <3>3. run' \in [Runs -> Run] /\ \A n \in Runs : Continues(n) /\ NotCompleted(n)
      BY <3>1, <3>2 DEF Continues, NotCompleted
    <3> QED
      BY <1>3, <1>4, <3>3 DEF Record
  <2>2. CASE ~ request[r].ok
    <3>1. SetStatus(request[r].run, "enqueue_failed")
      BY <1>4, <2>2 DEF Record
    <3>2. run' \in [Runs -> Run] /\ \A n \in Runs : Continues(n) /\ NotCompleted(n)
      BY <3>1, SetStatusKeeps, WrittenRow DEF Status, NotCompleted
    <3> QED
      BY <1>3, <1>4, <3>2 DEF Record
  <2> QED
    BY <2>1, <2>2
<1>5. ASSUME NEW r \in Requests, CancelCommit(r) PROVE Goal
  <2>1. CASE request[r].seen = "pending"
    <3>1. SetStatus(request[r].run, "cancelled")
      BY <1>5, <2>1 DEF CancelCommit
    <3>2. run' \in [Runs -> Run] /\ \A n \in Runs : Continues(n) /\ NotCompleted(n)
      BY <3>1, SetStatusKeeps, WrittenRow DEF Status, NotCompleted
    <3> QED
      BY <1>3, <1>5, <3>2 DEF CancelCommit
  <2>2. CASE request[r].seen # "pending"
    <3> DEFINE c(m) == [Written(m, "cancel_requested") EXCEPT !.flag = TRUE]
    <3>1. \A m \in Run : /\ c(m) \in Run /\ c(m).type = m.type /\ c(m).retryOf = m.retryOf
                         /\ c(m).status = "cancel_requested"
      <4>1. \A m \in Run : /\ Written(m, "cancel_requested") \in Run
                           /\ Written(m, "cancel_requested").type = m.type
                           /\ Written(m, "cancel_requested").retryOf = m.retryOf
                           /\ Written(m, "cancel_requested").status = "cancel_requested"
        BY WrittenRow DEF Status
      <4> QED
        BY <4>1 DEF Run
    <3>2. run' = [run EXCEPT ![request[r].run] = c(@)]
      BY <1>5, <2>2 DEF CancelCommit
    <3> HIDE DEF c
    <3>3. run' \in [Runs -> Run] /\ \A n \in Runs : Continues(n) /\ NotCompleted(n)
      BY <3>1, <3>2 DEF Continues, NotCompleted
    <3> QED
      BY <1>3, <1>5, <3>3 DEF CancelCommit
  <2> QED
    BY <2>1, <2>2
<1>6. ASSUME NEW r \in Requests, RequestCrash(r) PROVE Goal
  BY <1>1, <1>3, <1>6 DEF RequestCrash
<1>7. ASSUME NEW r \in Requests, NEW n \in Runs, CancelRead(r, n) PROVE Goal
  <2>1. request' \in [Requests -> Request]
    BY <1>7 DEF CancelRead, Request, IdleRequest, Run
  <2> QED
    BY <1>1, <1>7, <2>1 DEF CancelRead
<1>8. ASSUME NEW ok \in SUBSET Runs, NEW lost \in SUBSET Runs, Redispatch(ok, lost)
      PROVE  Goal
  <2>1. batch' \subseteq Sent
    <3>1. ASSUME NEW s \in batch' PROVE s \in Sent
      <4>1. PICK n \in {m \in Runs : Redispatchable(m)} :
               s = [run |-> n, seen |-> run[n].status, ok |-> n \in ok]
        BY <1>8 DEF Redispatch
      <4> QED
        BY <4>1 DEF Redispatchable, Sent
    <3> QED
      BY <3>1
  <2>2. queue' \in [Runs -> Nat]
    BY <1>8 DEF Redispatch
  <2> QED
    BY <1>1, <1>8, <2>1, <2>2 DEF Redispatch
<1>9. CASE RedispatchCommit
  <2>1. ASSUME NEW n \in Runs PROVE run'[n] \in Run /\ Continues(n) /\ NotCompleted(n)
    <3>1. CASE \E s \in batch : s.run = n
      <4> DEFINE s == CHOOSE s \in batch : s.run = n
      <4>1. s \in Sent
        BY <3>1
      <4>2. run'[n] = Redispatched(run[n], s)
        BY <1>9, <3>1 DEF RedispatchCommit
      <4> HIDE DEF s
      <4> QED
        BY <4>1, <4>2, RedispatchedRow DEF Continues, NotCompleted
    <3>2. CASE ~ \E s \in batch : s.run = n
      BY <1>9, <3>2 DEF RedispatchCommit, Continues, NotCompleted
    <3> QED
      BY <3>1, <3>2
  <2>2. run' \in [Runs -> Run]
    BY <1>9, <2>1 DEF RedispatchCommit
  <2> QED
    BY <1>9, <2>1, <2>2 DEF RedispatchCommit
<1>10. ASSUME NEW n \in Runs, FallSilent(n) PROVE Goal
  BY <1>10 DEF FallSilent, Run, Continues, NotCompleted
<1>11. ASSUME NEW n \in Runs, LoseMessage(n) PROVE Goal
  BY <1>1, <1>11 DEF LoseMessage
<1>12. CASE MarkStaleRead
  BY <1>1, <1>12 DEF MarkStaleRead
<1>13. CASE MarkStaleCommit
  <2>1. \A n \in Runs : run'[n] \in Run /\ Continues(n) /\ NotCompleted(n)
    <3>1. \A n \in Runs : run'[n] = IF n \in stale THEN Written(run[n], "failed")
                                                   ELSE run[n]
      BY <1>13 DEF MarkStaleCommit
    <3> QED
      BY <3>1, WrittenRow DEF Status, Continues, NotCompleted
  <2>2. run' \in [Runs -> Run]
    BY <1>13, <2>1 DEF MarkStaleCommit
  <2> QED
    BY <1>13, <2>1, <2>2 DEF MarkStaleCommit
<1>14. CASE MaintenanceCrash
  BY <1>1, <1>14 DEF MaintenanceCrash
<1> QED
  BY <1>2, <1>4, <1>5, <1>6, <1>7, <1>8, <1>9, <1>10, <1>11, <1>12, <1>13, <1>14
     DEF LifeNext, RequestStep, RedispatchStep, MarkStaleStep
=============================================================================
