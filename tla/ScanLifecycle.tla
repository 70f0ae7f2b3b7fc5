--------------------------- MODULE ScanLifecycle ---------------------------
(***************************************************************************)
(* An asynchronous scan, from the HTTP request that creates it to the row  *)
(* that says how it ended:                                                 *)
(*   - the handler create_scan_async (backend/main.py): insert the pending *)
(*     row, enqueue the Celery task, write the audit record, answer 202;   *)
(*   - the broker: Celery over Redis with its default settings             *)
(*     (backend/tasks/celery_app.py): a message is acknowledged when its   *)
(*     execution starts, an unacknowledged one is delivered again after    *)
(*     the visibility timeout;                                             *)
(*   - the pool slots of the worker, which execute run_scan_task           *)
(*     (backend/tasks/scan_tasks.py);                                      *)
(*   - the Postgres tables behind PostgresScanStore (backend/db/store.py). *)
(*     Each store method is one transaction that loads the job row,        *)
(*     changes attributes of the loaded object and commits; the ORM writes *)
(*     back only the columns whose value differs from the loaded one.      *)
(***************************************************************************)
EXTENDS Naturals, FiniteSets

CONSTANTS
    Scans,          \* the scan ids, one request each
    Slots,          \* the pool slots of the worker
    Results,        \* what run_scan may find in the account
    NoScan,         \* the scan of an idle slot
    MaxFaults,      \* bound: failed calls, crashes, broker restarts
    MaxDisturbances \* bound: lost replies and late redeliveries

Tables == {"assets", "relationships", "attack_paths"}

(* The counter columns of scan_jobs.                                       *)
Counters == {"assets", "relationships"}

Result == [rows : [Tables -> Nat], error : {"", "partial"}]

ASSUME ScanAssumption ==
    /\ Results \subseteq Result
    /\ NoScan \notin Scans
    /\ MaxFaults \in Nat
    /\ MaxDisturbances \in Nat

VARIABLES
    api,          \* api[s]: how far the request handler of s got
    queue,        \* queue[s]: copies of the message of s in the Redis list
    held,         \* held[s]: copies prefetched and not acknowledged
    stale,        \* stale[s]: prefetched copies Redis no longer tracks
    orphan,       \* orphan[s]: unacknowledged copies of a dead worker
    exec,         \* exec[w]: the execution of run_scan_task in slot w
    job,          \* job[s]: the row of s in scan_jobs
    rows,         \* rows[s]: the child rows of s, per table
    audit,        \* the scans with a scan.create_async audit record
    faults,       \* how many faults happened
    disturbances, \* how many lost replies and redeliveries happened
    disturbed,    \* history: scans delivered again, or saved without
                  \* the worker learning it
    interrupted,  \* history: scans a fault may have cut short
    raised        \* history: scans with an execution that ended raising

brokerVars == <<queue, held, stale, orphan>>
dbVars == <<job, rows>>
histVars == <<disturbances, disturbed, interrupted, raised>>
vars == <<api, queue, held, stale, orphan, exec, job, rows, audit, faults,
          disturbances, disturbed, interrupted, raised>>
-----------------------------------------------------------------------------
NoRows == [t \in Tables |-> 0]

NoCounts == [c \in Counters |-> 0]

(* The columns of a scan_jobs row; NoJob stands for the missing row.       *)
Row(status, counts, error) ==
    [status |-> status, counts |-> counts, error |-> error]

NoJob == Row("none", NoCounts, "")

NoResult == [rows |-> NoRows, error |-> ""]

(* What mark_running, mark_failed and save assign to the loaded row.       *)
RunningRow(loaded) == [loaded EXCEPT !.status = "running"]

FailedRowResets(loaded) == [loaded EXCEPT !.status = "pending"]
FailedRowCompletes(loaded) == [loaded EXCEPT !.status = "completed"]
FailedRowKeepsStatus(loaded) == [loaded EXCEPT !.error = "exception"]
FailedRowUndeclared(loaded) == [loaded EXCEPT !.status = "error"]

FailedRow(loaded) ==
    [loaded EXCEPT !.status = "failed", !.error = "exception"]

SavedRowUncounted(r) == Row("completed", NoCounts, r.error)

SavedRow(r) == Row("completed", [c \in Counters |-> r.rows[c]], r.error)

(* The child rows of a scan after save: session.add for every new one, and *)
(* nothing is deleted.                                                     *)
ReplaceRows(old, new) == new

AddRows(old, new) == [t \in Tables |-> old[t] + new[t]]

Idle == [pc |-> "idle", scan |-> NoScan, loaded |-> NoJob, found |-> NoResult]

Terminal == {"completed", "failed"}

Executing(s) == {w \in Slots : exec[w].scan = s}

(* Every copy of the message of s that may still start an execution.       *)
Copies(s) == queue[s] + held[s] + stale[s] + orphan[s]
-----------------------------------------------------------------------------
Init ==
    /\ api = [s \in Scans |-> "idle"]
    /\ queue = [s \in Scans |-> 0]
    /\ held = [s \in Scans |-> 0]
    /\ stale = [s \in Scans |-> 0]
    /\ orphan = [s \in Scans |-> 0]
    /\ exec = [w \in Slots |-> Idle]
    /\ job = [s \in Scans |-> NoJob]
    /\ rows = [s \in Scans |-> NoRows]
    /\ audit = {}
    /\ faults = 0
    /\ disturbances = 0
    /\ disturbed = {}
    /\ interrupted = {}
    /\ raised = {}

(* A call that fails, or a process that dies, at this point.               *)
Fault ==
    /\ faults < MaxFaults
    /\ faults' = faults + 1

NoFault == UNCHANGED faults
-----------------------------------------------------------------------------
(***************************************************************************)
(* create_scan_async.  An exception anywhere in the handler is a 500; what *)
(* the handler did before it stays done.                                   *)
(***************************************************************************)

(* store.create_pending_job(scan_id): the row is committed.                *)
CreatePendingJob(s) ==
    /\ api[s] = "idle"
    /\ api' = [api EXCEPT ![s] = "created"]
    /\ job' = [job EXCEPT ![s] = Row("pending", NoCounts, "")]
    /\ NoFault
    /\ UNCHANGED <<brokerVars, exec, rows, audit, histVars>>

CreatePendingJobFails(s) ==
    /\ api[s] = "idle"
    /\ api' = [api EXCEPT ![s] = "error"]
    /\ Fault
    /\ UNCHANGED <<brokerVars, exec, dbVars, audit, histVars>>

SendsTwice(s, n) == queue' = [queue EXCEPT ![s] = @ + n + n]

(* n copies of the message of s reach the Redis list.                      *)
Send(s, n) == queue' = [queue EXCEPT ![s] = @ + n]

EnqueuesFirst(s) == api[s] \in {"idle", "created"}

(* The row is committed before the task is sent (main.py:146-147).         *)
ReadyToEnqueue(s) == api[s] = "created"

(* run_scan_task.delay(...).  When the connection drops after Redis took   *)
(* the message, kombu's publish retry sends it a second time.              *)
Enqueue(s) ==
    /\ ReadyToEnqueue(s)
    /\ api' = [api EXCEPT ![s] = "enqueued"]
    /\ \/ /\ Send(s, 1)
          /\ UNCHANGED <<disturbances, disturbed>>
       \/ /\ disturbances < MaxDisturbances
          /\ disturbances' = disturbances + 1
          /\ disturbed' = disturbed \union {s}
          /\ Send(s, 2)
    /\ NoFault
    /\ UNCHANGED <<held, stale, orphan, exec, dbVars, audit, interrupted,
                   raised>>

(* Redis is down, or the API dies before the call.                 *)
EnqueueFails(s) ==
    /\ api[s] = "created"
    /\ api' = [api EXCEPT ![s] = "error"]
    /\ interrupted' = interrupted \union {s}
    /\ Fault
    /\ UNCHANGED <<brokerVars, exec, dbVars, audit, disturbances, disturbed,
                   raised>>

(* write_audit_log(...) and the 202 answer.                                *)
WriteAuditAndAnswer(s) ==
    /\ api[s] = "enqueued"
    /\ api' = [api EXCEPT ![s] = "accepted"]
    /\ audit' = audit \union {s}
    /\ NoFault
    /\ UNCHANGED <<brokerVars, exec, dbVars, histVars>>

(* The audit insert fails, or the API process dies before it.              *)
WriteAuditFails(s) ==
    /\ api[s] = "enqueued"
    /\ api' = [api EXCEPT ![s] = "error"]
    /\ Fault
    /\ UNCHANGED <<brokerVars, exec, dbVars, audit, histVars>>
-----------------------------------------------------------------------------
(***************************************************************************)
(* The broker.                                                             *)
(***************************************************************************)

(* The worker takes a message off the list; it stays in Redis' unacked     *)
(* hash until its execution starts.                                        *)
Prefetch(s) ==
    /\ queue[s] > 0
    /\ queue' = [queue EXCEPT ![s] = @ - 1]
    /\ held' = [held EXCEPT ![s] = @ + 1]
    /\ NoFault
    /\ UNCHANGED <<api, stale, orphan, exec, dbVars, audit, histVars>>

(* The visibility timeout passes while the worker, busy with long scans,   *)
(* still holds the message: it goes back on the list, the held copy stays. *)
VisibilityTimeout(s) ==
    /\ held[s] > 0
    /\ disturbances < MaxDisturbances
    /\ disturbances' = disturbances + 1
    /\ disturbed' = disturbed \union {s}
    /\ held' = [held EXCEPT ![s] = @ - 1]
    /\ stale' = [stale EXCEPT ![s] = @ + 1]
    /\ queue' = [queue EXCEPT ![s] = @ + 1]
    /\ NoFault
    /\ UNCHANGED <<api, orphan, exec, dbVars, audit, interrupted, raised>>

(* The visibility timeout passes for a message whose worker is gone.       *)
RestoreOrphan(s) ==
    /\ orphan[s] > 0
    /\ orphan' = [orphan EXCEPT ![s] = @ - 1]
    /\ queue' = [queue EXCEPT ![s] = @ + 1]
    /\ NoFault
    /\ UNCHANGED <<api, held, stale, exec, dbVars, audit, histVars>>

(* Redis is replaced (docker-compose.yml mounts no volume for it): its     *)
(* list and its unacked hash are empty; what the worker already holds in   *)
(* memory can still start.                                                 *)
BrokerRestart ==
    /\ \E s \in Scans : Copies(s) > 0
    /\ queue' = [s \in Scans |-> 0]
    /\ orphan' = [s \in Scans |-> 0]
    /\ held' = [s \in Scans |-> 0]
    /\ stale' = [s \in Scans |-> stale[s] + held[s]]
    /\ interrupted' = interrupted \union
                          {s \in Scans : queue[s] + orphan[s] > 0}
    /\ Fault
    /\ UNCHANGED <<api, exec, dbVars, audit, disturbances, disturbed, raised>>
-----------------------------------------------------------------------------
(***************************************************************************)
(* run_scan_task in the slot w.                                            *)
(***************************************************************************)
Goto(w, pc) == exec' = [exec EXCEPT ![w].pc = pc]

Finish(w) == exec' = [exec EXCEPT ![w] = Idle]

LoadPoints == {"mark_running", "save", "mark_failed"}

CommitPoints == {"commit_running", "commit_save", "commit_failed"}

(* The commit that follows each load.                                      *)
CommitOf ==
    [p \in LoadPoints |-> CASE p = "mark_running" -> "commit_running"
                            [] p = "save" -> "commit_save"
                            [] p = "mark_failed" -> "commit_failed"]

(* A free slot starts a message and acknowledges it.                       *)
StartTask(w, s) ==
    /\ exec[w].pc = "idle"
    /\ \/ /\ held[s] > 0
          /\ held' = [held EXCEPT ![s] = @ - 1]
          /\ UNCHANGED stale
       \/ /\ stale[s] > 0
          /\ stale' = [stale EXCEPT ![s] = @ - 1]
          /\ UNCHANGED held
    /\ exec' = [exec EXCEPT ![w] = [Idle EXCEPT !.pc = "mark_running",
                                                !.scan = s]]
    /\ NoFault
    /\ UNCHANGED <<api, queue, orphan, dbVars, audit, histVars>>

(* session.get(ScanJobModel, scan_id), the first statement of mark_running,*)
(* mark_failed and save: later changes of the row are not seen.            *)
LoadJob(w) ==
    /\ exec[w].pc \in LoadPoints
    /\ exec' = [exec EXCEPT ![w].pc = CommitOf[exec[w].pc],
                            ![w].loaded = job[exec[w].scan]]
    /\ NoFault
    /\ UNCHANGED <<api, brokerVars, dbVars, audit, histVars>>

(* What the commit leaves in one column: attributes set to the value they  *)
(* were loaded with are not written.                                       *)
Column(current, loaded, new) == IF new = loaded THEN current ELSE new

(* The row after a transaction loaded `loaded` and assigned `new`.         *)
Flushed(s, loaded, new) ==
    Row(Column(job[s].status, loaded.status, new.status),
        [c \in Counters |->
            Column(job[s].counts[c], loaded.counts[c], new.counts[c])],
        Column(job[s].error, loaded.error, new.error))

(* mark_running commits: a no-op when there was no row to load.            *)
CommitRunning(w) ==
    LET s == exec[w].scan
        loaded == exec[w].loaded
    IN  /\ exec[w].pc = "commit_running"
        /\ job' = IF loaded = NoJob
                  THEN job
                  ELSE [job EXCEPT ![s] =
                            Flushed(s, loaded, RunningRow(loaded))]
        /\ Goto(w, "scan")
        /\ NoFault
        /\ UNCHANGED <<api, brokerVars, rows, audit, histVars>>

(* ScanService.run_scan up to store.save: it finds something, with or      *)
(* without collector errors, or it raises.                                 *)
RunScan(w) ==
    /\ exec[w].pc = "scan"
    /\ \/ \E r \in Results :
            exec' = [exec EXCEPT ![w].pc = "save", ![w].found = r]
       \/ Goto(w, "mark_failed")
    /\ NoFault
    /\ UNCHANGED <<api, brokerVars, dbVars, audit, histVars>>

(* The transaction of save: the job row is updated, or inserted when none  *)
(* was loaded, and the child rows are added to those already there.        *)
SaveTransaction(w) ==
    LET s == exec[w].scan
        r == exec[w].found
        loaded == exec[w].loaded
    IN  /\ job' = [job EXCEPT ![s] =
                      IF loaded = NoJob
                      THEN SavedRow(r)
                      ELSE Flushed(s, loaded, SavedRow(r))]
        /\ rows' = [rows EXCEPT ![s] = AddRows(rows[s], r.rows)]

CommitSave(w) ==
    /\ exec[w].pc = "commit_save"
    /\ SaveTransaction(w)
    /\ Finish(w)
    /\ NoFault
    /\ UNCHANGED <<api, brokerVars, audit, histVars>>

(* The connection drops after Postgres committed: commit() raises, and the *)
(* task takes the exception for a failed scan.                             *)
CommitSaveUnacknowledged(w) ==
    /\ exec[w].pc = "commit_save"
    /\ disturbances < MaxDisturbances
    /\ disturbances' = disturbances + 1
    /\ disturbed' = disturbed \union {exec[w].scan}
    /\ SaveTransaction(w)
    /\ Goto(w, "mark_failed")
    /\ NoFault
    /\ UNCHANGED <<api, brokerVars, audit, interrupted, raised>>

(* mark_failed commits and the task re-raises.                             *)
CommitFailed(w) ==
    LET s == exec[w].scan
        loaded == exec[w].loaded
    IN  /\ exec[w].pc = "commit_failed"
        /\ job' = IF loaded = NoJob
                  THEN job
                  ELSE [job EXCEPT ![s] =
                            Flushed(s, loaded, FailedRow(loaded))]
        /\ Finish(w)
        /\ raised' = raised \union {s}
        /\ NoFault
        /\ UNCHANGED <<api, brokerVars, rows, audit, disturbances, disturbed,
                       interrupted>>

(* Postgres fails one of the store's transactions.  Only save is inside    *)
(* the task's try: the exception of mark_running or mark_failed ends it.   *)
StoreFails(w) ==
    /\ exec[w].pc \in LoadPoints \union CommitPoints
    /\ \/ /\ exec[w].pc \in {"save", "commit_save"}
          /\ Goto(w, "mark_failed")
          /\ UNCHANGED <<interrupted, raised>>
       \/ /\ exec[w].pc \notin {"save", "commit_save"}
          /\ Finish(w)
          /\ interrupted' = interrupted \union {exec[w].scan}
          /\ raised' = raised \union {exec[w].scan}
    /\ Fault
    /\ UNCHANGED <<api, brokerVars, dbVars, audit, disturbances, disturbed>>

(* The process of one slot is killed; its message is already acknowledged. *)
SlotDies(w) ==
    /\ exec[w].pc # "idle"
    /\ Finish(w)
    /\ interrupted' = interrupted \union {exec[w].scan}
    /\ Fault
    /\ UNCHANGED <<api, brokerVars, dbVars, audit, disturbances, disturbed,
                   raised>>

AcknowledgedOnReceipt(s) == 0

(* What Redis still tracks of the messages the worker has prefetched.      *)
Unacknowledged(s) == held[s]

(* The whole worker is killed and restarted: its prefetched messages wait  *)
(* for the visibility timeout, unless Redis no longer tracks them.         *)
WorkerDies ==
    /\ \/ \E w \in Slots : exec[w].pc # "idle"
       \/ \E s \in Scans : held[s] + stale[s] > 0
    /\ exec' = [w \in Slots |-> Idle]
    /\ orphan' = [s \in Scans |-> orphan[s] + Unacknowledged(s)]
    /\ held' = [s \in Scans |-> 0]
    /\ stale' = [s \in Scans |-> 0]
    /\ interrupted' = interrupted \union
                          {s \in Scans : stale[s] > 0 \/ Executing(s) # {}}
    /\ Fault
    /\ UNCHANGED <<api, queue, dbVars, audit, disturbances, disturbed, raised>>
-----------------------------------------------------------------------------
Request(s) ==
    \/ CreatePendingJob(s)
    \/ Enqueue(s)
    \/ WriteAuditAndAnswer(s)

RequestFails(s) ==
    \/ CreatePendingJobFails(s)
    \/ EnqueueFails(s)
    \/ WriteAuditFails(s)

Work(w) ==
    \/ LoadJob(w)
    \/ CommitRunning(w)
    \/ RunScan(w)
    \/ CommitSave(w)
    \/ CommitFailed(w)

WorkFails(w) ==
    \/ CommitSaveUnacknowledged(w)
    \/ StoreFails(w)
    \/ SlotDies(w)

Next ==
    \/ \E s \in Scans : \/ Request(s)
                        \/ RequestFails(s)
                        \/ Prefetch(s)
                        \/ VisibilityTimeout(s)
                        \/ RestoreOrphan(s)
    \/ \E w \in Slots : \/ \E s \in Scans : StartTask(w, s)
                        \/ Work(w)
                        \/ WorkFails(w)
    \/ BrokerRestart
    \/ WorkerDies

Spec == Init /\ [][Next]_vars
-----------------------------------------------------------------------------
(***************************************************************************)
(* Fairness.  A handler that was entered runs on; the worker's main process*)
(* polls the broker, so messages are prefetched and a visibility timeout   *)
(* that is due is applied; an execution that started goes on.  A client    *)
(* need never ask for a scan, and no fault is ever bound to happen.        *)
(***************************************************************************)
Fairness ==
    /\ \A s \in Scans : /\ WF_vars(Enqueue(s) \/ WriteAuditAndAnswer(s))
                        /\ WF_vars(Prefetch(s))
                        /\ WF_vars(RestoreOrphan(s))
                        /\ WF_vars(\E w \in Slots : StartTask(w, s))
    /\ \A w \in Slots : WF_vars(Work(w))

FairSpec == Spec /\ Fairness
-----------------------------------------------------------------------------
(* The attributes of a job row.                                            *)
JobRow == [status : {"none", "pending", "running"} \union Terminal,
           counts : [Counters -> Nat],
           error : {"", "partial", "exception"}]

Execution ==
    [pc : {"idle", "scan"} \union LoadPoints \union CommitPoints,
     scan : Scans \union {NoScan},
     loaded : JobRow,
     found : Result]

(* Every variable stays in its range, whatever is delivered twice or dies. *)
TypeOK ==
    /\ api \in [Scans -> {"idle", "created", "enqueued", "accepted", "error"}]
    /\ queue \in [Scans -> Nat]
    /\ held \in [Scans -> Nat]
    /\ stale \in [Scans -> Nat]
    /\ orphan \in [Scans -> Nat]
    /\ exec \in [Slots -> Execution]
    /\ job \in [Scans -> JobRow]
    /\ rows \in [Scans -> [Tables -> Nat]]
    /\ audit \subseteq Scans
    /\ faults \in Nat
    /\ disturbances \in Nat
    /\ disturbed \subseteq Scans
    /\ interrupted \subseteq Scans
    /\ raised \subseteq Scans

(* A message is sent after its row is committed (main.py:146-147), so no   *)
(* task ever finds its job missing: the `if job` guards of mark_running    *)
(* and mark_failed and the insert branch of save never decide.             *)
TaskFindsItsJob ==
    \A s \in Scans :
        Copies(s) > 0 \/ Executing(s) # {} => job[s].status # "none"

(* The counters of the job row and the child rows appear together, once: a *)
(* scan delivered once and saved with an answer shows exactly the rows of  *)
(* one result when it is completed and no row at any other time.           *)
PublishedTogether ==
    \A s \in Scans \ disturbed :
        \/ /\ job[s].status = "completed"
           /\ \A c \in Counters : rows[s][c] = job[s].counts[c]
        \/ /\ job[s].status # "completed"
           /\ rows[s] = NoRows
           /\ job[s].counts = NoCounts

(* One request makes at most one execution at a time, and none is left to  *)
(* start or to go on when the job has ended.                               *)
OneExecution ==
    \A s \in Scans \ disturbed :
        Copies(s) + Cardinality(Executing(s))
            <= IF job[s].status \in Terminal THEN 0 ELSE 1

(* A scan that was enqueued has ended, or is waiting, or is executed, or a *)
(* fault is to blame: no order of deliveries and commits loses it, not even*)
(* of duplicated ones.                                                     *)
NothingSilentlyLost ==
    \A s \in Scans :
        \/ api[s] \in {"idle", "created"}
        \/ job[s].status = "none"
        \/ job[s].status \in Terminal
        \/ Copies(s) > 0
        \/ Executing(s) # {}
        \/ s \in interrupted

(* tests/test_scan_task.py:100: a task that raises has left its job        *)
(* failed; redelivery, and a store that fails as it is told, excepted.     *)
RaisedIsReported ==
    \A s \in raised \ (disturbed \union interrupted) : job[s].status = "failed"

(* Duplicated or not, the counters of a job never exceed its rows.         *)
CountsBackedByRows ==
    \A s \in Scans, c \in Counters : job[s].counts[c] <= rows[s][c]

Rank == [none |-> 0, pending |-> 1, running |-> 2, completed |-> 3,
         failed |-> 3]

(* What a step may do to the row of s: nothing, or move its status on.     *)
Advances(s) ==
    job'[s] = job[s] \/ Rank[job'[s].status] > Rank[job[s].status]

(* An undisturbed job goes through pending, running and one final status,  *)
(* and its row never changes any other way.                                *)
StatusAdvances == [][\A s \in Scans \ disturbed' : Advances(s)]_vars

(* An enqueued scan ends, unless a fault cut it short: a dead worker's     *)
(* prefetched messages come back, and a full pool empties.                 *)
EnqueuedScanEnds ==
    \A s \in Scans :
        Copies(s) > 0 ~> job[s].status \in Terminal \/ s \in interrupted

(* Without a disturbance the whole machinery implements ScanJob.           *)
Promise == INSTANCE ScanJob WITH status <- [s \in Scans |-> job[s].status],
                                 published <- rows

ImplementsScanJob == Promise!Spec
-----------------------------------------------------------------------------
(***************************************************************************)
(* The inductive invariant behind these properties.                        *)
(***************************************************************************)
Runs(w, s) == exec[w].scan = s

Quiet(s) == Copies(s) = 0 /\ \A w \in Slots : ~Runs(w, s)

(* Before the message is sent nothing runs, and the row is as created.     *)
BeforeEnqueue(s) ==
    /\ api[s] \in {"idle", "created"} => Quiet(s) /\ rows[s] = NoRows
    /\ api[s] = "idle" => job[s] = NoJob
    /\ api[s] = "created" => job[s] = Row("pending", NoCounts, "")

(* A slot holds a scan exactly while it executes one whose row exists, and *)
(* saves only what run_scan found.                                         *)
SlotInv(w) ==
    /\ exec[w].pc = "idle" <=> exec[w].scan = NoScan
    /\ exec[w].pc # "idle" => job[exec[w].scan].status # "none"
    /\ exec[w].pc \in CommitPoints => exec[w].loaded.status # "none"
    /\ exec[w].pc \in {"save", "commit_save"} => exec[w].found \in Results

(* A pending job has not been marked running by any of its executions, and *)
(* once it is sent one of them is to come or a fault took it.              *)
PendingInv(s) ==
    job[s].status = "pending" =>
        /\ \A w \in Slots : Runs(w, s) =>
              \/ exec[w].pc = "mark_running"
              \/ /\ exec[w].pc = "commit_running"
                 /\ exec[w].loaded.status = "pending"
        /\ \/ api[s] = "created"
           \/ s \in interrupted
           \/ Copies(s) > 0
           \/ \E w \in Slots : Runs(w, s)

(* The slot w is past mark_running and will write a final status over a    *)
(* row that says "running".                                                *)
WillEnd(w, s) ==
    /\ Runs(w, s)
    /\ \/ exec[w].pc \in {"scan", "save", "mark_failed"}
       \/ /\ exec[w].pc \in {"commit_save", "commit_failed"}
          /\ exec[w].loaded.status = "running"

RunningInv(s) ==
    job[s].status = "running" =>
        s \in interrupted \/ \E w \in Slots : WillEnd(w, s)

(* A scan delivered once: one copy or one execution, whose place agrees    *)
(* with the row it loaded and nobody else changes.                         *)
OnceInv(s) ==
    /\ Copies(s) <= 1
    /\ Copies(s) = 1 =>
          job[s].status = "pending" /\ \A w \in Slots : ~Runs(w, s)
    /\ \A w1, w2 \in Slots : Runs(w1, s) /\ Runs(w2, s) => w1 = w2
    /\ \A w \in Slots : Runs(w, s) =>
          /\ job[s].status =
                IF exec[w].pc \in {"mark_running", "commit_running"}
                THEN "pending" ELSE "running"
          /\ exec[w].pc \in CommitPoints => exec[w].loaded = job[s]
    /\ \/ /\ job[s].status = "completed"
          /\ \A c \in Counters : rows[s][c] = job[s].counts[c]
       \/ /\ job[s].status # "completed"
          /\ rows[s] = NoRows
          /\ job[s].counts = NoCounts

ScanInv(s) ==
    /\ BeforeEnqueue(s)
    /\ Copies(s) > 0 => job[s].status # "none"
    /\ PendingInv(s)
    /\ RunningInv(s)
    /\ s \notin disturbed => OnceInv(s)

(* Together with TypeOK, every step preserves this.                        *)
IInv ==
    /\ \A s \in Scans : ScanInv(s)
    /\ \A w \in Slots : SlotInv(w)
    /\ CountsBackedByRows
=============================================================================
