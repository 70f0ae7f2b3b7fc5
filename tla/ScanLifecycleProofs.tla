------------------------ MODULE ScanLifecycleProofs ------------------------
(***************************************************************************)
(* Proofs about ScanLifecycle, for every set of scans and slots, every set *)
(* of results and every bound on faults and disturbances, and, at the end, *)
(* about the command of ScanWait that polls it, for every interval and     *)
(* timeout.                                                                *)
(***************************************************************************)
EXTENDS ScanWait, FiniteSetTheorems, TLAPS

(* A row that is loaded, or made of typed parts, is a row.                 *)
LEMMA RowType ==
    ASSUME NEW status \in {"none", "pending", "running"} \union Terminal,
           NEW counts \in [Counters -> Nat],
           NEW error \in {"", "partial", "exception"}
    PROVE  Row(status, counts, error) \in JobRow
BY DEF Row, JobRow

LEMMA NoJobType == NoJob \in JobRow
BY RowType DEF NoJob, NoCounts

LEMMA IdleType == Idle \in Execution /\ NoResult \in Result
BY NoJobType DEF Idle, Execution, NoResult, NoRows, Result

(* What a commit leaves is a row again.                                    *)
LEMMA FlushedType ==
    ASSUME TypeOK, NEW s \in Scans,
           NEW loaded \in JobRow, NEW new \in JobRow
    PROVE  Flushed(s, loaded, new) \in JobRow
<1>1. job[s] \in JobRow
  BY DEF TypeOK
<1>2. [c \in Counters |-> Column(job[s].counts[c], loaded.counts[c],
                                 new.counts[c])] \in [Counters -> Nat]
  BY <1>1 DEF Column, JobRow
<1>3. Column(job[s].status, loaded.status, new.status)
          \in {"none", "pending", "running"} \union Terminal
  BY <1>1 DEF Column, JobRow
<1>4. Column(job[s].error, loaded.error, new.error)
          \in {"", "partial", "exception"}
  BY <1>1 DEF Column, JobRow
<1>5. QED
  BY <1>2, <1>3, <1>4, RowType DEF Flushed

LEMMA AssignedType ==
    ASSUME NEW loaded \in JobRow, NEW r \in Result
    PROVE  /\ RunningRow(loaded) \in JobRow
           /\ FailedRow(loaded) \in JobRow
           /\ SavedRow(r) \in JobRow
<1>1. RunningRow(loaded) \in JobRow /\ FailedRow(loaded) \in JobRow
  BY DEF RunningRow, FailedRow, JobRow, Terminal
<1>2. [c \in Counters |-> r.rows[c]] \in [Counters -> Nat]
  BY DEF Result, Counters, Tables
<1>3. r.error \in {"", "partial", "exception"}
  BY DEF Result
<1>4. QED
  BY <1>1, <1>2, <1>3, RowType DEF SavedRow, Terminal

(* A slot that does not idle executes one of the scans.                    *)
LEMMA ExecType ==
    ASSUME TypeOK, NEW w \in Slots
    PROVE  /\ exec[w] \in Execution
           /\ exec[w].scan \in Scans \union {NoScan}
           /\ exec[w].loaded \in JobRow
           /\ exec[w].found \in Result
BY DEF TypeOK, Execution
-----------------------------------------------------------------------------
(* Type correctness is preserved: the steps of the request and the broker. *)
LEMMA RequestTypeOK ==
    ASSUME TypeOK, NEW s \in Scans, Request(s) \/ RequestFails(s)
    PROVE  TypeOK'
<1>1. Row("pending", NoCounts, "") \in JobRow
  BY RowType DEF NoCounts
<1>. USE DEF TypeOK, brokerVars, dbVars, histVars, Fault, NoFault
<1>2. CASE CreatePendingJob(s)
  BY <1>1, <1>2 DEF CreatePendingJob
<1>3. CASE CreatePendingJobFails(s)
  BY <1>3 DEF CreatePendingJobFails
<1>4. CASE Enqueue(s)
  <2>1. queue' \in [Scans -> Nat]
    <3>1. ASSUME NEW n \in Nat, Send(s, n) PROVE queue' \in [Scans -> Nat]
      BY <3>1 DEF Send
    <3>2. QED
      BY <3>1, <1>4 DEF Enqueue
  <2>2. disturbances' \in Nat /\ disturbed' \subseteq Scans
    BY <1>4 DEF Enqueue
  <2>3. api' \in [Scans -> {"idle", "created", "enqueued", "accepted", "error"}]
    BY <1>4 DEF Enqueue
  <2>4. UNCHANGED <<held, stale, orphan, exec, job, rows, audit, faults,
                    interrupted, raised>>
    BY <1>4 DEF Enqueue
  <2>5. QED
    BY <2>1, <2>2, <2>3, <2>4
<1>5. CASE EnqueueFails(s)
  BY <1>5 DEF EnqueueFails
<1>6. CASE WriteAuditAndAnswer(s)
  BY <1>6 DEF WriteAuditAndAnswer
<1>7. CASE WriteAuditFails(s)
  BY <1>7 DEF WriteAuditFails
<1>8. QED
  BY <1>2, <1>3, <1>4, <1>5, <1>6, <1>7 DEF Request, RequestFails

LEMMA BrokerTypeOK ==
    ASSUME TypeOK,
           \/ \E s \in Scans : \/ Prefetch(s)
                               \/ VisibilityTimeout(s)
                               \/ RestoreOrphan(s)
           \/ BrokerRestart
           \/ WorkerDies
    PROVE  TypeOK'
<1>. USE DEF TypeOK, brokerVars, dbVars, histVars, Fault, NoFault
<1>1. ASSUME NEW s \in Scans, Prefetch(s) PROVE TypeOK'
  BY <1>1 DEF Prefetch
<1>2. ASSUME NEW s \in Scans, VisibilityTimeout(s) PROVE TypeOK'
  BY <1>2 DEF VisibilityTimeout
<1>3. ASSUME NEW s \in Scans, RestoreOrphan(s) PROVE TypeOK'
  BY <1>3 DEF RestoreOrphan
<1>4. CASE BrokerRestart
  BY <1>4 DEF BrokerRestart
<1>5. CASE WorkerDies
  BY <1>5, IdleType DEF WorkerDies, Unacknowledged
<1>6. QED
  BY <1>1, <1>2, <1>3, <1>4, <1>5

(* A slot that does not idle executes one of the scans.                    *)
LEMMA BusySlot ==
    ASSUME TypeOK, IInv, NEW w \in Slots, exec[w].pc # "idle"
    PROVE  /\ exec[w].scan \in Scans
           /\ job[exec[w].scan] \in JobRow
           /\ rows[exec[w].scan] \in [Tables -> Nat]
<1>1. exec[w].scan \in Scans \union {NoScan}
  BY ExecType
<1>2. exec[w].scan # NoScan
  BY DEF IInv, SlotInv
<1>3. QED
  BY <1>1, <1>2 DEF TypeOK

(* And the steps of a slot.                                                *)
LEMMA WorkTypeOK ==
    ASSUME TypeOK, IInv, NEW w \in Slots,
           \/ \E s \in Scans : StartTask(w, s)
           \/ Work(w)
           \/ WorkFails(w)
    PROVE  TypeOK'
<1>. DEFINE s == exec[w].scan
            loaded == exec[w].loaded
            found == exec[w].found
<1>t. /\ exec \in [Slots -> Execution]
      /\ job \in [Scans -> JobRow]
      /\ rows \in [Scans -> [Tables -> Nat]]
      /\ exec[w] \in Execution
      /\ loaded \in JobRow
      /\ found \in Result
  BY ExecType DEF TypeOK
<1>p. ASSUME NEW pc \in {"idle", "scan"} \union LoadPoints \union CommitPoints,
             Goto(w, pc)
      PROVE  exec' \in [Slots -> Execution]
  BY <1>p, <1>t DEF Goto, Execution
<1>f. Finish(w) => exec' \in [Slots -> Execution]
  BY <1>t, IdleType DEF Finish
<1>j. ASSUME NEW new \in JobRow, s \in Scans
      PROVE  [job EXCEPT ![s] = Flushed(s, loaded, new)] \in [Scans -> JobRow]
  BY <1>t, <1>j, FlushedType
<1>s. SaveTransaction(w) /\ s \in Scans =>
          job' \in [Scans -> JobRow] /\ rows' \in [Scans -> [Tables -> Nat]]
  <2>. SUFFICES ASSUME SaveTransaction(w), s \in Scans
                PROVE  /\ job' \in [Scans -> JobRow]
                       /\ rows' \in [Scans -> [Tables -> Nat]]
    OBVIOUS
  <2>1. SavedRow(found) \in JobRow
    BY <1>t, AssignedType
  <2>2. Flushed(s, loaded, SavedRow(found)) \in JobRow
    BY <1>t, <2>1, FlushedType
  <2>3. job' \in [Scans -> JobRow]
    BY <1>t, <2>1, <2>2 DEF SaveTransaction
  <2>4. AddRows(rows[s], found.rows) \in [Tables -> Nat]
    <3>1. rows[s] \in [Tables -> Nat] /\ found.rows \in [Tables -> Nat]
      BY <1>t DEF Result
    <3>2. QED
      BY <3>1 DEF AddRows
  <2>5. QED
    BY <1>t, <2>3, <2>4 DEF SaveTransaction
<1>l. exec[w].pc \in LoadPoints \union CommitPoints \union {"scan"} =>
          exec[w].pc # "idle"
  BY DEF LoadPoints, CommitPoints
<1>. HIDE DEF s, loaded, found
<1>. USE DEF brokerVars, dbVars, histVars, Fault, NoFault
<1>1. ASSUME NEW z \in Scans, StartTask(w, z) PROVE TypeOK'
  <2>1. [Idle EXCEPT !.pc = "mark_running", !.scan = z] \in Execution
    BY IdleType DEF Execution, LoadPoints
  <2>2. exec' \in [Slots -> Execution]
    BY <2>1, <1>1, <1>t DEF StartTask
  <2>3. held' \in [Scans -> Nat] /\ stale' \in [Scans -> Nat]
    <3>1. held \in [Scans -> Nat] /\ stale \in [Scans -> Nat]
      BY DEF TypeOK
    <3>2. CASE /\ held[z] > 0
               /\ held' = [held EXCEPT ![z] = @ - 1]
               /\ UNCHANGED stale
      BY <3>1, <3>2
    <3>3. CASE /\ stale[z] > 0
               /\ stale' = [stale EXCEPT ![z] = @ - 1]
               /\ UNCHANGED held
      BY <3>1, <3>3
    <3>4. QED
      BY <3>2, <3>3, <1>1 DEF StartTask
  <2>4. UNCHANGED <<api, queue, orphan, job, rows, audit, faults, histVars>>
    BY <1>1 DEF StartTask
  <2>5. QED
    BY <2>2, <2>3, <2>4 DEF TypeOK
<1>2. CASE LoadJob(w)
  <2>1. job[exec[w].scan] \in JobRow
    BY <1>2, <1>l, BusySlot DEF LoadJob
  <2>2. CommitOf[exec[w].pc] \in CommitPoints
    BY <1>2 DEF LoadJob, CommitOf, LoadPoints, CommitPoints
  <2>3. exec' \in [Slots -> Execution]
    BY <2>1, <2>2, <1>2, <1>t DEF LoadJob, Execution
  <2>4. QED
    BY <2>3, <1>2 DEF LoadJob, TypeOK
<1>3. CASE CommitRunning(w)
  <2>1. exec[w].pc # "idle" /\ Goto(w, "scan")
    BY <1>3 DEF CommitRunning
  <2>2. exec' \in [Slots -> Execution]
    BY <2>1, <1>p
  <2>3. s \in Scans
    BY <2>1, BusySlot DEF s
  <2>4. RunningRow(loaded) \in JobRow
    BY <1>t, AssignedType
  <2>5. job' \in [Scans -> JobRow]
    BY <1>3, <1>t, <1>j, <2>3, <2>4 DEF CommitRunning, s, loaded
  <2>6. QED
    BY <2>2, <2>5, <1>3 DEF CommitRunning, TypeOK
<1>4. CASE RunScan(w)
  <2>1. exec' \in [Slots -> Execution]
    <3>1. CASE \E r \in Results :
                  exec' = [exec EXCEPT ![w].pc = "save", ![w].found = r]
      <4>1. PICK r \in Results :
                exec' = [exec EXCEPT ![w].pc = "save", ![w].found = r]
        BY <3>1
      <4>2. r \in Result
        BY ScanAssumption
      <4>3. QED
        BY <4>1, <4>2, <1>t DEF Execution, LoadPoints
    <3>2. CASE Goto(w, "mark_failed")
      BY <3>2, <1>p DEF LoadPoints
    <3>3. QED
      BY <3>1, <3>2, <1>4 DEF RunScan
  <2>2. QED
    BY <2>1, <1>4 DEF RunScan, TypeOK
<1>5. CASE CommitSave(w)
  <2>1. s \in Scans
    BY <1>5, BusySlot DEF CommitSave, s
  <2>2. /\ exec' \in [Slots -> Execution]
        /\ job' \in [Scans -> JobRow]
        /\ rows' \in [Scans -> [Tables -> Nat]]
    BY <2>1, <1>5, <1>s, <1>f DEF CommitSave
  <2>3. UNCHANGED <<api, brokerVars, audit, faults, histVars>>
    BY <1>5 DEF CommitSave
  <2>4. QED
    BY <2>2, <2>3 DEF TypeOK
<1>6. CASE CommitFailed(w)
  <2>1. exec[w].pc # "idle" /\ Finish(w)
    BY <1>6 DEF CommitFailed
  <2>3. s \in Scans
    BY <2>1, BusySlot DEF s
  <2>4. FailedRow(loaded) \in JobRow
    BY <1>t, AssignedType
  <2>5. job' \in [Scans -> JobRow]
    BY <1>6, <1>t, <1>j, <2>3, <2>4 DEF CommitFailed, s, loaded
  <2>6. exec' \in [Slots -> Execution]
    BY <2>1, <1>f
  <2>7. raised' \subseteq Scans
    BY <1>6, <2>3 DEF CommitFailed, TypeOK, s
  <2>8. QED
    BY <2>5, <2>6, <2>7, <1>6 DEF CommitFailed, TypeOK
<1>7. CASE CommitSaveUnacknowledged(w)
  <2>1. s \in Scans
    BY <1>7, BusySlot DEF CommitSaveUnacknowledged, s
  <2>2. /\ job' \in [Scans -> JobRow]
        /\ rows' \in [Scans -> [Tables -> Nat]]
    BY <2>1, <1>7, <1>s DEF CommitSaveUnacknowledged
  <2>3. exec' \in [Slots -> Execution]
    BY <1>7, <1>p DEF CommitSaveUnacknowledged, LoadPoints
  <2>4. disturbances' \in Nat /\ disturbed' \subseteq Scans
    BY <2>1, <1>7 DEF CommitSaveUnacknowledged, TypeOK, s
  <2>5. UNCHANGED <<api, brokerVars, audit, faults, interrupted, raised>>
    BY <1>7 DEF CommitSaveUnacknowledged
  <2>6. QED
    BY <2>2, <2>3, <2>4, <2>5 DEF TypeOK
<1>8. CASE StoreFails(w)
  <2>1. exec[w].scan \in Scans
    BY <1>8, <1>l, BusySlot DEF StoreFails
  <2>2. exec' \in [Slots -> Execution]
    BY <1>8, <1>p, <1>f DEF StoreFails, LoadPoints
  <2>3. interrupted' \subseteq Scans /\ raised' \subseteq Scans
    BY <2>1, <1>8 DEF StoreFails, TypeOK
  <2>4. faults' \in Nat
    BY <1>8 DEF StoreFails, TypeOK
  <2>5. UNCHANGED <<api, brokerVars, job, rows, audit, disturbances, disturbed>>
    BY <1>8 DEF StoreFails
  <2>6. QED
    BY <2>2, <2>3, <2>4, <2>5 DEF TypeOK
<1>9. CASE SlotDies(w)
  <2>1. exec[w].scan \in Scans
    BY <1>9, BusySlot DEF SlotDies
  <2>2. exec' \in [Slots -> Execution]
    BY <1>9, <1>f DEF SlotDies
  <2>3. QED
    BY <2>1, <2>2, <1>9 DEF SlotDies, TypeOK
<1>10. QED
  BY <1>1, <1>2, <1>3, <1>4, <1>5, <1>6, <1>7, <1>8, <1>9
  DEF Work, WorkFails

(* TypeOK is inductive relative to IInv.                                   *)
LEMMA NextTypeOK == TypeOK /\ IInv /\ [Next]_vars => TypeOK'
<1>. SUFFICES ASSUME TypeOK, IInv, [Next]_vars
              PROVE  TypeOK'
  OBVIOUS
<1>1. CASE Next
  BY <1>1, RequestTypeOK, BrokerTypeOK, WorkTypeOK DEF Next
<1>2. CASE UNCHANGED vars
  BY <1>2 DEF vars, TypeOK
<1>3. QED
  BY <1>1, <1>2
-----------------------------------------------------------------------------
LEMMA PendingRow ==
    /\ Row("pending", NoCounts, "").status = "pending"
    /\ Row("pending", NoCounts, "").counts = NoCounts
BY DEF Row

LEMMA CopiesType ==
    /\ TypeOK => \A s \in Scans : Copies(s) \in Nat
    /\ TypeOK' => \A s \in Scans : Copies(s)' \in Nat
BY DEF TypeOK, Copies

(* A step that only moves, duplicates or loses messages, or moves a request*)
(* on, keeps the invariant.                                                *)
LEMMA MessageStep ==
    ASSUME TypeOK, TypeOK', IInv,
           UNCHANGED <<exec, job, rows>>,
           interrupted \subseteq interrupted', disturbed \subseteq disturbed',
           \A z \in Scans :
              /\ z \notin disturbed' => Copies(z)' <= Copies(z)
              /\ Copies(z)' > 0 => Copies(z) > 0
              /\ Copies(z) > 0 => Copies(z)' > 0 \/ z \in interrupted'
              /\ api'[z] \in {"idle", "created"} => api'[z] = api[z]
              /\ api[z] = "created" /\ api'[z] # "created" =>
                    z \in interrupted'
    PROVE  IInv'
<1>1. ASSUME NEW z \in Scans PROVE ScanInv(z)'
  <2>. USE DEF IInv, ScanInv, Runs
  <2>0. Copies(z) \in Nat /\ Copies(z)' \in Nat
    BY CopiesType
  <2>1. BeforeEnqueue(z)'
    <3>1. api'[z] \in {"idle", "created"} => Quiet(z)'
      <4>. SUFFICES ASSUME api'[z] \in {"idle", "created"} PROVE Quiet(z)'
        OBVIOUS
      <4>1. api'[z] = api[z]
        OBVIOUS
      <4>2. Quiet(z)
        BY <4>1 DEF BeforeEnqueue
      <4>3. Copies(z) = 0
        BY <4>2 DEF Quiet
      <4>4. Copies(z)' = 0
        BY <4>3, <2>0
      <4>5. \A w \in Slots : ~Runs(w, z)'
        BY <4>2 DEF Quiet
      <4>6. QED
        BY <4>4, <4>5 DEF Quiet
    <3>2. QED
      BY <3>1 DEF BeforeEnqueue, NoJob, Row, NoCounts, NoRows
  <2>2. (Copies(z) > 0 => job[z].status # "none")'
    OBVIOUS
  <2>3. PendingInv(z)'
    BY <2>0 DEF PendingInv
  <2>4. RunningInv(z)'
    BY DEF RunningInv, WillEnd
  <2>5. (z \notin disturbed => OnceInv(z))'
    BY <2>0 DEF OnceInv
  <2>6. QED
    BY <2>1, <2>2, <2>3, <2>4, <2>5
<1>2. ASSUME NEW w \in Slots PROVE SlotInv(w)'
  BY <1>2 DEF IInv, SlotInv
<1>3. CountsBackedByRows'
  BY DEF IInv, CountsBackedByRows
<1>4. QED
  BY <1>1, <1>2, <1>3 DEF IInv

(* A slot that executes s rules out that the request of s is at its start. *)
LEMMA RunningScan ==
    ASSUME IInv, NEW w \in Slots, NEW s \in Scans, Runs(w, s)
    PROVE  /\ api[s] \notin {"idle", "created"}
           /\ exec[w].pc # "idle"
           /\ job[s].status # "none"
<1>1. ScanInv(s) /\ SlotInv(w)
  BY DEF IInv
<1>2. exec[w].scan = s
  BY DEF Runs
<1>3. exec[w].pc # "idle"
  BY <1>1, <1>2, ScanAssumption DEF SlotInv
<1>4. ~Quiet(s)
  BY DEF Quiet
<1>5. QED
  BY <1>1, <1>2, <1>3, <1>4 DEF ScanInv, BeforeEnqueue, SlotInv

(* A step keeps the invariant of the scans it leaves alone.                *)
LEMMA OtherScan ==
    ASSUME IInv, NEW z \in Scans,
           \A v \in Slots : /\ Runs(v, z)' <=> Runs(v, z)
                            /\ Runs(v, z) => exec'[v] = exec[v],
           api'[z] = api[z], Copies(z)' = Copies(z),
           job'[z] = job[z], rows'[z] = rows[z],
           interrupted \subseteq interrupted', disturbed \subseteq disturbed'
    PROVE  ScanInv(z)'
<1>1. ScanInv(z)
  BY DEF IInv
<1>4. BeforeEnqueue(z)'
  <2>1. Quiet(z) => Quiet(z)'
    BY DEF Quiet
  <2>2. QED
    BY <1>1, <2>1 DEF ScanInv, BeforeEnqueue
<1>5. (Copies(z) > 0 => job[z].status # "none")'
  BY <1>1 DEF ScanInv
<1>6. PendingInv(z)'
  BY <1>1 DEF ScanInv, PendingInv
<1>7. RunningInv(z)'
  <2>1. \A v \in Slots : WillEnd(v, z) => WillEnd(v, z)'
    BY DEF WillEnd
  <2>2. QED
    BY <1>1, <2>1 DEF ScanInv, RunningInv
<1>8. (z \notin disturbed => OnceInv(z))'
  <2>1. z \notin disturbed' => OnceInv(z)
    BY <1>1 DEF ScanInv
  <2>2. OnceInv(z) => OnceInv(z)'
    BY DEF OnceInv
  <2>3. QED
    BY <2>1, <2>2
<1>9. QED
  BY <1>4, <1>5, <1>6, <1>7, <1>8 DEF ScanInv

(* And that of the slots, as long as no row disappears.                    *)
LEMMA OtherSlot ==
    ASSUME TypeOK, IInv, NEW v \in Slots, exec'[v] = exec[v],
           \A z \in Scans : job[z].status # "none" => job'[z].status # "none"
    PROVE  SlotInv(v)'
<1>1. SlotInv(v)
  BY DEF IInv
<1>2. exec[v].pc # "idle" => exec[v].scan \in Scans
  BY BusySlot
<1>3. exec[v].pc # "idle" => job'[exec[v].scan].status # "none"
  BY <1>1, <1>2 DEF SlotInv
<1>4. QED
  BY <1>1, <1>3 DEF SlotInv

(* So a step of the slot w in the scan s keeps the invariant when it keeps *)
(* the parts of it that are about w and s.                                 *)
LEMMA SlotStep ==
    ASSUME TypeOK, TypeOK', IInv, NEW w \in Slots, NEW s \in Scans,
           Runs(w, s) \/ exec[w].pc = "idle",
           exec'[w].scan \in {s, NoScan},
           \A v \in Slots \ {w} : exec'[v] = exec[v],
           api' = api,
           \A z \in Scans \ {s} : /\ Copies(z)' = Copies(z)
                                  /\ job'[z] = job[z]
                                  /\ rows'[z] = rows[z],
           job'[s].status # "none",
           interrupted \subseteq interrupted', disturbed \subseteq disturbed',
           ScanInv(s)', SlotInv(w)',
           \A c \in Counters : job'[s].counts[c] <= rows'[s][c]
    PROVE  IInv'
<1>1. ASSUME NEW z \in Scans PROVE ScanInv(z)'
  <2>1. CASE z = s
    BY <2>1
  <2>2. CASE z # s
    <3>1. exec[w].scan \in {s, NoScan}
      BY DEF Runs, IInv, SlotInv
    <3>2. ~Runs(w, z) /\ ~Runs(w, z)'
      BY <2>2, <3>1, ScanAssumption DEF Runs
    <3>3. \A v \in Slots : /\ Runs(v, z)' <=> Runs(v, z)
                           /\ Runs(v, z) => exec'[v] = exec[v]
      BY <3>2 DEF Runs
    <3>4. QED
      BY <2>2, <3>3, OtherScan
  <2>3. QED
    BY <2>1, <2>2
<1>2. ASSUME NEW v \in Slots PROVE SlotInv(v)'
  <2>1. \A z \in Scans : job[z].status # "none" => job'[z].status # "none"
    OBVIOUS
  <2>2. CASE v # w
    BY <2>1, <2>2, OtherSlot
  <2>3. QED
    BY <2>2
<1>3. CountsBackedByRows'
  <2>1. \A z \in Scans \ {s}, c \in Counters : job[z].counts[c] <= rows[z][c]
    BY DEF IInv, CountsBackedByRows
  <2>2. QED
    BY <2>1 DEF CountsBackedByRows
<1>4. QED
  BY <1>1, <1>2, <1>3 DEF IInv

(* The messages and the requests.                                          *)
LEMMA MessageInv ==
    ASSUME TypeOK, TypeOK', IInv,
           \/ \E s \in Scans :
                 \/ CreatePendingJobFails(s)
                 \/ EnqueueFails(s)
                 \/ WriteAuditAndAnswer(s)
                 \/ WriteAuditFails(s)
                 \/ Prefetch(s)
                 \/ VisibilityTimeout(s)
                 \/ RestoreOrphan(s)
           \/ BrokerRestart
    PROVE  IInv'
<1>t. /\ queue \in [Scans -> Nat] /\ held \in [Scans -> Nat]
      /\ stale \in [Scans -> Nat] /\ orphan \in [Scans -> Nat]
      /\ api \in [Scans -> {"idle", "created", "enqueued", "accepted",
                            "error"}]
  BY DEF TypeOK
<1>. USE DEF brokerVars, dbVars, histVars
<1>1. ASSUME NEW s \in Scans,
             \/ CreatePendingJobFails(s)
             \/ EnqueueFails(s)
             \/ WriteAuditAndAnswer(s)
             \/ WriteAuditFails(s)
      PROVE  IInv'
  <2>1. /\ UNCHANGED <<exec, job, rows, disturbed>>
        /\ interrupted \subseteq interrupted'
        /\ \A z \in Scans : Copies(z)' = Copies(z)
    BY <1>1 DEF CreatePendingJobFails, EnqueueFails, WriteAuditAndAnswer,
                WriteAuditFails, Copies
  <2>2. ASSUME NEW z \in Scans
        PROVE  /\ api'[z] \in {"idle", "created"} => api'[z] = api[z]
               /\ api[z] = "created" /\ api'[z] # "created" =>
                     z \in interrupted'
    BY <1>1, <1>t DEF CreatePendingJobFails, EnqueueFails,
                      WriteAuditAndAnswer, WriteAuditFails
  <2>3. \A z \in Scans : Copies(z) \in Nat
    BY CopiesType
  <2>4. QED
    BY <2>1, <2>2, <2>3, MessageStep
<1>2. ASSUME NEW s \in Scans, Prefetch(s) \/ RestoreOrphan(s) PROVE IInv'
  <2>1. UNCHANGED <<api, exec, job, rows, disturbed, interrupted>>
    BY <1>2 DEF Prefetch, RestoreOrphan
  <2>2. ASSUME NEW z \in Scans PROVE Copies(z)' = Copies(z)
    <3>1. CASE Prefetch(s)
      BY <3>1, <1>t DEF Prefetch, Copies
    <3>2. CASE RestoreOrphan(s)
      BY <3>2, <1>t DEF RestoreOrphan, Copies
    <3>3. QED
      BY <3>1, <3>2, <1>2
  <2>3. \A z \in Scans : Copies(z) \in Nat
    BY CopiesType
  <2>4. QED
    BY <2>1, <2>2, <2>3, MessageStep
<1>3. ASSUME NEW s \in Scans, VisibilityTimeout(s) PROVE IInv'
  <2>1. /\ UNCHANGED <<api, exec, job, rows, interrupted>>
        /\ disturbed' = disturbed \union {s}
    BY <1>3 DEF VisibilityTimeout
  <2>2. ASSUME NEW z \in Scans
        PROVE  Copies(z)' = IF z = s THEN Copies(z) + 1 ELSE Copies(z)
    BY <1>3, <1>t DEF VisibilityTimeout, Copies
  <2>3. Copies(s) > 0
    BY <1>3, <1>t DEF VisibilityTimeout, Copies
  <2>4. \A z \in Scans : Copies(z) \in Nat
    BY CopiesType
  <2>5. QED
    BY <2>1, <2>2, <2>3, <2>4, MessageStep
<1>4. CASE BrokerRestart
  <2>1. /\ UNCHANGED <<api, exec, job, rows, disturbed>>
        /\ interrupted \subseteq interrupted'
    BY <1>4 DEF BrokerRestart
  <2>2. ASSUME NEW z \in Scans
        PROVE  /\ Copies(z)' = stale[z] + held[z]
               /\ queue[z] + orphan[z] > 0 => z \in interrupted'
    BY <1>4, <1>t DEF BrokerRestart, Copies
  <2>3. ASSUME NEW z \in Scans
        PROVE  /\ Copies(z) = queue[z] + held[z] + stale[z] + orphan[z]
               /\ queue[z] \in Nat /\ held[z] \in Nat
               /\ stale[z] \in Nat /\ orphan[z] \in Nat
    BY <1>t DEF Copies
  <2>4. ASSUME NEW z \in Scans
        PROVE  /\ Copies(z)' <= Copies(z)
               /\ Copies(z) > 0 => Copies(z)' > 0 \/ z \in interrupted'
    BY <2>2, <2>3
  <2>5. \A z \in Scans : Copies(z)' > 0 => Copies(z) > 0
    BY <2>2, <2>3
  <2>6. QED
    BY <2>1, <2>4, <2>5, MessageStep
<1>5. QED
  BY <1>1, <1>2, <1>3, <1>4

(* The worker's death: every slot is idle, and what ran is interrupted.    *)
LEMMA WorkerDiesInv ==
    ASSUME TypeOK, TypeOK', IInv, WorkerDies
    PROVE  IInv'
<1>1. /\ UNCHANGED <<api, job, rows, disturbed>>
      /\ \A w \in Slots : exec'[w] = Idle
      /\ interrupted \subseteq interrupted'
  BY DEF WorkerDies, dbVars
<1>2. \A w \in Slots, z \in Scans : ~Runs(w, z)'
  BY <1>1, ScanAssumption DEF Runs, Idle
<1>3. ASSUME NEW z \in Scans
      PROVE  /\ Copies(z) \in Nat
             /\ Copies(z)' \in Nat
             /\ Copies(z)' <= Copies(z)
             /\ Copies(z) > 0 => Copies(z)' > 0 \/ z \in interrupted'
  <2>1. /\ queue[z] \in Nat /\ held[z] \in Nat
        /\ stale[z] \in Nat /\ orphan[z] \in Nat
    BY DEF TypeOK
  <2>2. Copies(z)' = queue[z] + orphan[z] + held[z]
    BY <2>1 DEF WorkerDies, Copies, Unacknowledged
  <2>3. stale[z] > 0 => z \in interrupted'
    BY DEF WorkerDies
  <2>4. QED
    BY <2>1, <2>2, <2>3 DEF Copies
<1>4. ASSUME NEW z \in Scans, NEW w \in Slots, Runs(w, z)
      PROVE  z \in interrupted'
  BY <1>4 DEF WorkerDies, Executing, Runs
<1>5. ASSUME NEW z \in Scans PROVE ScanInv(z)'
  <2>0. ScanInv(z)
    BY DEF IInv
  <2>1. BeforeEnqueue(z)'
    <3>1. Quiet(z) => Quiet(z)'
      BY <1>2, <1>3 DEF Quiet
    <3>2. QED
      BY <1>1, <2>0, <3>1 DEF ScanInv, BeforeEnqueue
  <2>2. (Copies(z) > 0 => job[z].status # "none")'
    BY <1>1, <1>3, <2>0 DEF ScanInv
  <2>3. PendingInv(z)'
    BY <1>1, <1>2, <1>3, <1>4, <2>0 DEF ScanInv, PendingInv
  <2>4. RunningInv(z)'
    <3>1. job[z].status = "running" => z \in interrupted'
      BY <1>1, <1>4, <2>0 DEF ScanInv, RunningInv, WillEnd
    <3>2. QED
      BY <1>1, <3>1 DEF RunningInv
  <2>5. (z \notin disturbed => OnceInv(z))'
    BY <1>1, <1>2, <1>3, <2>0 DEF ScanInv, OnceInv
  <2>6. QED
    BY <2>1, <2>2, <2>3, <2>4, <2>5 DEF ScanInv
<1>6. ASSUME NEW w \in Slots PROVE SlotInv(w)'
  BY <1>1 DEF SlotInv, Idle, CommitPoints
<1>7. CountsBackedByRows'
  BY <1>1 DEF IInv, CountsBackedByRows
<1>8. QED
  BY <1>5, <1>6, <1>7 DEF IInv

(* The first two steps of a request, which touch one quiet scan.           *)
LEMMA CreateInv ==
    ASSUME TypeOK, TypeOK', IInv, NEW s \in Scans, CreatePendingJob(s)
    PROVE  IInv'
<1>1. /\ UNCHANGED <<queue, held, stale, orphan, exec, rows, disturbed,
                     interrupted>>
      /\ api[s] = "idle"
      /\ api' = [api EXCEPT ![s] = "created"]
      /\ job' = [job EXCEPT ![s] = Row("pending", NoCounts, "")]
  BY DEF CreatePendingJob, brokerVars, histVars
<1>2. /\ \A z \in Scans : Copies(z)' = Copies(z)
      /\ \A w \in Slots, z \in Scans : Runs(w, z)' <=> Runs(w, z)
  BY <1>1 DEF Copies, Runs
<1>3. /\ api'[s] = "created"
      /\ job'[s] = Row("pending", NoCounts, "")
      /\ \A z \in Scans \ {s} : api'[z] = api[z] /\ job'[z] = job[z]
  BY <1>1 DEF TypeOK
<1>4. Quiet(s) /\ Quiet(s)' /\ rows[s] = NoRows /\ rows'[s] = NoRows
  BY <1>1, <1>2 DEF IInv, ScanInv, BeforeEnqueue, Quiet
<1>5. ScanInv(s)'
  <2>1. job'[s].status = "pending" /\ job'[s].counts = NoCounts
    BY <1>3, PendingRow
  <2>2. BeforeEnqueue(s)'
    BY <1>3, <1>4 DEF BeforeEnqueue
  <2>3. PendingInv(s)'
    <3>1. \A w \in Slots : ~Runs(w, s)'
      BY <1>4 DEF Quiet
    <3>2. QED
      BY <1>3, <3>1 DEF PendingInv
  <2>4. RunningInv(s)'
    BY <2>1 DEF RunningInv
  <2>5. OnceInv(s)'
    <3>1. Copies(s)' = 0 /\ \A w \in Slots : ~Runs(w, s)'
      BY <1>4 DEF Quiet
    <3>2. QED
      BY <1>4, <2>1, <3>1 DEF OnceInv
  <2>6. QED
    BY <2>1, <2>2, <2>3, <2>4, <2>5 DEF ScanInv
<1>6. ASSUME NEW z \in Scans \ {s} PROVE ScanInv(z)'
  BY <1>1, <1>2, <1>3, OtherScan
<1>7. ASSUME NEW w \in Slots PROVE SlotInv(w)'
  <2>1. \A z \in Scans : job[z].status # "none" => job'[z].status # "none"
    BY <1>3, PendingRow
  <2>2. QED
    BY <1>1, <2>1, OtherSlot
<1>8. CountsBackedByRows'
  <2>1. \A c \in Counters : job'[s].counts[c] <= rows'[s][c]
    <3>1. job'[s].counts = NoCounts
      BY <1>3, PendingRow
    <3>2. QED
      BY <1>4, <3>1 DEF NoCounts, NoRows, Counters, Tables
  <2>2. \A z \in Scans \ {s}, c \in Counters :
            job'[z].counts[c] <= rows'[z][c]
    BY <1>1, <1>3 DEF IInv, CountsBackedByRows
  <2>3. QED
    BY <2>1, <2>2 DEF CountsBackedByRows
<1>9. QED
  BY <1>5, <1>6, <1>7, <1>8 DEF IInv

LEMMA EnqueueInv ==
    ASSUME TypeOK, TypeOK', IInv, NEW s \in Scans, Enqueue(s)
    PROVE  IInv'
<1>1. /\ UNCHANGED <<held, stale, orphan, exec, job, rows, interrupted>>
      /\ api[s] = "created"
      /\ api' = [api EXCEPT ![s] = "enqueued"]
      /\ disturbed \subseteq disturbed'
  BY DEF Enqueue, ReadyToEnqueue, dbVars
<1>2. /\ Quiet(s) /\ rows[s] = NoRows
      /\ job[s] = Row("pending", NoCounts, "")
  BY <1>1 DEF IInv, ScanInv, BeforeEnqueue
<1>3. /\ \A z \in Scans \ {s} : Copies(z)' = Copies(z) /\ api'[z] = api[z]
      /\ Copies(s)' > 0 /\ api'[s] = "enqueued"
      /\ s \notin disturbed' => Copies(s)' = 1
  <2>1. queue \in [Scans -> Nat] /\ api \in [Scans -> {"idle", "created",
                                       "enqueued", "accepted", "error"}]
    BY DEF TypeOK
  <2>2. ASSUME NEW n \in {1, 2}, Send(s, n)
        PROVE  /\ \A z \in Scans \ {s} : Copies(z)' = Copies(z)
               /\ Copies(s)' = Copies(s) + n
    <3>1. /\ held[s] \in Nat /\ stale[s] \in Nat /\ orphan[s] \in Nat
      BY DEF TypeOK
    <3>2. QED
      BY <1>1, <2>1, <2>2, <3>1 DEF Send, Copies
  <2>3. Copies(s) = 0
    BY <1>2 DEF Quiet
  <2>4. \/ Send(s, 1)
        \/ Send(s, 2) /\ s \in disturbed'
    BY DEF Enqueue
  <2>5. \A z \in Scans \ {s} : api'[z] = api[z]
    BY <1>1, <2>1
  <2>6. api'[s] = "enqueued"
    BY <1>1, <2>1
  <2>7. CASE Send(s, 1)
    BY <2>2, <2>3, <2>5, <2>6, <2>7
  <2>8. CASE Send(s, 2) /\ s \in disturbed'
    BY <2>2, <2>3, <2>5, <2>6, <2>8
  <2>9. QED
    BY <2>4, <2>7, <2>8
<1>4. \A w \in Slots, z \in Scans : Runs(w, z)' <=> Runs(w, z)
  BY <1>1 DEF Runs
<1>5. ScanInv(s)'
  <2>1. job'[s].status = "pending" /\ job'[s].counts = NoCounts
    BY <1>1, <1>2, PendingRow
  <2>2. \A w \in Slots : ~Runs(w, s)'
    BY <1>2, <1>4 DEF Quiet
  <2>3. BeforeEnqueue(s)'
    BY <1>3 DEF BeforeEnqueue
  <2>4. PendingInv(s)'
    BY <1>3, <2>2 DEF PendingInv
  <2>5. RunningInv(s)'
    BY <2>1 DEF RunningInv
  <2>6. (s \notin disturbed => OnceInv(s))'
    <3>1. rows'[s] = NoRows
      BY <1>1, <1>2
    <3>2. QED
      BY <1>3, <2>1, <2>2, <3>1 DEF OnceInv
  <2>7. QED
    BY <2>1, <2>3, <2>4, <2>5, <2>6 DEF ScanInv
<1>6. ASSUME NEW z \in Scans \ {s} PROVE ScanInv(z)'
  BY <1>1, <1>3, <1>4, OtherScan
<1>7. (\A w \in Slots : SlotInv(w)') /\ CountsBackedByRows'
  BY <1>1, OtherSlot DEF IInv, CountsBackedByRows
<1>8. QED
  BY <1>5, <1>6, <1>7 DEF IInv

(* What is known of a busy slot and its scan.                              *)
LEMMA BusyScan ==
    ASSUME TypeOK, IInv, NEW w \in Slots, NEW s \in Scans,
           exec[w].pc # "idle", exec[w].scan = s
    PROVE  /\ Runs(w, s)
           /\ api[s] \notin {"idle", "created"}
           /\ job[s].status # "none"
           /\ ScanInv(s)
           /\ SlotInv(w)
           /\ Copies(s) \in Nat
<1>1. Runs(w, s)
  BY DEF Runs
<1>2. QED
  BY <1>1, RunningScan, CopiesType DEF IInv

(* A step of the execution of s in w changes the slot, the rows of s and   *)
(* the history; what is left to show is about w and s.                     *)
LEMMA ExecutionStep ==
    ASSUME TypeOK, TypeOK', IInv, NEW w \in Slots, NEW s \in Scans,
           exec[w].pc # "idle", exec[w].scan = s,
           exec'[w].scan \in {s, NoScan},
           \A v \in Slots \ {w} : exec'[v] = exec[v],
           UNCHANGED <<api, brokerVars>>,
           \A z \in Scans \ {s} : job'[z] = job[z] /\ rows'[z] = rows[z],
           job'[s].status # "none",
           interrupted \subseteq interrupted', disturbed \subseteq disturbed',
           PendingInv(s)', RunningInv(s)', s \notin disturbed' => OnceInv(s)',
           SlotInv(w)',
           \A c \in Counters : job'[s].counts[c] <= rows'[s][c]
    PROVE  IInv'
<1>1. Runs(w, s) /\ api[s] \notin {"idle", "created"}
  BY BusyScan
<1>2. \A z \in Scans : Copies(z)' = Copies(z)
  BY DEF Copies, brokerVars
<1>3. BeforeEnqueue(s)'
  BY <1>1 DEF BeforeEnqueue
<1>4. ScanInv(s)'
  BY <1>3 DEF ScanInv
<1>5. QED
  BY <1>1, <1>2, <1>4, SlotStep

LEMMA StartTaskInv ==
    ASSUME TypeOK, TypeOK', IInv, NEW w \in Slots, NEW s \in Scans,
           StartTask(w, s)
    PROVE  IInv'
<1>1. /\ UNCHANGED <<api, queue, orphan, job, rows, disturbed, interrupted>>
      /\ exec[w].pc = "idle"
      /\ exec' = [exec EXCEPT ![w] = [Idle EXCEPT !.pc = "mark_running",
                                                  !.scan = s]]
  BY DEF StartTask, dbVars, histVars
<1>2. /\ exec'[w].pc = "mark_running" /\ exec'[w].scan = s
      /\ \A v \in Slots \ {w} : exec'[v] = exec[v]
  BY <1>1 DEF TypeOK, Idle
<1>3. /\ Copies(s) > 0 /\ Copies(s)' = Copies(s) - 1
      /\ \A z \in Scans \ {s} : Copies(z)' = Copies(z)
      /\ Copies(s) \in Nat
  <2>1. /\ queue \in [Scans -> Nat] /\ held \in [Scans -> Nat]
        /\ stale \in [Scans -> Nat] /\ orphan \in [Scans -> Nat]
    BY DEF TypeOK
  <2>2. CASE /\ held[s] > 0
             /\ held' = [held EXCEPT ![s] = @ - 1]
             /\ UNCHANGED stale
    BY <2>1, <2>2, <1>1 DEF Copies
  <2>3. CASE /\ stale[s] > 0
             /\ stale' = [stale EXCEPT ![s] = @ - 1]
             /\ UNCHANGED held
    BY <2>1, <2>3, <1>1 DEF Copies
  <2>4. QED
    BY <2>2, <2>3 DEF StartTask
<1>4. ScanInv(s) /\ ~Runs(w, s)
  BY <1>1, ScanAssumption DEF IInv, SlotInv, Runs
<1>5. /\ api[s] \notin {"idle", "created"}
      /\ job[s].status # "none"
  <2>1. Copies(s) # 0
    BY <1>3
  <2>2. ~Quiet(s)
    BY <2>1 DEF Quiet
  <2>3. BeforeEnqueue(s) /\ job[s].status # "none"
    BY <1>3, <1>4 DEF ScanInv
  <2>4. QED
    BY <2>2, <2>3 DEF BeforeEnqueue
<1>6. Runs(w, s)' /\ \A v \in Slots \ {w} : Runs(v, s)' <=> Runs(v, s)
  BY <1>2 DEF Runs
<1>7. ScanInv(s)'
  <2>1. BeforeEnqueue(s)'
    BY <1>1, <1>5 DEF BeforeEnqueue
  <2>2. PendingInv(s)'
    BY <1>1, <1>2, <1>4, <1>6 DEF ScanInv, PendingInv
  <2>3. RunningInv(s)'
    BY <1>1, <1>2, <1>4, <1>6 DEF ScanInv, RunningInv, WillEnd
  <2>4. (s \notin disturbed => OnceInv(s))'
    <3>1. SUFFICES ASSUME OnceInv(s) PROVE OnceInv(s)'
      BY <1>1, <1>4 DEF ScanInv
    <3>2. /\ Copies(s)' = 0
          /\ job'[s].status = "pending"
          /\ \A v \in Slots : Runs(v, s)' => v = w
      BY <1>1, <1>3, <1>6, <3>1 DEF OnceInv
    <3>3. QED
      BY <1>1, <1>2, <3>1, <3>2 DEF OnceInv, CommitPoints
  <2>5. QED
    BY <1>1, <1>5, <2>1, <2>2, <2>3, <2>4 DEF ScanInv
<1>8. SlotInv(w)'
  BY <1>1, <1>2, <1>5, ScanAssumption DEF SlotInv, CommitPoints
<1>9. \A c \in Counters : job'[s].counts[c] <= rows'[s][c]
  BY <1>1 DEF IInv, CountsBackedByRows
<1>10. /\ api' = api /\ job' = job /\ rows' = rows
       /\ interrupted' = interrupted /\ disturbed' = disturbed
  BY <1>1
<1>11. \A z \in Scans \ {s} : /\ Copies(z)' = Copies(z)
                              /\ job'[z] = job[z]
                              /\ rows'[z] = rows[z]
  BY <1>3, <1>10
<1>12. exec'[w].scan \in {s, NoScan} /\ job'[s].status # "none"
  BY <1>2, <1>5, <1>10
<1>13. QED
  BY <1>1, <1>2, <1>7, <1>8, <1>9, <1>10, <1>11, <1>12, SlotStep

(* The steps of an execution that leave the tables alone: it reads, it     *)
(* scans, it fails, it dies.                                               *)
LEMMA ReadingStep ==
    ASSUME TypeOK, TypeOK', IInv, NEW w \in Slots, NEW s \in Scans,
           exec[w].pc # "idle", exec[w].scan = s,
           exec'[w].scan \in {s, NoScan},
           \A v \in Slots \ {w} : exec'[v] = exec[v],
           UNCHANGED <<api, brokerVars, job, rows>>,
           interrupted \subseteq interrupted', disturbed \subseteq disturbed',
           PendingInv(s)', RunningInv(s)', s \notin disturbed' => OnceInv(s)',
           SlotInv(w)'
    PROVE  IInv'
<1>1. job[s].status # "none"
  BY BusyScan
<1>2. job' = job /\ rows' = rows
  OBVIOUS
<1>3. \A c \in Counters : job[s].counts[c] <= rows[s][c]
  BY DEF IInv, CountsBackedByRows
<1>4. QED
  BY <1>1, <1>2, <1>3, ExecutionStep

LEMMA LoadJobInv ==
    ASSUME TypeOK, TypeOK', IInv, NEW w \in Slots, LoadJob(w)
    PROVE  IInv'
<1>1. /\ UNCHANGED <<api, brokerVars, job, rows>>
      /\ interrupted' = interrupted /\ disturbed' = disturbed
      /\ exec[w].pc \in LoadPoints
      /\ exec' = [exec EXCEPT ![w].pc = CommitOf[exec[w].pc],
                              ![w].loaded = job[exec[w].scan]]
  BY DEF LoadJob, dbVars, histVars
<1>2. exec[w].pc # "idle"
  BY <1>1 DEF LoadPoints
<1>3. PICK s \in Scans : exec[w].scan = s
  BY <1>2, BusySlot
<1>4. /\ Runs(w, s) /\ ScanInv(s) /\ SlotInv(w) /\ job[s].status # "none"
      /\ Copies(s)' = Copies(s)
  BY <1>1, <1>2, <1>3, BusyScan DEF Copies, brokerVars
<1>5. /\ exec'[w].pc = CommitOf[exec[w].pc]
      /\ exec'[w].scan = s
      /\ exec'[w].loaded = job[s]
      /\ exec'[w].found = exec[w].found
      /\ \A v \in Slots \ {w} : exec'[v] = exec[v]
  BY <1>1, <1>3 DEF TypeOK, Execution
<1>6. /\ exec[w].pc = "mark_running" => exec'[w].pc = "commit_running"
      /\ exec[w].pc = "save" => exec'[w].pc = "commit_save"
      /\ exec[w].pc = "mark_failed" => exec'[w].pc = "commit_failed"
      /\ exec[w].pc \in {"mark_running", "save", "mark_failed"}
  BY <1>1, <1>5 DEF CommitOf, LoadPoints
<1>7. \A v \in Slots : Runs(v, s)' <=> Runs(v, s)
  BY <1>3, <1>5 DEF Runs
<1>8. PendingInv(s)'
  BY <1>1, <1>4, <1>5, <1>6, <1>7 DEF ScanInv, PendingInv
<1>9. RunningInv(s)'
  BY <1>1, <1>4, <1>5, <1>6, <1>7 DEF ScanInv, RunningInv, WillEnd
<1>10. s \notin disturbed' => OnceInv(s)'
  <2>1. SUFFICES ASSUME OnceInv(s) PROVE OnceInv(s)'
    BY <1>1, <1>4 DEF ScanInv
  <2>2. \A v \in Slots : Runs(v, s)' => v = w
    BY <1>4, <1>7, <2>1 DEF OnceInv
  <2>3. job' = job /\ rows' = rows
    BY <1>1
  <2>4. QED
    BY <1>4, <1>5, <1>6, <1>7, <2>1, <2>2, <2>3 DEF OnceInv, CommitPoints
<1>11. SlotInv(w)'
  BY <1>1, <1>2, <1>4, <1>5, <1>6, ScanAssumption DEF SlotInv, CommitPoints
<1>12. QED
  BY <1>1, <1>2, <1>3, <1>5, <1>8, <1>9, <1>10, <1>11, ReadingStep

LEMMA RunScanInv ==
    ASSUME TypeOK, TypeOK', IInv, NEW w \in Slots, RunScan(w)
    PROVE  IInv'
<1>1. /\ UNCHANGED <<api, brokerVars, job, rows>>
      /\ interrupted' = interrupted /\ disturbed' = disturbed
      /\ exec[w].pc = "scan"
  BY DEF RunScan, dbVars, histVars
<1>2. exec[w].pc # "idle"
  BY <1>1
<1>3. PICK s \in Scans : exec[w].scan = s
  BY <1>2, BusySlot
<1>4. /\ Runs(w, s) /\ ScanInv(s) /\ SlotInv(w) /\ job[s].status # "none"
      /\ Copies(s)' = Copies(s)
  BY <1>1, <1>2, <1>3, BusyScan DEF Copies, brokerVars
<1>5. /\ exec'[w].pc \in {"save", "mark_failed"}
      /\ exec'[w].pc = "save" => exec'[w].found \in Results
      /\ exec'[w].scan = s
      /\ \A v \in Slots \ {w} : exec'[v] = exec[v]
  <2>1. exec \in [Slots -> Execution]
    BY DEF TypeOK
  <2>2. ASSUME NEW r \in Results,
               exec' = [exec EXCEPT ![w].pc = "save", ![w].found = r]
        PROVE  <1>5!:
    BY <1>3, <2>1, <2>2 DEF Execution
  <2>3. CASE Goto(w, "mark_failed")
    BY <1>3, <2>1, <2>3 DEF Goto, Execution
  <2>4. QED
    BY <2>2, <2>3 DEF RunScan
<1>7. \A v \in Slots : Runs(v, s)' <=> Runs(v, s)
  BY <1>3, <1>5 DEF Runs
<1>8. PendingInv(s)'
  BY <1>1, <1>4 DEF ScanInv, PendingInv
<1>9. RunningInv(s)'
  BY <1>4, <1>5, <1>7 DEF RunningInv, WillEnd
<1>10. s \notin disturbed' => OnceInv(s)'
  <2>1. SUFFICES ASSUME OnceInv(s) PROVE OnceInv(s)'
    BY <1>1, <1>4 DEF ScanInv
  <2>2. \A v \in Slots : Runs(v, s)' => v = w
    BY <1>4, <1>7, <2>1 DEF OnceInv
  <2>3. job' = job /\ rows' = rows
    BY <1>1
  <2>4. QED
    BY <1>1, <1>4, <1>5, <1>7, <2>1, <2>2, <2>3 DEF OnceInv, CommitPoints
<1>11. SlotInv(w)'
  BY <1>1, <1>2, <1>4, <1>5, ScanAssumption DEF SlotInv, CommitPoints
<1>12. QED
  BY <1>1, <1>2, <1>3, <1>5, <1>8, <1>9, <1>10, <1>11, ReadingStep

(* An execution that ends short of a commit: s is interrupted.             *)
LEMMA AbandonedStep ==
    ASSUME TypeOK, TypeOK', IInv, NEW w \in Slots,
           exec[w].pc # "idle", Finish(w),
           UNCHANGED <<api, brokerVars, job, rows>>,
           interrupted' = interrupted \union {exec[w].scan},
           disturbed' = disturbed
    PROVE  IInv'
<1>3. PICK s \in Scans : exec[w].scan = s
  BY BusySlot
<1>4. Runs(w, s) /\ ScanInv(s) /\ SlotInv(w) /\ job[s].status # "none"
  BY <1>3, BusyScan
<1>5. /\ exec'[w] = Idle
      /\ exec'[w].pc = "idle" /\ exec'[w].scan = NoScan
      /\ \A v \in Slots \ {w} : exec'[v] = exec[v]
      /\ Copies(s)' = Copies(s)
  BY DEF TypeOK, Finish, Idle, Copies, brokerVars
<1>6. s \in interrupted' /\ job' = job /\ rows' = rows
  BY <1>3
<1>7. ~Runs(w, s)' /\ \A v \in Slots \ {w} : Runs(v, s)' <=> Runs(v, s)
  BY <1>5, ScanAssumption DEF Runs
<1>8. PendingInv(s)'
  BY <1>4, <1>5, <1>6, <1>7 DEF ScanInv, PendingInv
<1>9. RunningInv(s)'
  BY <1>6 DEF RunningInv
<1>10. s \notin disturbed' => OnceInv(s)'
  <2>1. SUFFICES ASSUME OnceInv(s) PROVE OnceInv(s)'
    BY <1>4 DEF ScanInv
  <2>2. \A v \in Slots : ~Runs(v, s)'
    BY <1>4, <1>7, <2>1 DEF OnceInv
  <2>3. Copies(s) <= 1 /\ Copies(s) # 1
    BY <1>4, <2>1 DEF OnceInv
  <2>4. QED
    BY <1>5, <1>6, <2>1, <2>2, <2>3 DEF OnceInv
<1>11. SlotInv(w)'
  BY <1>5 DEF SlotInv, CommitPoints
<1>12. QED
  BY <1>3, <1>5, <1>8, <1>9, <1>10, <1>11, ReadingStep

LEMMA StoreFailsInv ==
    ASSUME TypeOK, TypeOK', IInv, NEW w \in Slots, StoreFails(w)
    PROVE  IInv'
<1>1. /\ UNCHANGED <<api, brokerVars, job, rows>>
      /\ disturbed' = disturbed
      /\ exec[w].pc \in LoadPoints \union CommitPoints
  BY DEF StoreFails, dbVars
<1>2. exec[w].pc # "idle"
  BY <1>1 DEF LoadPoints, CommitPoints
<1>3. CASE Finish(w) /\ interrupted' = interrupted \union {exec[w].scan}
  BY <1>1, <1>2, <1>3, AbandonedStep
<1>4. CASE /\ exec[w].pc \in {"save", "commit_save"}
           /\ Goto(w, "mark_failed")
           /\ UNCHANGED interrupted
  <2>3. PICK s \in Scans : exec[w].scan = s
    BY <1>2, BusySlot
  <2>4. /\ Runs(w, s) /\ ScanInv(s) /\ SlotInv(w)
        /\ job[s].status # "none"
        /\ Copies(s)' = Copies(s)
    BY <1>1, <1>2, <2>3, BusyScan DEF Copies, brokerVars
  <2>5. /\ exec'[w].pc = "mark_failed"
        /\ exec'[w].scan = s
        /\ \A v \in Slots \ {w} : exec'[v] = exec[v]
    BY <1>4, <2>3 DEF TypeOK, Goto, Execution
  <2>7. \A v \in Slots : Runs(v, s)' <=> Runs(v, s)
    BY <2>3, <2>5 DEF Runs
  <2>8. PendingInv(s)'
    BY <1>1, <1>4, <2>4 DEF ScanInv, PendingInv
  <2>9. RunningInv(s)'
    BY <2>4, <2>5, <2>7 DEF RunningInv, WillEnd
  <2>10. s \notin disturbed' => OnceInv(s)'
    <3>1. SUFFICES ASSUME OnceInv(s) PROVE OnceInv(s)'
      BY <1>1, <2>4 DEF ScanInv
    <3>2. \A v \in Slots : Runs(v, s)' => v = w
      BY <2>4, <2>7, <3>1 DEF OnceInv
    <3>3. job' = job /\ rows' = rows
      BY <1>1
    <3>4. QED
      BY <1>4, <2>4, <2>5, <2>7, <3>1, <3>2, <3>3 DEF OnceInv, CommitPoints
  <2>11. SlotInv(w)'
    BY <1>1, <2>4, <2>5, ScanAssumption DEF SlotInv, CommitPoints
  <2>12. interrupted \subseteq interrupted'
    BY <1>4
  <2>13. QED
    BY <1>1, <1>2, <2>3, <2>5, <2>8, <2>9, <2>10, <2>11, <2>12, ReadingStep
<1>5. QED
  BY <1>3, <1>4 DEF StoreFails

(* What a commit leaves of a row that exists.                              *)
LEMMA FlushedColumns ==
    ASSUME NEW s \in Scans, NEW loaded \in JobRow, NEW new \in JobRow
    PROVE  /\ Flushed(s, loaded, new).status =
                 Column(job[s].status, loaded.status, new.status)
           /\ Flushed(s, loaded, new).counts =
                 [c \in Counters |-> Column(job[s].counts[c], loaded.counts[c],
                                            new.counts[c])]
BY DEF Flushed, Row

(* mark_running and mark_failed leave the counters of the row alone.       *)
LEMMA SameCounts ==
    ASSUME TypeOK, NEW s \in Scans, NEW loaded \in JobRow,
           NEW new \in JobRow, new.counts = loaded.counts
    PROVE  Flushed(s, loaded, new).counts = job[s].counts
<1>1. job[s].counts \in [Counters -> Nat]
  BY DEF TypeOK, JobRow
<1>2. Flushed(s, loaded, new).counts = [c \in Counters |-> job[s].counts[c]]
  BY FlushedColumns DEF Column
<1>3. QED
  BY <1>1, <1>2

LEMMA AssignedColumns ==
    ASSUME NEW loaded \in JobRow
    PROVE  /\ RunningRow(loaded).status = "running"
           /\ RunningRow(loaded).counts = loaded.counts
           /\ FailedRow(loaded).status = "failed"
           /\ FailedRow(loaded).counts = loaded.counts
<1>1. FailedRow(loaded).status = "failed"
  BY DEF FailedRow, JobRow
<1>2. FailedRow(loaded).counts = loaded.counts
  BY DEF FailedRow, JobRow
<1>3. QED
  BY <1>1, <1>2 DEF RunningRow, JobRow

LEMMA NoJobStatus == NoJob.status = "none" /\ NoJob.counts = NoCounts
BY DEF NoJob, Row

LEMMA CommitRunningInv ==
    ASSUME TypeOK, TypeOK', IInv, NEW w \in Slots, CommitRunning(w)
    PROVE  IInv'
<1>1. /\ UNCHANGED <<api, brokerVars, rows>>
      /\ interrupted' = interrupted /\ disturbed' = disturbed
      /\ exec[w].pc = "commit_running"
      /\ Goto(w, "scan")
  BY DEF CommitRunning, histVars
<1>3. PICK s \in Scans : exec[w].scan = s
  BY <1>1, BusySlot
<1>l. PICK loaded \in JobRow : exec[w].loaded = loaded
  BY ExecType
<1>4. /\ Runs(w, s) /\ ScanInv(s) /\ SlotInv(w) /\ job[s].status # "none"
      /\ Copies(s)' = Copies(s)
      /\ Copies(s) \in Nat
  BY <1>1, <1>3, BusyScan DEF Copies, brokerVars
<1>5. /\ exec'[w].pc = "scan"
      /\ exec'[w].scan = s
      /\ \A v \in Slots \ {w} : exec'[v] = exec[v]
  BY <1>1, <1>3 DEF TypeOK, Goto, Execution
<1>6. \A v \in Slots : Runs(v, s)' <=> Runs(v, s)
  BY <1>3, <1>5 DEF Runs
<1>7. loaded.status # "none" /\ loaded # NoJob
  BY <1>1, <1>4, <1>l, NoJobStatus DEF SlotInv, CommitPoints
<1>8. /\ RunningRow(loaded) \in JobRow
      /\ RunningRow(loaded).status = "running"
      /\ RunningRow(loaded).counts = loaded.counts
  <2>1. NoResult \in Result
    BY IdleType
  <2>2. QED
    BY <2>1, AssignedType, AssignedColumns
<1>9. /\ job'[s] = Flushed(s, loaded, RunningRow(loaded))
      /\ \A z \in Scans \ {s} : job'[z] = job[z]
  BY <1>3, <1>l, <1>7 DEF CommitRunning, TypeOK
<1>10. /\ job'[s].status = Column(job[s].status, loaded.status, "running")
       /\ job'[s].counts = job[s].counts
  <2>1. job'[s].counts = job[s].counts
    BY <1>8, <1>9, SameCounts
  <2>2. job'[s].status = Column(job[s].status, loaded.status,
                                RunningRow(loaded).status)
    BY <1>9 DEF Flushed, Row
  <2>3. QED
    BY <1>8, <2>1, <2>2
<1>11. job'[s].status # "none" /\ job'[s].status # "pending"
  <2>1. job[s].status = "pending" => loaded.status = "pending"
    BY <1>1, <1>4, <1>l DEF ScanInv, PendingInv
  <2>2. QED
    BY <1>4, <1>10, <2>1 DEF Column
<1>12. PendingInv(s)' /\ RunningInv(s)'
  BY <1>4, <1>5, <1>6, <1>11 DEF PendingInv, RunningInv, WillEnd
<1>13. s \notin disturbed' => OnceInv(s)'
  <2>1. SUFFICES ASSUME OnceInv(s) PROVE OnceInv(s)'
    BY <1>1, <1>4 DEF ScanInv
  <2>2. \A v \in Slots : Runs(v, s)' => v = w
    BY <1>4, <1>6, <2>1 DEF OnceInv
  <2>3. /\ loaded = job[s] /\ job[s].status = "pending"
        /\ Copies(s) <= 1 /\ Copies(s) # 1
    BY <1>1, <1>4, <1>l, <2>1 DEF OnceInv, CommitPoints
  <2>4. job'[s].status = "running" /\ rows'[s] = NoRows
        /\ job'[s].counts = NoCounts
    BY <1>1, <1>10, <2>1, <2>3 DEF Column, OnceInv
  <2>5. QED
    BY <1>4, <1>5, <2>2, <2>3, <2>4 DEF OnceInv, CommitPoints
<1>14. SlotInv(w)'
  BY <1>5, <1>11, ScanAssumption DEF SlotInv, CommitPoints
<1>15. \A c \in Counters : job'[s].counts[c] <= rows'[s][c]
  BY <1>1, <1>10 DEF IInv, CountsBackedByRows
<1>16. \A z \in Scans \ {s} : job'[z] = job[z] /\ rows'[z] = rows[z]
  BY <1>1, <1>9
<1>17. QED
  BY <1>1, <1>3, <1>5, <1>11, <1>12, <1>13, <1>14, <1>15, <1>16, ExecutionStep

LEMMA CommitFailedInv ==
    ASSUME TypeOK, TypeOK', IInv, NEW w \in Slots, CommitFailed(w)
    PROVE  IInv'
<1>1. /\ UNCHANGED <<api, brokerVars, rows>>
      /\ interrupted' = interrupted /\ disturbed' = disturbed
      /\ exec[w].pc = "commit_failed"
      /\ Finish(w)
  BY DEF CommitFailed
<1>3. PICK s \in Scans : exec[w].scan = s
  BY <1>1, BusySlot
<1>l. PICK loaded \in JobRow : exec[w].loaded = loaded
  BY ExecType
<1>4. /\ Runs(w, s) /\ ScanInv(s) /\ SlotInv(w) /\ job[s].status # "none"
      /\ Copies(s)' = Copies(s)
      /\ Copies(s) \in Nat
  BY <1>1, <1>3, BusyScan DEF Copies, brokerVars
<1>5. /\ exec'[w].pc = "idle" /\ exec'[w].scan = NoScan
      /\ \A v \in Slots \ {w} : exec'[v] = exec[v]
  BY <1>1 DEF TypeOK, Finish, Idle
<1>6. ~Runs(w, s)' /\ \A v \in Slots \ {w} : Runs(v, s)' <=> Runs(v, s)
  BY <1>5, ScanAssumption DEF Runs
<1>7. loaded.status # "none" /\ loaded # NoJob
  BY <1>1, <1>4, <1>l, NoJobStatus DEF SlotInv, CommitPoints
<1>8. /\ FailedRow(loaded) \in JobRow
      /\ FailedRow(loaded).status = "failed"
      /\ FailedRow(loaded).counts = loaded.counts
  <2>1. NoResult \in Result
    BY IdleType
  <2>2. QED
    BY <2>1, AssignedType, AssignedColumns
<1>9. /\ job'[s] = Flushed(s, loaded, FailedRow(loaded))
      /\ \A z \in Scans \ {s} : job'[z] = job[z]
  BY <1>3, <1>l, <1>7 DEF CommitFailed, TypeOK
<1>10. /\ job'[s].status = Column(job[s].status, loaded.status, "failed")
       /\ job'[s].counts = job[s].counts
  <2>1. job'[s].counts = job[s].counts
    BY <1>8, <1>9, SameCounts
  <2>2. job'[s].status = Column(job[s].status, loaded.status,
                                FailedRow(loaded).status)
    BY <1>9 DEF Flushed, Row
  <2>3. QED
    BY <1>8, <2>1, <2>2
<1>11. job'[s].status # "none" /\ job'[s].status # "pending"
  <2>1. job[s].status # "pending"
    BY <1>1, <1>4 DEF ScanInv, PendingInv
  <2>2. QED
    BY <1>4, <1>10, <2>1 DEF Column
<1>12. PendingInv(s)' /\ RunningInv(s)'
  <2>1. PendingInv(s)'
    BY <1>11 DEF PendingInv
  <2>2. CASE job'[s].status = "running"
    <3>1. job[s].status = "running" /\ loaded.status = "failed"
      BY <1>10, <2>2 DEF Column
    <3>2. ~WillEnd(w, s)
      BY <1>1, <1>l, <3>1 DEF WillEnd
    <3>3. s \in interrupted \/ \E v \in Slots \ {w} : WillEnd(v, s)
      BY <1>4, <3>1, <3>2 DEF ScanInv, RunningInv
    <3>4. \A v \in Slots \ {w} : WillEnd(v, s) => WillEnd(v, s)'
      BY <1>5, <1>6 DEF WillEnd
    <3>5. s \in interrupted' \/ \E v \in Slots : WillEnd(v, s)'
      BY <1>1, <3>3, <3>4
    <3>6. QED
      BY <2>1, <3>5 DEF RunningInv
  <2>3. QED
    BY <2>1, <2>2 DEF RunningInv
<1>13. s \notin disturbed' => OnceInv(s)'
  <2>1. SUFFICES ASSUME OnceInv(s) PROVE OnceInv(s)'
    BY <1>1, <1>4 DEF ScanInv
  <2>2. \A v \in Slots : ~Runs(v, s)'
    BY <1>4, <1>6, <2>1 DEF OnceInv
  <2>3. /\ loaded = job[s] /\ job[s].status = "running"
        /\ Copies(s) <= 1 /\ Copies(s) # 1
    BY <1>1, <1>4, <1>l, <2>1 DEF OnceInv, CommitPoints
  <2>4. job'[s].status = "failed" /\ rows'[s] = NoRows
        /\ job'[s].counts = NoCounts
    BY <1>1, <1>10, <2>1, <2>3 DEF Column, OnceInv
  <2>5. QED
    BY <1>4, <2>2, <2>3, <2>4 DEF OnceInv
<1>14. SlotInv(w)'
  BY <1>5 DEF SlotInv, CommitPoints
<1>15. \A c \in Counters : job'[s].counts[c] <= rows'[s][c]
  BY <1>1, <1>10 DEF IInv, CountsBackedByRows
<1>16. \A z \in Scans \ {s} : job'[z] = job[z] /\ rows'[z] = rows[z]
  BY <1>1, <1>9
<1>17. QED
  BY <1>1, <1>3, <1>5, <1>11, <1>12, <1>13, <1>14, <1>15, <1>16, ExecutionStep

(* What the transaction of save leaves of the rows of s.                   *)
LEMMA SavedRows ==
    ASSUME TypeOK, TypeOK', IInv, NEW w \in Slots, NEW s \in Scans,
           exec[w].pc = "commit_save", exec[w].scan = s, SaveTransaction(w)
    PROVE  /\ \A z \in Scans \ {s} : job'[z] = job[z] /\ rows'[z] = rows[z]
           /\ job'[s].status =
                 Column(job[s].status, exec[w].loaded.status, "completed")
           /\ \A c \in Counters : job'[s].counts[c] <= rows'[s][c]
           /\ exec[w].loaded = job[s] /\ rows[s] = NoRows =>
                 \A c \in Counters : rows'[s][c] = job'[s].counts[c]
<1>1. Runs(w, s) /\ SlotInv(w) /\ job[s].status # "none"
  BY BusyScan
<1>2. PICK loaded \in JobRow : exec[w].loaded = loaded
  BY ExecType
<1>3. PICK r \in Result : exec[w].found = r
  BY ExecType
<1>4. loaded # NoJob
  BY <1>1, <1>2, NoJobStatus DEF SlotInv, CommitPoints
<1>5. /\ job \in [Scans -> JobRow] /\ rows \in [Scans -> [Tables -> Nat]]
      /\ r.rows \in [Tables -> Nat]
      /\ rows[s] \in [Tables -> Nat]
      /\ job[s].counts \in [Counters -> Nat]
      /\ Counters \subseteq Tables
  BY DEF TypeOK, Result, JobRow, Counters, Tables
<1>6. /\ job' = [job EXCEPT ![s] = Flushed(s, loaded, SavedRow(r))]
      /\ rows' = [rows EXCEPT ![s] = AddRows(rows[s], r.rows)]
  BY <1>2, <1>3, <1>4 DEF SaveTransaction
<1>7. /\ job'[s] = Flushed(s, loaded, SavedRow(r))
      /\ rows'[s] = AddRows(rows[s], r.rows)
      /\ \A z \in Scans \ {s} : job'[z] = job[z] /\ rows'[z] = rows[z]
  BY <1>5, <1>6
<1>8. /\ SavedRow(r).status = "completed"
      /\ SavedRow(r).counts = [c \in Counters |-> r.rows[c]]
  BY DEF SavedRow, Row
<1>9. job'[s].status = Column(job[s].status, loaded.status, "completed")
  <2>1. job'[s].status = Column(job[s].status, loaded.status,
                                SavedRow(r).status)
    BY <1>7 DEF Flushed, Row
  <2>2. QED
    BY <1>8, <2>1
<1>10. ASSUME NEW c \in Counters
       PROVE  /\ job'[s].counts[c] =
                     Column(job[s].counts[c], loaded.counts[c], r.rows[c])
              /\ rows'[s][c] = rows[s][c] + r.rows[c]
              /\ job[s].counts[c] <= rows[s][c]
              /\ job[s].counts[c] \in Nat
              /\ rows[s][c] \in Nat /\ r.rows[c] \in Nat
  <2>1. job'[s].counts = [d \in Counters |->
                             Column(job[s].counts[d], loaded.counts[d],
                                    SavedRow(r).counts[d])]
    BY <1>7 DEF Flushed, Row
  <2>2. SavedRow(r).counts[c] = r.rows[c]
    BY <1>8
  <2>3. rows'[s][c] = rows[s][c] + r.rows[c]
    BY <1>5, <1>7 DEF AddRows
  <2>4. job[s].counts[c] <= rows[s][c]
    BY DEF IInv, CountsBackedByRows
  <2>5. QED
    BY <1>5, <2>1, <2>2, <2>3, <2>4
<1>11. \A c \in Counters : job'[s].counts[c] <= rows'[s][c]
  BY <1>10 DEF Column
<1>12. ASSUME loaded = job[s], rows[s] = NoRows, NEW c \in Counters
       PROVE  rows'[s][c] = job'[s].counts[c]
  <2>1. rows[s][c] = 0
    BY <1>5, <1>12 DEF NoRows
  <2>2. job'[s].counts[c] = r.rows[c]
    BY <1>10, <1>12 DEF Column
  <2>3. QED
    BY <1>10, <2>1, <2>2
<1>13. QED
  BY <1>2, <1>7, <1>9, <1>11, <1>12

LEMMA SaveInv ==
    ASSUME TypeOK, TypeOK', IInv, NEW w \in Slots,
           CommitSave(w) \/ CommitSaveUnacknowledged(w)
    PROVE  IInv'
<1>1. /\ UNCHANGED <<api, brokerVars>> /\ interrupted' = interrupted
      /\ exec[w].pc = "commit_save" /\ SaveTransaction(w)
      /\ disturbed \subseteq disturbed'
  BY DEF CommitSave, CommitSaveUnacknowledged, histVars
<1>3. PICK s \in Scans : exec[w].scan = s
  BY <1>1, BusySlot
<1>4. /\ Runs(w, s) /\ ScanInv(s) /\ SlotInv(w) /\ job[s].status # "none"
      /\ Copies(s)' = Copies(s)
      /\ Copies(s) \in Nat
  BY <1>1, <1>3, BusyScan DEF Copies, brokerVars
<1>5. /\ \A z \in Scans \ {s} : job'[z] = job[z] /\ rows'[z] = rows[z]
      /\ job'[s].status =
            Column(job[s].status, exec[w].loaded.status, "completed")
      /\ \A c \in Counters : job'[s].counts[c] <= rows'[s][c]
      /\ exec[w].loaded = job[s] /\ rows[s] = NoRows =>
            \A c \in Counters : rows'[s][c] = job'[s].counts[c]
  BY <1>1, <1>3, SavedRows
<1>6. job'[s].status # "none" /\ job'[s].status # "pending"
  <2>1. job[s].status # "pending"
    BY <1>1, <1>4 DEF ScanInv, PendingInv
  <2>2. QED
    BY <1>4, <1>5, <2>1 DEF Column
<1>7. PendingInv(s)'
  BY <1>6 DEF PendingInv
<1>8. job'[s].status = "running" =>
          s \in interrupted \/ \E v \in Slots \ {w} : WillEnd(v, s)
  <2>1. SUFFICES ASSUME job'[s].status = "running"
                 PROVE  s \in interrupted \/ \E v \in Slots \ {w} : WillEnd(v, s)
    OBVIOUS
  <2>2. job[s].status = "running" /\ exec[w].loaded.status = "completed"
    BY <1>5, <2>1 DEF Column
  <2>3. ~WillEnd(w, s)
    BY <1>1, <2>2 DEF WillEnd
  <2>4. QED
    BY <1>4, <2>2, <2>3 DEF ScanInv, RunningInv
<1>9. CASE CommitSave(w)
  <2>1. /\ exec'[w].pc = "idle" /\ exec'[w].scan = NoScan
        /\ \A v \in Slots \ {w} : exec'[v] = exec[v]
        /\ disturbed' = disturbed
    BY <1>9 DEF CommitSave, TypeOK, Finish, Idle, histVars
  <2>2. ~Runs(w, s)' /\ \A v \in Slots \ {w} : Runs(v, s)' <=> Runs(v, s)
    BY <2>1, ScanAssumption DEF Runs
  <2>3. RunningInv(s)'
    <3>1. \A v \in Slots \ {w} : WillEnd(v, s) => WillEnd(v, s)'
      BY <2>1, <2>2 DEF WillEnd
    <3>2. job'[s].status = "running" =>
              s \in interrupted' \/ \E v \in Slots : WillEnd(v, s)'
      BY <1>1, <1>8, <3>1
    <3>3. QED
      BY <3>2 DEF RunningInv
  <2>4. s \notin disturbed' => OnceInv(s)'
    <3>1. SUFFICES ASSUME OnceInv(s) PROVE OnceInv(s)'
      BY <2>1, <1>4 DEF ScanInv
    <3>2. \A v \in Slots : ~Runs(v, s)'
      BY <1>4, <2>2, <3>1 DEF OnceInv
    <3>3. /\ exec[w].loaded = job[s] /\ job[s].status = "running"
          /\ Copies(s) <= 1 /\ Copies(s) # 1
          /\ rows[s] = NoRows
      BY <1>1, <1>4, <3>1 DEF OnceInv, CommitPoints
    <3>4. job'[s].status = "completed"
      BY <1>5, <3>3 DEF Column
    <3>5. QED
      BY <1>4, <1>5, <3>2, <3>3, <3>4 DEF OnceInv
  <2>5. SlotInv(w)'
    BY <2>1 DEF SlotInv, CommitPoints
  <2>6. QED
    BY <1>1, <1>3, <1>5, <1>6, <1>7, <2>1, <2>3, <2>4, <2>5, ExecutionStep
<1>10. CASE CommitSaveUnacknowledged(w)
  <2>1. /\ exec'[w].pc = "mark_failed" /\ exec'[w].scan = s
        /\ \A v \in Slots \ {w} : exec'[v] = exec[v]
        /\ s \in disturbed'
    BY <1>3, <1>10 DEF CommitSaveUnacknowledged, TypeOK, Goto, Execution
  <2>2. WillEnd(w, s)'
    BY <2>1 DEF WillEnd, Runs
  <2>3. RunningInv(s)'
    BY <2>2 DEF RunningInv
  <2>4. SlotInv(w)'
    BY <1>6, <2>1, ScanAssumption DEF SlotInv, CommitPoints
  <2>5. QED
    BY <1>1, <1>3, <1>5, <1>6, <1>7, <2>1, <2>3, <2>4, ExecutionStep
<1>11. QED
  BY <1>9, <1>10
-----------------------------------------------------------------------------
LEMMA InitInv == Init => TypeOK /\ IInv
<1>. SUFFICES ASSUME Init PROVE TypeOK /\ IInv
  OBVIOUS
<1>1. TypeOK
  BY NoJobType, IdleType DEF Init, TypeOK, NoRows
<1>2. ASSUME NEW s \in Scans PROVE ScanInv(s)
  <2>1. /\ Copies(s) = 0 /\ job[s] = NoJob /\ rows[s] = NoRows
        /\ \A w \in Slots : ~Runs(w, s)
    BY ScanAssumption DEF Init, Copies, Runs, Idle
  <2>2. job[s].status = "none" /\ job[s].counts = NoCounts
    BY <2>1, NoJobStatus
  <2>3. Quiet(s) /\ api[s] = "idle"
    BY <2>1 DEF Quiet, Init
  <2>4. BeforeEnqueue(s)
    BY <2>1, <2>3 DEF BeforeEnqueue
  <2>5. PendingInv(s) /\ RunningInv(s)
    BY <2>2 DEF PendingInv, RunningInv
  <2>6. OnceInv(s)
    BY <2>1, <2>2 DEF OnceInv
  <2>7. QED
    BY <2>1, <2>4, <2>5, <2>6 DEF ScanInv
<1>3. ASSUME NEW w \in Slots PROVE SlotInv(w)
  BY DEF Init, SlotInv, Idle, CommitPoints
<1>4. CountsBackedByRows
  <2>1. ASSUME NEW s \in Scans, NEW c \in Counters
        PROVE  job[s].counts[c] <= rows[s][c]
    <3>1. job[s].counts = NoCounts /\ rows[s] = NoRows
      BY DEF Init, NoJob, Row
    <3>2. QED
      BY <3>1 DEF NoCounts, NoRows, Counters, Tables
  <2>2. QED
    BY <2>1 DEF CountsBackedByRows
<1>5. QED
  BY <1>1, <1>2, <1>3, <1>4 DEF IInv

LEMMA NextInv == TypeOK /\ IInv /\ [Next]_vars => TypeOK' /\ IInv'
<1>. SUFFICES ASSUME TypeOK, IInv, [Next]_vars
              PROVE  TypeOK' /\ IInv'
  OBVIOUS
<1>1. TypeOK'
  BY NextTypeOK
<1>2. ASSUME NEW s \in Scans, Request(s) \/ RequestFails(s) PROVE IInv'
  BY <1>1, <1>2, CreateInv, EnqueueInv, MessageInv DEF Request, RequestFails
<1>3. CASE \/ \E s \in Scans : \/ Prefetch(s)
                              \/ VisibilityTimeout(s)
                              \/ RestoreOrphan(s)
           \/ BrokerRestart
  BY <1>1, <1>3, MessageInv
<1>4. CASE WorkerDies
  BY <1>1, <1>4, WorkerDiesInv
<1>5. ASSUME NEW w \in Slots, NEW s \in Scans, StartTask(w, s) PROVE IInv'
  BY <1>1, <1>5, StartTaskInv
<1>6. ASSUME NEW w \in Slots, Work(w) PROVE IInv'
  BY <1>1, <1>6, LoadJobInv, CommitRunningInv, RunScanInv, SaveInv,
     CommitFailedInv DEF Work
<1>7. ASSUME NEW w \in Slots, WorkFails(w) PROVE IInv'
  <2>1. CASE CommitSaveUnacknowledged(w)
    BY <1>1, <2>1, SaveInv
  <2>2. CASE StoreFails(w)
    BY <1>1, <2>2, StoreFailsInv
  <2>3. CASE SlotDies(w)
    BY <1>1, <2>3, AbandonedStep DEF SlotDies, dbVars
  <2>4. QED
    BY <1>7, <2>1, <2>2, <2>3 DEF WorkFails
<1>8. CASE UNCHANGED vars
  <2>1. UNCHANGED <<api, exec, job, rows, interrupted, disturbed>>
    BY <1>8 DEF vars
  <2>2. \A z \in Scans : Copies(z)' = Copies(z) /\ Copies(z) \in Nat
    BY <1>8, CopiesType DEF vars, Copies
  <2>3. QED
    BY <1>1, <2>1, <2>2, MessageStep
<1>9. QED
  BY <1>1, <1>2, <1>3, <1>4, <1>5, <1>6, <1>7, <1>8 DEF Next
-----------------------------------------------------------------------------
(* Type correctness: every variable stays in its range.                    *)
THEOREM TypeCorrect == Spec => []TypeOK
<1>1. TypeOK /\ IInv /\ [Next]_vars => TypeOK' /\ IInv'
  BY NextInv
<1>2. QED
  BY <1>1, InitInv, PTL DEF Spec

(* IInv is an invariant: with TypeOK it is inductive.                      *)
THEOREM InductiveInvariant == Spec => []IInv
<1>1. QED
  BY InitInv, NextInv, PTL DEF Spec

(* No execution of run_scan_task ever finds its job row missing: the row is*)
(* committed before the message exists.                                    *)
THEOREM TaskAlwaysFindsItsJob == Spec => []TaskFindsItsJob
<1>1. TypeOK /\ IInv => TaskFindsItsJob
  <2>. SUFFICES ASSUME TypeOK, IInv, NEW s \in Scans,
                       Copies(s) > 0 \/ Executing(s) # {}
                PROVE  job[s].status # "none"
    BY DEF TaskFindsItsJob
  <2>1. CASE Copies(s) > 0
    BY <2>1 DEF IInv, ScanInv
  <2>2. CASE Executing(s) # {}
    <3>1. PICK w \in Slots : Runs(w, s)
      BY <2>2 DEF Executing, Runs
    <3>2. QED
      BY <3>1, RunningScan
  <2>3. QED
    BY <2>1, <2>2
<1>2. QED
  BY <1>1, TypeCorrect, InductiveInvariant, PTL

(* A scan that was neither delivered twice nor saved without an answer     *)
(* shows exactly the rows its completed job counts, and none before.       *)
THEOREM AlwaysPublishedTogether == Spec => []PublishedTogether
<1>1. IInv => PublishedTogether
  BY DEF IInv, ScanInv, OnceInv, PublishedTogether
<1>2. QED
  BY <1>1, InductiveInvariant, PTL

(* Whatever is duplicated, the counters of a job never exceed its rows.    *)
THEOREM CountsAlwaysBacked == Spec => []CountsBackedByRows
<1>1. IInv => CountsBackedByRows
  BY DEF IInv
<1>2. QED
  BY <1>1, InductiveInvariant, PTL

(* A scan that was enqueued has ended, waits, or is executed, unless a     *)
(* fault took its last message or its execution.                           *)
THEOREM NeverSilentlyLost == Spec => []NothingSilentlyLost
<1>1. TypeOK /\ IInv => NothingSilentlyLost
  <2>. SUFFICES ASSUME TypeOK, IInv, NEW s \in Scans,
                       api[s] \notin {"idle", "created"},
                       job[s].status # "none",
                       job[s].status \notin Terminal,
                       s \notin interrupted
                PROVE  Copies(s) > 0 \/ Executing(s) # {}
    BY DEF NothingSilentlyLost
  <2>1. job[s].status \in {"pending", "running"}
    BY DEF TypeOK, JobRow
  <2>2. PendingInv(s) /\ RunningInv(s)
    BY DEF IInv, ScanInv
  <2>3. Copies(s) > 0 \/ \E w \in Slots : Runs(w, s)
    BY <2>1, <2>2 DEF PendingInv, RunningInv, WillEnd
  <2>4. QED
    BY <2>3 DEF Executing, Runs
<1>2. QED
  BY <1>1, TypeCorrect, InductiveInvariant, PTL

(* An undisturbed request makes one execution at a time, and none is left  *)
(* when the job has ended.                                                 *)
THEOREM AlwaysOneExecution == Spec => []OneExecution
<1>1. TypeOK /\ IInv => OneExecution
  <2>. SUFFICES ASSUME TypeOK, IInv, NEW s \in Scans, s \notin disturbed
                PROVE  Copies(s) + Cardinality(Executing(s))
                           <= IF job[s].status \in Terminal THEN 0 ELSE 1
    BY DEF OneExecution
  <2>1. Copies(s) \in Nat /\ OnceInv(s)
    BY CopiesType DEF IInv, ScanInv
  <2>2. CASE Executing(s) = {}
    <3>1. Cardinality(Executing(s)) = 0
      BY <2>2, FS_EmptySet
    <3>2. Copies(s) <= 1
      BY <2>1 DEF OnceInv
    <3>3. Copies(s) = 1 => job[s].status \notin Terminal
      BY <2>1 DEF OnceInv, Terminal
    <3>4. QED
      BY <2>1, <3>1, <3>2, <3>3
  <2>3. CASE Executing(s) # {}
    <3>1. PICK w \in Slots : Runs(w, s)
      BY <2>3 DEF Executing, Runs
    <3>2. \A v \in Slots : Runs(v, s) => v = w
      BY <2>1, <3>1 DEF OnceInv
    <3>3. Executing(s) = {w}
      BY <3>1, <3>2 DEF Executing, Runs
    <3>4. Cardinality(Executing(s)) = 1
      BY <3>3, FS_Singleton
    <3>5. Copies(s) = 0
      BY <2>1, <3>1 DEF OnceInv
    <3>6. job[s].status \notin Terminal
      BY <2>1, <3>1 DEF OnceInv, Terminal
    <3>7. QED
      BY <3>4, <3>5, <3>6
  <2>4. QED
    BY <2>2, <2>3
<1>2. QED
  BY <1>1, TypeCorrect, InductiveInvariant, PTL
-----------------------------------------------------------------------------
(***************************************************************************)
(* The steps of an undisturbed job are those of ScanJob.                   *)
(***************************************************************************)

(* What a step that is about the scan s may do to its rows.                *)
JobStep(s) ==
    \/ job'[s] = job[s] /\ rows'[s] = rows[s]
    \/ /\ job[s].status = "none" /\ job'[s].status = "pending"
       /\ rows'[s] = rows[s]
    \/ /\ job[s].status = "pending" /\ job'[s].status = "running"
       /\ rows'[s] = rows[s]
    \/ /\ job[s].status = "running" /\ job'[s].status = "completed"
       /\ \E r \in Results : rows'[s] = r.rows
    \/ /\ job[s].status = "running" /\ job'[s].status = "failed"
       /\ rows'[s] = rows[s]

Others(s) == \A z \in Scans \ {s} : job'[z] = job[z] /\ rows'[z] = rows[z]

(* What an execution of an undisturbed scan knows when it commits.         *)
LEMMA LoadedIsCurrent ==
    ASSUME TypeOK, IInv, NEW w \in Slots, NEW s \in Scans,
           exec[w].pc \in CommitPoints, exec[w].scan = s, s \notin disturbed
    PROVE  /\ exec[w].loaded = job[s] /\ job[s] # NoJob /\ job[s] \in JobRow
           /\ job[s].status = IF exec[w].pc = "commit_running"
                              THEN "pending" ELSE "running"
           /\ rows[s] = NoRows
<1>1. OnceInv(s) /\ Runs(w, s)
  BY DEF IInv, ScanInv, Runs
<1>2. /\ exec[w].loaded = job[s]
      /\ job[s].status = IF exec[w].pc = "commit_running"
                         THEN "pending" ELSE "running"
      /\ rows[s] = NoRows
  BY <1>1 DEF OnceInv, CommitPoints
<1>3. job[s] \in JobRow
  BY DEF TypeOK
<1>4. QED
  BY <1>2, <1>3, NoJobStatus

LEMMA CommitStep ==
    ASSUME TypeOK, IInv, NEW w \in Slots, NEW s \in Scans,
           exec[w].scan = s, s \notin disturbed',
           CommitRunning(w) \/ CommitSave(w) \/ CommitFailed(w)
    PROVE  JobStep(s)
<1>1. disturbed' = disturbed /\ exec[w].pc \in CommitPoints
  BY DEF CommitRunning, CommitSave, CommitFailed, histVars, CommitPoints
<1>2. PICK loaded \in JobRow : exec[w].loaded = loaded
  BY ExecType
<1>3. /\ loaded = job[s] /\ loaded # NoJob
      /\ job[s].status = IF exec[w].pc = "commit_running"
                         THEN "pending" ELSE "running"
      /\ rows[s] = NoRows
  BY <1>1, <1>2, LoadedIsCurrent
<1>4. /\ RunningRow(loaded).status = "running"
      /\ FailedRow(loaded).status = "failed"
  BY AssignedColumns
<1>5. CASE CommitRunning(w)
  <2>1. job'[s] = Flushed(s, loaded, RunningRow(loaded))
    BY <1>2, <1>3, <1>5 DEF CommitRunning, TypeOK
  <2>2. job'[s].status = Column(job[s].status, loaded.status,
                                RunningRow(loaded).status)
    BY <2>1 DEF Flushed, Row
  <2>3. job[s].status = "pending" /\ job'[s].status = "running"
    BY <1>3, <1>4, <1>5, <2>2 DEF Column, CommitRunning
  <2>4. QED
    BY <2>3, <1>5 DEF JobStep, CommitRunning
<1>6. CASE CommitFailed(w)
  <2>1. job'[s] = Flushed(s, loaded, FailedRow(loaded))
    BY <1>2, <1>3, <1>6 DEF CommitFailed, TypeOK
  <2>2. job'[s].status = Column(job[s].status, loaded.status,
                                FailedRow(loaded).status)
    BY <2>1 DEF Flushed, Row
  <2>3. job[s].status = "running" /\ job'[s].status = "failed"
    BY <1>3, <1>4, <1>6, <2>2 DEF Column, CommitFailed
  <2>4. QED
    BY <2>3, <1>6 DEF JobStep, CommitFailed
<1>7. CASE CommitSave(w)
  <2>1. PICK r \in Results : exec[w].found = r
    BY <1>7 DEF IInv, SlotInv, CommitSave
  <2>2. r.rows \in [Tables -> Nat]
    BY ScanAssumption DEF Result
  <2>3. job'[s] = Flushed(s, loaded, SavedRow(r))
    BY <1>2, <1>3, <1>7, <2>1 DEF CommitSave, SaveTransaction, TypeOK
  <2>4. rows'[s] = AddRows(NoRows, r.rows)
    BY <1>3, <1>7, <2>1 DEF CommitSave, SaveTransaction, TypeOK
  <2>5. rows'[s] = r.rows
    BY <2>2, <2>4 DEF AddRows, NoRows
  <2>6. job'[s].status = Column(job[s].status, loaded.status, "completed")
    BY <2>3 DEF Flushed, Row, SavedRow
  <2>7. job[s].status = "running" /\ job'[s].status = "completed"
    BY <1>3, <1>7, <2>6 DEF Column, CommitSave
  <2>8. QED
    BY <2>5, <2>7 DEF JobStep
<1>8. QED
  BY <1>5, <1>6, <1>7

(* Every step is about at most one job.                                    *)
LEMMA NextJobStep ==
    ASSUME TypeOK, IInv, [Next]_vars
    PROVE  \/ UNCHANGED <<job, rows>>
           \/ \E s \in Scans : /\ Others(s)
                               /\ s \notin disturbed' => JobStep(s)
<1>t. job \in [Scans -> JobRow] /\ rows \in [Scans -> [Tables -> Nat]]
  BY DEF TypeOK
<1>1. ASSUME NEW s \in Scans, CreatePendingJob(s)
      PROVE  Others(s) /\ JobStep(s)
  <2>1. /\ job[s] = NoJob
        /\ job' = [job EXCEPT ![s] = Row("pending", NoCounts, "")]
        /\ rows' = rows
    BY <1>1 DEF IInv, ScanInv, BeforeEnqueue, CreatePendingJob
  <2>2. job[s].status = "none" /\ job'[s].status = "pending"
    <3>1. job'[s] = Row("pending", NoCounts, "")
      BY <1>t, <2>1
    <3>2. QED
      BY <2>1, <3>1, NoJobStatus, PendingRow
  <2>3. Others(s)
    BY <1>t, <2>1 DEF Others
  <2>4. QED
    BY <2>1, <2>2, <2>3 DEF JobStep
<1>2. ASSUME NEW w \in Slots,
             CommitRunning(w) \/ CommitSave(w) \/ CommitFailed(w)
      PROVE  \E s \in Scans : Others(s) /\ (s \notin disturbed' => JobStep(s))
  <2>1. exec[w].pc # "idle"
    BY <1>2 DEF CommitRunning, CommitSave, CommitFailed
  <2>2. PICK s \in Scans : exec[w].scan = s
    BY <2>1, BusySlot
  <2>3. Others(s)
    BY <1>2, <1>t, <2>2 DEF Others, CommitRunning, CommitSave, CommitFailed,
                            SaveTransaction
  <2>4. QED
    BY <1>2, <2>2, <2>3, CommitStep
<1>3. ASSUME NEW w \in Slots, CommitSaveUnacknowledged(w)
      PROVE  \E s \in Scans : Others(s) /\ s \in disturbed'
  <2>1. PICK s \in Scans : exec[w].scan = s
    BY <1>3, BusySlot DEF CommitSaveUnacknowledged
  <2>2. s \in disturbed'
    BY <1>3, <2>1 DEF CommitSaveUnacknowledged
  <2>3. Others(s)
    BY <1>3, <1>t, <2>1 DEF Others, CommitSaveUnacknowledged, SaveTransaction
  <2>4. QED
    BY <2>2, <2>3
<1>. USE DEF dbVars
<1>4. ASSUME NEW s \in Scans,
             \/ RequestFails(s) \/ Enqueue(s) \/ WriteAuditAndAnswer(s)
             \/ Prefetch(s) \/ VisibilityTimeout(s) \/ RestoreOrphan(s)
      PROVE  UNCHANGED <<job, rows>>
  BY <1>4 DEF RequestFails, CreatePendingJobFails, EnqueueFails,
              WriteAuditFails, Enqueue, WriteAuditAndAnswer, Prefetch,
              VisibilityTimeout, RestoreOrphan
<1>5. ASSUME NEW w \in Slots,
             \/ \E s \in Scans : StartTask(w, s)
             \/ LoadJob(w) \/ RunScan(w) \/ StoreFails(w) \/ SlotDies(w)
      PROVE  UNCHANGED <<job, rows>>
  BY <1>5 DEF StartTask, LoadJob, RunScan, StoreFails, SlotDies
<1>6. CASE BrokerRestart \/ WorkerDies \/ UNCHANGED vars
  BY <1>6 DEF BrokerRestart, WorkerDies, vars
<1>7. CASE \E s \in Scans : \/ Request(s) \/ RequestFails(s) \/ Prefetch(s)
                            \/ VisibilityTimeout(s) \/ RestoreOrphan(s)
  BY <1>7, <1>1, <1>4 DEF Request
<1>8. CASE \E w \in Slots : \/ \E s \in Scans : StartTask(w, s)
                            \/ Work(w) \/ WorkFails(w)
  BY <1>8, <1>2, <1>3, <1>5 DEF Work, WorkFails
<1>9. QED
  BY <1>6, <1>7, <1>8 DEF Next

(* An undisturbed job row changes only forwards: pending, running, and one *)
(* final status.                                                           *)
THEOREM StatusAlwaysAdvances == Spec => StatusAdvances
<1>1. TypeOK /\ IInv /\ [Next]_vars =>
          [\A s \in Scans \ disturbed' : Advances(s)]_vars
  <2>. SUFFICES ASSUME TypeOK, IInv, [Next]_vars, NEW z \in Scans \ disturbed'
                PROVE  Advances(z)
    OBVIOUS
  <2>1. CASE UNCHANGED <<job, rows>>
    BY <2>1 DEF Advances
  <2>2. CASE \E s \in Scans : Others(s) /\ (s \notin disturbed' => JobStep(s))
    <3>1. PICK s \in Scans : Others(s) /\ (s \notin disturbed' => JobStep(s))
      BY <2>2
    <3>2. CASE z # s
      BY <3>1, <3>2 DEF Others, Advances
    <3>3. CASE z = s
      BY <3>1, <3>3 DEF JobStep, Advances, Rank
    <3>4. QED
      BY <3>2, <3>3
  <2>3. QED
    BY <2>1, <2>2, NextJobStep
<1>2. QED
  BY <1>1, TypeCorrect, InductiveInvariant, PTL DEF Spec, StatusAdvances

(* What the histories record is never forgotten, and only a task that      *)
(* could not be marked, or whose store failed, is recorded as raising.     *)
LEMMA HistoryStep ==
    ASSUME [Next]_vars
    PROVE  /\ disturbed \subseteq disturbed' /\ interrupted \subseteq interrupted'
           /\ \A s \in raised' \ raised :
                 \/ s \in interrupted'
                 \/ \E w \in Slots : CommitFailed(w) /\ exec[w].scan = s
<1>. USE DEF histVars
<1>1. ASSUME NEW s \in Scans, CreatePendingJob(s)
      PROVE  disturbed' = disturbed /\ interrupted' = interrupted /\ raised' = raised
  BY <1>1, Zenon DEF CreatePendingJob
<1>2. ASSUME NEW s \in Scans,
             \/ Enqueue(s) \/ WriteAuditAndAnswer(s) \/ RequestFails(s)
             \/ Prefetch(s) \/ VisibilityTimeout(s) \/ RestoreOrphan(s)
      PROVE  /\ disturbed \subseteq disturbed' /\ interrupted \subseteq interrupted'
             /\ raised' = raised
  BY <1>2 DEF RequestFails, Enqueue, WriteAuditAndAnswer,
     CreatePendingJobFails, EnqueueFails, WriteAuditFails, Prefetch,
     VisibilityTimeout, RestoreOrphan
<1>3. ASSUME NEW w \in Slots, CommitFailed(w)
      PROVE  /\ disturbed' = disturbed /\ interrupted' = interrupted
             /\ raised' = raised \cup {exec[w].scan}
  BY <1>3 DEF CommitFailed
<1>4. ASSUME NEW w \in Slots, StoreFails(w)
      PROVE  /\ disturbed' = disturbed /\ interrupted \subseteq interrupted'
             /\ raised' \subseteq raised \cup interrupted'
  BY <1>4 DEF StoreFails
<1>5. ASSUME NEW w \in Slots,
             \/ \E s \in Scans : StartTask(w, s)
             \/ LoadJob(w) \/ CommitRunning(w) \/ RunScan(w) \/ CommitSave(w)
             \/ CommitSaveUnacknowledged(w) \/ SlotDies(w)
      PROVE  /\ disturbed \subseteq disturbed' /\ interrupted \subseteq interrupted'
             /\ raised' = raised
  <2>1. CASE CommitSave(w) \/ CommitRunning(w) \/ RunScan(w) \/ LoadJob(w)
    BY <2>1 DEF CommitSave, CommitRunning, RunScan, LoadJob
  <2>2. CASE CommitSaveUnacknowledged(w) \/ SlotDies(w)
    BY <2>2 DEF CommitSaveUnacknowledged, SlotDies
  <2>3. CASE \E s \in Scans : StartTask(w, s)
    BY <2>3 DEF StartTask
  <2>4. QED
    BY <1>5, <2>1, <2>2, <2>3
<1>6. CASE BrokerRestart \/ WorkerDies \/ UNCHANGED vars
  BY <1>6 DEF BrokerRestart, WorkerDies, vars
<1>7. QED
  <2>1. ASSUME NEW s \in Scans,
               \/ Request(s) \/ RequestFails(s) \/ Prefetch(s)
               \/ VisibilityTimeout(s) \/ RestoreOrphan(s)
        PROVE  /\ disturbed \subseteq disturbed' /\ interrupted \subseteq interrupted'
               /\ raised' = raised
    BY <1>1, <1>2, <2>1 DEF Request
  <2>2. QED
    BY <2>1, <1>3, <1>4, <1>5, <1>6 DEF Next, Work, WorkFails

(* Neither the row nor the child rows of an undisturbed job change once it *)
(* has ended.                                                              *)
LEMMA EndedStep ==
    ASSUME TypeOK, IInv, [Next]_vars, NEW z \in Scans \ disturbed',
           job[z].status \in Terminal
    PROVE  job'[z] = job[z] /\ rows'[z] = rows[z]
<1>1. CASE UNCHANGED <<job, rows>>
  BY <1>1
<1>2. CASE \E s \in Scans : Others(s) /\ (s \notin disturbed' => JobStep(s))
  BY <1>2 DEF Others, JobStep, Terminal
<1>3. QED
  BY <1>1, <1>2, NextJobStep

(* The row of an undisturbed job whose mark_failed commits says "failed".  *)
LEMMA FailedStep ==
    ASSUME TypeOK, IInv, NEW w \in Slots, CommitFailed(w),
           exec[w].scan \notin disturbed'
    PROVE  exec[w].scan \in Scans /\ job'[exec[w].scan].status = "failed"
<1>1. exec[w].pc = "commit_failed" /\ disturbed' = disturbed
  BY DEF CommitFailed
<1>2. PICK s \in Scans : exec[w].scan = s
  BY <1>1, BusySlot
<1>3. PICK loaded \in JobRow : exec[w].loaded = loaded
  BY ExecType
<1>4. loaded = job[s] /\ loaded # NoJob /\ loaded.status = "running"
  BY <1>1, <1>2, <1>3, LoadedIsCurrent DEF CommitPoints
<1>5. job'[s] = Flushed(s, loaded, FailedRow(loaded))
  BY <1>2, <1>3, <1>4 DEF CommitFailed, TypeOK
<1>6. job'[s].status = Column(job[s].status, loaded.status, FailedRow(loaded).status)
  BY <1>5 DEF Flushed, Row
<1>7. QED
  BY <1>2, <1>4, <1>6, AssignedColumns DEF Column

(* A task that raised has left its job failed (tests/test_scan_task.py:100), *)
(* for every scan of which no fault has redelivered the message or cut off *)
(* an execution.                                                           *)
THEOREM RaisedAlwaysReported == Spec => []RaisedIsReported
<1>1. Init => RaisedIsReported
  BY DEF Init, RaisedIsReported
<1>2. TypeOK /\ IInv /\ RaisedIsReported /\ TypeOK' /\ [Next]_vars => RaisedIsReported'
  <2>. SUFFICES ASSUME TypeOK, IInv, RaisedIsReported, TypeOK', [Next]_vars,
                       NEW s \in raised' \ (disturbed' \cup interrupted')
                PROVE  job'[s].status = "failed"
    BY DEF RaisedIsReported
  <2>1. s \in Scans
    BY DEF TypeOK
  <2>2. CASE s \in raised
    <3>1. job[s].status = "failed"
      BY <2>2, HistoryStep DEF RaisedIsReported
    <3>2. QED
      BY <2>1, <3>1, EndedStep DEF Terminal
  <2>3. CASE s \notin raised
    <3>1. PICK w \in Slots : CommitFailed(w) /\ exec[w].scan = s
      BY <2>3, HistoryStep
    <3>2. QED
      BY <3>1, FailedStep
  <2>4. QED
    BY <2>2, <2>3
<1>3. QED
  BY <1>1, <1>2, TypeCorrect, InductiveInvariant, PTL DEF Spec

(* Only duplicated deliveries and lost answers separate the machinery from *)
(* what it promises: without them it implements ScanJob, whatever fails.   *)
THEOREM ScanLifecycleImplementsScanJob ==
    ASSUME MaxDisturbances = 0
    PROVE  Spec => ImplementsScanJob
<1>. DEFINE NoneDisturbed == disturbed = {}
<1>1. Init => NoneDisturbed
  BY DEF Init
<1>2. TypeOK /\ NoneDisturbed /\ [Next]_vars => NoneDisturbed'
  <2>. SUFFICES ASSUME TypeOK, NoneDisturbed, [Next]_vars
                PROVE  disturbed' = disturbed
    OBVIOUS
  <2>1. ~(disturbances < MaxDisturbances)
    BY DEF TypeOK
  <2>. USE DEF histVars
  <2>2. ASSUME NEW s \in Scans,
               \/ Request(s) \/ RequestFails(s) \/ Prefetch(s)
               \/ VisibilityTimeout(s) \/ RestoreOrphan(s)
        PROVE  disturbed' = disturbed
    BY <2>1, <2>2 DEF Request, RequestFails, CreatePendingJob, Enqueue,
       WriteAuditAndAnswer, CreatePendingJobFails, EnqueueFails,
       WriteAuditFails, Prefetch, VisibilityTimeout, RestoreOrphan
  <2>3. ASSUME NEW w \in Slots,
               \/ \E s \in Scans : StartTask(w, s)
               \/ Work(w) \/ WorkFails(w)
        PROVE  disturbed' = disturbed
    BY <2>1, <2>3 DEF StartTask, Work, WorkFails, LoadJob, CommitRunning,
       RunScan, CommitSave, CommitFailed, CommitSaveUnacknowledged,
       StoreFails, SlotDies
  <2>4. CASE BrokerRestart \/ WorkerDies \/ UNCHANGED vars
    BY <2>4 DEF BrokerRestart, WorkerDies, vars
  <2>5. QED
    BY <2>2, <2>3, <2>4 DEF Next
<1>3. Init => Promise!Init
  <2>. SUFFICES ASSUME Init PROVE Promise!Init
    OBVIOUS
  <2>1. [s \in Scans |-> job[s].status] = [s \in Scans |-> "none"]
    BY NoJobStatus DEF Init
  <2>2. rows = [s \in Scans |-> Promise!Nothing]
    BY DEF Init, NoRows, Promise!Nothing, Tables, Promise!Tables
  <2>3. QED
    BY <2>1, <2>2 DEF Promise!Init
<1>4. TypeOK /\ TypeOK' /\ IInv /\ NoneDisturbed' /\ [Next]_vars =>
          [Promise!Next]_Promise!jobVars
  <2>. SUFFICES ASSUME TypeOK, TypeOK', IInv, NoneDisturbed', [Next]_vars
                PROVE  [Promise!Next]_Promise!jobVars
    OBVIOUS
  <2>. DEFINE status == [s \in Scans |-> job[s].status]
              Became(s, new) == status' = [status EXCEPT ![s] = new]
  <2>t. /\ rows \in [Scans -> [Tables -> Nat]]
        /\ rows' \in [Scans -> [Tables -> Nat]]
    BY DEF TypeOK
  <2>1. CASE UNCHANGED <<job, rows>>
    BY <2>1 DEF Promise!jobVars
  <2>2. CASE \E s \in Scans : Others(s) /\ (s \notin disturbed' => JobStep(s))
    <3>1. PICK s \in Scans : Others(s) /\ JobStep(s)
      BY <2>2
    <3>2. ASSUME NEW new, job'[s].status = new PROVE Became(s, new)
      BY <3>1, <3>2 DEF Others
    <3>3. ASSUME NEW r, rows'[s] = r PROVE rows' = [rows EXCEPT ![s] = r]
      BY <3>1, <3>3, <2>t DEF Others
    <3>4. rows'[s] = rows[s] => rows' = rows
      BY <3>1, <2>t DEF Others
    <3>5. status[s] = job[s].status
      OBVIOUS
    <3>. HIDE DEF status
    <3>6. CASE job'[s] = job[s] /\ rows'[s] = rows[s]
      <4>1. status' = status
        BY <3>1, <3>6 DEF Others, status
      <4>2. QED
        BY <3>4, <3>6, <4>1 DEF Promise!jobVars, status
    <3>7. CASE /\ job[s].status = "none" /\ job'[s].status = "pending"
               /\ rows'[s] = rows[s]
      <4>1. Promise!Request(s)
        BY <3>2, <3>4, <3>5, <3>7 DEF Promise!Request, status
      <4>2. QED
        BY <4>1 DEF Promise!Next
    <3>8. CASE /\ job[s].status = "pending" /\ job'[s].status = "running"
               /\ rows'[s] = rows[s]
      <4>1. Promise!Begin(s)
        BY <3>2, <3>4, <3>5, <3>8 DEF Promise!Begin, status
      <4>2. QED
        BY <4>1 DEF Promise!Next
    <3>9. CASE /\ job[s].status = "running" /\ job'[s].status = "completed"
               /\ \E r \in Results : rows'[s] = r.rows
      <4>1. Promise!Complete(s)
        BY <3>2, <3>3, <3>5, <3>9 DEF Promise!Complete, status
      <4>2. QED
        BY <4>1 DEF Promise!Next
    <3>10. CASE /\ job[s].status = "running" /\ job'[s].status = "failed"
                /\ rows'[s] = rows[s]
      <4>1. Promise!Fail(s)
        BY <3>2, <3>4, <3>5, <3>10 DEF Promise!Fail, status
      <4>2. QED
        BY <4>1 DEF Promise!Next
    <3>11. QED
      BY <3>1, <3>6, <3>7, <3>8, <3>9, <3>10 DEF JobStep
  <2>3. QED
    BY <2>1, <2>2, NextJobStep
<1>. HIDE DEF NoneDisturbed
<1>5. Spec => []NoneDisturbed
  BY <1>1, <1>2, TypeCorrect, PTL DEF Spec
<1>6. QED
  BY <1>3, <1>4, <1>5, TypeCorrect, InductiveInvariant, PTL
  DEF Spec, ImplementsScanJob, Promise!Spec
-----------------------------------------------------------------------------
(* ScanWait: what `scan wait` reports is final.                            *)

(* The command and its reads change nothing that ScanLifecycle's invariant *)
(* speaks of.                                                              *)
LEMMA WaitKeepsInv ==
    ASSUME TypeOK, IInv, [WaitNext]_waitVars
    PROVE  TypeOK' /\ IInv'
<1>1. CASE Next
  BY <1>1, NextInv
<1>2. CASE UNCHANGED vars
  BY <1>2, NextInv
<1>3. CASE ReadFails
  <2>1. /\ UNCHANGED <<api, queue, held, stale, orphan, exec, job, rows, audit,
                       disturbances, disturbed, interrupted, raised>>
        /\ faults' = faults + 1
    BY <1>3 DEF ReadFails, Fault, brokerVars, dbVars, histVars
  <2>2. TypeOK'
    BY <2>1 DEF TypeOK
  <2>3. ASSUME NEW s \in Scans PROVE ScanInv(s)'
    <3>1. ScanInv(s)
      BY DEF IInv
    <3>2. Copies(s)' = Copies(s) /\ \A w \in Slots : Runs(w, s)' = Runs(w, s)
      BY <2>1 DEF Copies, Runs
    <3>3. BeforeEnqueue(s)'
      BY <2>1, <3>1, <3>2, Zenon DEF ScanInv, BeforeEnqueue, Quiet
    <3>4. PendingInv(s)'
      BY <2>1, <3>1, <3>2 DEF ScanInv, PendingInv
    <3>5. RunningInv(s)'
      BY <2>1, <3>1, <3>2 DEF ScanInv, RunningInv, WillEnd
    <3>6. s \notin disturbed => OnceInv(s)'
      BY <2>1, <3>1, <3>2 DEF ScanInv, OnceInv
    <3>7. QED
      BY <2>1, <3>1, <3>2, <3>3, <3>6, <3>4, <3>5 DEF ScanInv
  <2>4. (\A w \in Slots : SlotInv(w)') /\ CountsBackedByRows'
    BY <2>1 DEF IInv, SlotInv, CountsBackedByRows
  <2>5. QED
    BY <2>2, <2>3, <2>4 DEF IInv
<1>4. QED
  BY <1>1, <1>2, <1>3 DEF WaitNext, waitVars, Command, StartWait, Loop, ReadJob,
     ReadTable, ReadAnswer, Sleep

(* Only the steps of ScanLifecycle change its tables; they leave those of  *)
(* an undisturbed job that has ended as they are.                          *)
LEMMA EndedStays ==
    ASSUME TypeOK, IInv, [Next]_vars, Target \notin disturbed',
           job[Target].status \in Terminal
    PROVE  job'[Target] = job[Target] /\ rows'[Target] = rows[Target]
BY EndedStep, WaitAssumption

LEMMA WaitInitInv == WaitInit => TypeOK /\ IInv /\ WaitInv
<1>. SUFFICES ASSUME WaitInit PROVE TypeOK /\ IInv /\ WaitInv
  OBVIOUS
<1>1. TypeOK /\ IInv
  BY InitInv DEF WaitInit
<1>2. cli = [pc |-> "not_started", elapsed |-> 0, job |-> NoJob,
             read |-> NoRows, exit |-> "none", answered |-> "none"]
  BY DEF WaitInit
<1>3. NoJob \in JobRow /\ NoRows \in [Tables -> Nat]
  BY NoJobType DEF NoRows
<1>4. cli \in Client
  BY <1>2, <1>3 DEF Client
<1>5. cli.pc \notin DOMAIN ReadBefore /\ cli.exit \notin Terminal
  BY <1>2 DEF ReadBefore, Terminal
<1>6. QED
  BY <1>1, <1>4, <1>5 DEF WaitInv, ReadsAgree

(* A step of the scan cannot move what a final answer rests on.            *)
LEMMA ScanStepKeepsReads ==
    ASSUME TypeOK, IInv, WaitInv, Next, UNCHANGED cli
    PROVE  WaitInv'
<1>. SUFFICES ASSUME Target \notin disturbed'
              PROVE  ReadsAgree'
  BY DEF WaitInv, ReadsAgree
<1>1. Target \notin disturbed /\ ReadsAgree
  BY HistoryStep DEF WaitInv
<1>2. cli.pc \in DOMAIN ReadBefore /\ cli.job.status \in Terminal
          => job'[Target] = job[Target] /\ rows'[Target] = rows[Target]
  BY <1>1, EndedStays DEF ReadsAgree
<1>3. cli.exit \in Terminal
          => job'[Target] = job[Target] /\ rows'[Target] = rows[Target]
  BY <1>1, EndedStays DEF ReadsAgree
<1>4. QED
  BY <1>1, <1>2, <1>3 DEF ReadsAgree

(* The command's own steps: a GET reads its tables one after the other.    *)
LEMMA CommandKeepsReads ==
    ASSUME TypeOK, WaitInv, Command
    PROVE  WaitInv'
<1>1. /\ UNCHANGED vars
      /\ cli \in Client
      /\ job[Target] \in JobRow
      /\ rows[Target] \in [Tables -> Nat]
  BY WaitAssumption DEF Command, StartWait, Loop, ReadJob, ReadTable,
     ReadAnswer, Sleep, TypeOK, WaitInv
<1>2. UNCHANGED <<job, rows, disturbed>>
  BY <1>1 DEF vars
<1>3. CASE StartWait \/ Loop \/ Sleep
  <2>1. CASE StartWait
    <3>1. cli' = [cli EXCEPT !.pc = "loop"] /\ cli.pc = "not_started"
      BY <2>1 DEF StartWait
    <3>2. cli' \in Client /\ cli'.pc = "loop" /\ cli'.exit = cli.exit
      BY <1>1, <3>1 DEF Client
    <3>3. QED
      BY <3>1, <3>2 DEF WaitInv, ReadsAgree, ReadBefore
  <2>2. CASE Sleep
    <3>1. cli' = [cli EXCEPT !.pc = "loop", !.elapsed = @ + Interval]
          /\ cli.pc = "sleep"
      BY <2>2 DEF Sleep
    <3>2. cli.elapsed + Interval \in Nat
      BY <1>1, WaitAssumption DEF Client
    <3>3. cli' \in Client /\ cli'.pc = "loop" /\ cli'.exit = cli.exit
      BY <1>1, <3>1, <3>2 DEF Client
    <3>4. QED
      BY <3>1, <3>3 DEF WaitInv, ReadsAgree, ReadBefore
  <2>3. CASE Loop /\ KeepsPolling
    <3>1. cli' = [cli EXCEPT !.pc = "job"] /\ cli.pc = "loop"
      BY <2>3 DEF Loop
    <3>2. cli' \in Client /\ cli'.pc = "job" /\ cli'.exit = cli.exit
      BY <1>1, <3>1 DEF Client
    <3>3. QED
      BY <3>1, <3>2 DEF WaitInv, ReadsAgree, ReadBefore
  <2>4. CASE Loop /\ ~KeepsPolling
    <3>1. PICK exit \in {"unbound_state", "timeout"} :
              cli' = [cli EXCEPT !.pc = "done", !.exit = exit]
      BY <2>4 DEF Loop
    <3>2. cli' \in Client /\ cli'.pc = "done" /\ cli'.exit = exit
      BY <1>1, <3>1 DEF Client
    <3>3. QED
      BY <3>2 DEF WaitInv, ReadsAgree, ReadBefore, Terminal
  <2>5. QED
    BY <1>3, <2>1, <2>2, <2>3, <2>4
<1>4. CASE ReadJob
  <2>. USE <1>1, <1>4 DEF ReadJob
  <2>1. CASE job[Target] = NoJob
    <3>1. cli' = [cli EXCEPT !.pc = "done", !.exit = "not_found"]
      BY <2>1
    <3>2. cli' \in Client /\ cli'.pc = "done" /\ cli'.exit = "not_found"
      BY <3>1 DEF Client
    <3>3. QED
      BY <3>2 DEF WaitInv, ReadsAgree, Terminal, ReadBefore
  <2>2. CASE job[Target] # NoJob
    <3>1. cli' = [cli EXCEPT !.pc = "assets", !.job = job[Target], !.read = NoRows]
          /\ cli.pc = "job"
      BY <2>2 DEF NextRead
    <3>2. NoRows \in [Tables -> Nat]
      BY DEF NoRows
    <3>3. cli' \in Client
      BY <3>1, <3>2 DEF Client, Tables
    <3>4. cli'.pc = "assets" /\ cli'.job = job[Target] /\ cli'.exit = cli.exit
      BY <3>1 DEF Client
    <3>5. cli.exit \notin Terminal
      BY <3>1 DEF WaitInv
    <3>6. QED
      BY <1>2, <3>3, <3>4, <3>5 DEF WaitInv, ReadsAgree, ReadBefore
  <2>3. QED
    BY <2>1, <2>2
<1>5. CASE ReadTable
  <2>1. PICK t \in Tables : /\ cli.pc = t
                            /\ cli' = [cli EXCEPT !.pc = NextRead[t],
                                           !.read = [@ EXCEPT ![t] = rows[Target][t]]]
    BY <1>5 DEF ReadTable
  <2>2. rows[Target][t] \in Nat /\ NextRead[t] \in Tables \cup {"answer"}
    BY <1>1 DEF NextRead, Tables
  <2>3. /\ cli' \in Client /\ cli'.pc = NextRead[t]
        /\ cli'.job = cli.job /\ cli'.exit = cli.exit
        /\ cli'.read = [cli.read EXCEPT ![t] = rows[Target][t]]
    BY <1>1, <2>1, <2>2 DEF Client
  <2>4. cli.read \in [Tables -> Nat]
    BY <1>1 DEF Client
  <2>5. t \in DOMAIN ReadBefore /\ ReadBefore[NextRead[t]] \subseteq ReadBefore[t] \cup {t}
    BY DEF Tables, ReadBefore, NextRead
  <2>6. ReadBefore[NextRead[t]] \subseteq Tables
    BY DEF Tables, ReadBefore, NextRead
  <2>7. \A u \in ReadBefore[NextRead[t]] :
            \/ u = t /\ cli'.read[u] = rows[Target][u]
            \/ u \in ReadBefore[t] /\ cli'.read[u] = cli.read[u]
    BY <2>3, <2>4, <2>5, <2>6
  <2>8. cli.exit \notin Terminal
    BY <2>1 DEF WaitInv, Tables
  <2>9. QED
    BY <1>2, <2>1, <2>3, <2>5, <2>7, <2>8 DEF WaitInv, ReadsAgree
<1>6. CASE ReadAnswer
  <2>1. CASE cli.job.status \in Terminal
    <3>1. cli' = [cli EXCEPT !.pc = "done", !.answered = cli.job.status,
                             !.exit = cli.job.status]
      BY <1>6, <2>1 DEF ReadAnswer, AnsweredJob
    <3>2. /\ cli' \in Client /\ cli'.pc = "done"
          /\ cli'.exit = cli.job.status /\ cli'.read = cli.read
      BY <1>1, <2>1, <3>1 DEF Client
    <3>3. ASSUME Target \notin disturbed
          PROVE  cli.job = job[Target] /\ \A t \in Tables : cli.read[t] = rows[Target][t]
      BY <1>6, <2>1, <3>3 DEF WaitInv, ReadsAgree, ReadAnswer, ReadBefore
    <3>4. ASSUME Target \notin disturbed PROVE cli.read = rows[Target]
      BY <1>1, <3>3, <3>4 DEF Client
    <3>5. QED
      BY <1>2, <3>2, <3>3, <3>4 DEF WaitInv, ReadsAgree, ReadBefore
  <2>2. CASE cli.job.status \notin Terminal
    <3>1. cli' = [cli EXCEPT !.pc = "sleep", !.answered = cli.job.status]
      BY <1>6, <2>2 DEF ReadAnswer, AnsweredJob
    <3>2. cli.job.status \in {"none", "pending", "running"} \cup Terminal
      BY <1>1 DEF Client, JobRow
    <3>3. cli' \in Client /\ cli'.pc = "sleep" /\ cli'.exit = cli.exit
      BY <1>1, <3>1, <3>2 DEF Client
    <3>4. cli.exit \notin Terminal
      BY <1>6 DEF WaitInv, ReadAnswer
    <3>5. QED
      BY <1>2, <3>3, <3>4 DEF WaitInv, ReadsAgree, ReadBefore
  <2>3. QED
    BY <2>1, <2>2
<1>7. QED
  BY <1>3, <1>4, <1>5, <1>6 DEF Command

(* A read that fails ends the command without a verdict.                   *)
LEMMA ReadFailsKeepsReads ==
    ASSUME WaitInv, ReadFails
    PROVE  WaitInv'
<1>1. cli' = [cli EXCEPT !.pc = "done", !.exit = "not_found"] /\ cli \in Client
  BY DEF ReadFails, WaitInv
<1>2. cli' \in Client /\ cli'.pc = "done" /\ cli'.exit = "not_found"
  BY <1>1 DEF Client
<1>3. QED
  BY <1>2 DEF WaitInv, ReadsAgree, Terminal, ReadBefore

(* TypeOK, IInv and WaitInv together are inductive.                        *)
LEMMA WaitNextInv ==
    TypeOK /\ IInv /\ WaitInv /\ [WaitNext]_waitVars
        => TypeOK' /\ IInv' /\ WaitInv'
<1>. SUFFICES ASSUME TypeOK, IInv, WaitInv, [WaitNext]_waitVars
              PROVE  TypeOK' /\ IInv' /\ WaitInv'
  OBVIOUS
<1>1. TypeOK' /\ IInv'
  BY WaitKeepsInv
<1>2. ASSUME UNCHANGED waitVars PROVE WaitInv'
  <2>1. UNCHANGED <<job, rows, disturbed, cli>>
    BY <1>2 DEF waitVars, vars
  <2>2. QED
    BY <2>1 DEF WaitInv, ReadsAgree
<1>3. WaitInv'
  BY <1>2, ScanStepKeepsReads, CommandKeepsReads, ReadFailsKeepsReads DEF WaitNext
<1>4. QED
  BY <1>1, <1>3

(* While the command waits, ScanLifecycle's invariants hold.               *)
THEOREM WaitInvariant == WaitSpec => [](TypeOK /\ IInv /\ WaitInv)
BY WaitInitInv, WaitNextInv, PTL DEF WaitSpec

(* "complete" and "failed" are the job's final status, and what the command*)
(* counts is the whole result of the scan, never a mixture of two reads.   *)
THEOREM VerdictAlwaysFinal == WaitSpec => []VerdictIsFinal
<1>1. TypeOK /\ IInv /\ WaitInv => VerdictIsFinal
  <2>. SUFFICES ASSUME TypeOK, IInv, WaitInv, cli.exit \in Terminal,
                       Target \notin disturbed
                PROVE  /\ job[Target].status = cli.exit
                       /\ cli.read = rows[Target]
                       /\ \A c \in Counters : cli.read[c] = job[Target].counts[c]
    BY DEF VerdictIsFinal
  <2>1. job[Target].status = cli.exit /\ cli.read = rows[Target]
    BY DEF WaitInv, ReadsAgree
  <2>2. \A c \in Counters : rows[Target][c] = job[Target].counts[c]
    BY WaitAssumption DEF IInv, ScanInv, OnceInv, NoRows, NoCounts, Counters, Tables
  <2>3. QED
    BY <2>1, <2>2
<1>2. QED
  BY <1>1, WaitInvariant, PTL
=============================================================================
