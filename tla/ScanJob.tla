------------------------------ MODULE ScanJob ------------------------------
(***************************************************************************)
(* What POST /api/v1/scans/async promises about one scan job, without the  *)
(* broker, the workers and the transactions that deliver it: the job row   *)
(* goes through pending -> running -> completed | failed                   *)
(* (docs/PHASE9-12_NOTES.md:20, backend/db/models.py ScanJobModel.status)  *)
(* and the discovered rows become visible in the same step in which the    *)
(* job becomes "completed", once.                                          *)
(***************************************************************************)
EXTENDS Naturals

CONSTANTS
    Scans,      \* the scan ids
    Results     \* what one execution of a scan may find

VARIABLES
    status,     \* status[s]: the status a reader of the job row sees
    published   \* published[s]: the row counts published for s

jobVars == <<status, published>>

Tables == {"assets", "relationships", "attack_paths"}

Nothing == [t \in Tables |-> 0]

Init ==
    /\ status = [s \in Scans |-> "none"]
    /\ published = [s \in Scans |-> Nothing]

(* A client asks for the scan s.                                           *)
Request(s) ==
    /\ status[s] = "none"
    /\ status' = [status EXCEPT ![s] = "pending"]
    /\ UNCHANGED published

(* A worker begins to execute s.                                           *)
Begin(s) ==
    /\ status[s] = "pending"
    /\ status' = [status EXCEPT ![s] = "running"]
    /\ UNCHANGED published

(* The scan succeeds: all of its rows appear together with the status.     *)
Complete(s) ==
    /\ status[s] = "running"
    /\ \E r \in Results : published' = [published EXCEPT ![s] = r.rows]
    /\ status' = [status EXCEPT ![s] = "completed"]

(* The scan fails: nothing of it is published.                             *)
Fail(s) ==
    /\ status[s] = "running"
    /\ status' = [status EXCEPT ![s] = "failed"]
    /\ UNCHANGED published

Next == \E s \in Scans : Request(s) \/ Begin(s) \/ Complete(s) \/ Fail(s)

Spec == Init /\ [][Next]_jobVars
=============================================================================
