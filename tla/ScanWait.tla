------------------------------ MODULE ScanWait ------------------------------
(***************************************************************************)
(* `cloudpath scan wait <scan_id>` (cli/main.py) polling                   *)
(* GET /api/v1/scans/{scan_id} (backend/main.py) while the scan of         *)
(* ScanLifecycle goes on.  Each GET rebuilds the record from Postgres with *)
(* one statement per table (backend/db/queries.py); under READ COMMITTED   *)
(* every statement sees what is committed when it runs, so one answer may  *)
(* mix several states of the database.                                     *)
(***************************************************************************)
EXTENDS ScanLifecycle

CONSTANTS
    Target,     \* the scan the command waits for
    Interval,   \* --interval, in seconds
    Timeout     \* --timeout, in seconds

ASSUME WaitAssumption ==
    /\ Target \in Scans
    /\ Interval \in Nat
    /\ Timeout \in Nat

VARIABLE cli    \* the command and the GET it waits for

waitVars == <<vars, cli>>

(* The reads of rebuild_scan_record, in their order.                       *)
NextRead == [job |-> "assets", assets |-> "relationships",
             relationships |-> "attack_paths", attack_paths |-> "answer"]

WaitInit ==
    /\ Init
    /\ cli = [pc |-> "not_started", elapsed |-> 0, job |-> NoJob,
              read |-> NoRows, exit |-> "none", answered |-> "none"]
-----------------------------------------------------------------------------
(* The client knows the scan id once it has the 202.                       *)
StartWait ==
    /\ cli.pc = "not_started"
    /\ api[Target] = "accepted"
    /\ cli' = [cli EXCEPT !.pc = "loop"]
    /\ UNCHANGED vars

KeepsPolling == cli.elapsed < Timeout

(* while elapsed < timeout; the message after the loop uses `state`, which *)
(* no iteration has set when the timeout is 0.                             *)
Loop ==
    /\ cli.pc = "loop"
    /\ cli' = IF KeepsPolling
              THEN [cli EXCEPT !.pc = "job"]
              ELSE [cli EXCEPT !.pc = "done",
                               !.exit = IF cli.answered = "none"
                                        THEN "unbound_state"
                                        ELSE "timeout"]
    /\ UNCHANGED vars

(* session.get(ScanJobModel, scan_id): no row is a 404.                    *)
ReadJob ==
    /\ cli.pc = "job"
    /\ cli' = IF job[Target] = NoJob
              THEN [cli EXCEPT !.pc = "done", !.exit = "not_found"]
              ELSE [cli EXCEPT !.pc = NextRead["job"], !.job = job[Target],
                               !.read = NoRows]
    /\ UNCHANGED vars

(* One query for the rows of one table.                                    *)
ReadTable ==
    /\ cli.pc \in Tables
    /\ cli' = [cli EXCEPT !.pc = NextRead[cli.pc],
                          !.read[cli.pc] = rows[Target][cli.pc]]
    /\ UNCHANGED vars

(* get_scan swallows a Postgres error and answers 404 as well; the command *)
(* prints it and exits.                                                    *)
ReadFails ==
    /\ cli.pc \in {"job"} \union Tables
    /\ cli' = [cli EXCEPT !.pc = "done", !.exit = "not_found"]
    /\ Fault
    /\ UNCHANGED <<api, brokerVars, exec, dbVars, audit, histVars>>

RefreshedJob == job[Target]

(* The answer's status comes from the job row as it was read first.        *)
AnsweredJob == cli.job

(* The command reads the answer: it ends or sleeps.                        *)
ReadAnswer ==
    /\ cli.pc = "answer"
    /\ cli' = IF AnsweredJob.status \in Terminal
              THEN [cli EXCEPT !.pc = "done", !.answered = AnsweredJob.status,
                               !.exit = AnsweredJob.status]
              ELSE [cli EXCEPT !.pc = "sleep", !.answered = AnsweredJob.status]
    /\ UNCHANGED vars

SleepUncounted ==
    /\ cli.pc = "sleep"
    /\ cli' = [cli EXCEPT !.pc = "loop"]
    /\ UNCHANGED vars

(* time.sleep(interval); only the intervals count as elapsed.              *)
Sleep ==
    /\ cli.pc = "sleep"
    /\ cli' = [cli EXCEPT !.pc = "loop", !.elapsed = @ + Interval]
    /\ UNCHANGED vars

Command ==
    \/ StartWait
    \/ Loop
    \/ ReadJob
    \/ ReadTable
    \/ ReadAnswer
    \/ Sleep

WaitNext ==
    \/ Next /\ UNCHANGED cli
    \/ Command
    \/ ReadFails

WaitSpec == WaitInit /\ [][WaitNext]_waitVars

(* The command runs on; nothing is assumed of the scan it waits for.       *)
WaitFairSpec == WaitSpec /\ WF_waitVars(Command)
-----------------------------------------------------------------------------
(* What the command reports when it says "complete" or "failed" is the     *)
(* job's final status, and with "complete" the numbers it prints, which    *)
(* are counted from the rows it read, are the whole result: no answer      *)
(* mixes the new job row with old child rows.                              *)
VerdictIsFinal ==
    cli.exit \in Terminal /\ Target \notin disturbed =>
        /\ job[Target].status = cli.exit
        /\ cli.read = rows[Target]
        /\ \A c \in Counters : cli.read[c] = job[Target].counts[c]

(* cli/main.py:140, --timeout: "Give up after this many seconds".  The     *)
(* command ends even when its scan is stuck.                               *)
WaitEnds == (cli.pc = "loop") ~> (cli.pc = "done")
-----------------------------------------------------------------------------
(***************************************************************************)
(* The inductive invariant behind VerdictIsFinal.                          *)
(***************************************************************************)
Client ==
    [pc : {"not_started", "loop", "job", "answer", "sleep", "done"}
              \union Tables,
     elapsed : Nat,
     job : JobRow,
     read : [Tables -> Nat],
     exit : {"none", "unbound_state", "timeout", "not_found"}
                \union Terminal,
     answered : {"none", "pending", "running"} \union Terminal]

(* The tables the GET has read when it is at pc.                           *)
ReadBefore == [assets |-> {}, relationships |-> {"assets"},
               attack_paths |-> {"assets", "relationships"},
               answer |-> Tables]

(* A GET that read a final job row reads the rows that belong to it, for   *)
(* both stay as they are; a verdict rests on such a GET.                   *)
ReadsAgree ==
    Target \notin disturbed =>
        /\ cli.pc \in DOMAIN ReadBefore /\ cli.job.status \in Terminal =>
              /\ cli.job = job[Target]
              /\ \A t \in ReadBefore[cli.pc] :
                    cli.read[t] = rows[Target][t]
        /\ cli.exit \in Terminal =>
              /\ job[Target].status = cli.exit
              /\ cli.read = rows[Target]

WaitInv ==
    /\ cli \in Client
    /\ cli.exit \in Terminal => cli.pc = "done"
    /\ ReadsAgree
=============================================================================
