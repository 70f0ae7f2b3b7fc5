------------------------------ MODULE SyncApi ------------------------------
(***************************************************************************)
(* The synchronous API and the commands of the CLI that use it.  POST      *)
(* /scans runs the whole scan inside the request, keeps its record in a    *)
(* dictionary of the API process (InMemoryScanStore) and then writes an    *)
(* audit record; the reading endpoints take the scan asked for or, when    *)
(* none is, the latest.  The CLI waits 30 seconds for an answer; the       *)
(* handler of a request it has given up on goes on.  Handlers run in the   *)
(* threads of the API, commands are given by several users at once.        *)
(***************************************************************************)
EXTENDS AuditLog

CONSTANTS
    Scans,      \* the ids uuid4 may give
    Clients,    \* the users of the CLI
    Omitted,    \* no --scan-id
    Missing,    \* None: there is no such scan
    MaxFaults   \* the bound on restarts, failing inserts and lost connections

ASSUME SyncAssumption ==
    /\ Clients = Actors
    /\ Clients # {}
    /\ Omitted \notin Scans /\ Missing \notin Scans
    /\ MaxFaults \in Nat

VARIABLES
    store,      \* InMemoryScanStore._scans: its keys in the order of insertion
    post,       \* post[s]: the handler of the request whose scan is to be s
    cli,        \* cli[c]: the latest command of c and what it has printed
    faults,     \* how many faults there were
    saved,      \* history: the scans saved, also before a restart
    told        \* history: the last scan that c was told is complete

syncVars == <<store, post, cli, faults, saved, told>>
vars == <<syncVars, auditVars>>

NoPost == [pc |-> "none", by |-> CHOOSE c \in Clients : TRUE, before |-> 0]

(* Also what a command leaves that failed without a word of the API's.     *)
NoCommand == [cmd |-> "none", pc |-> "ended", id |-> Omitted, outcome |-> "ok",
              stats |-> Missing, shown |-> Missing]

Init ==
    /\ store = <<>>
    /\ post = [s \in Scans |-> NoPost]
    /\ cli = [c \in Clients |-> NoCommand]
    /\ faults = 0
    /\ saved = <<>>
    /\ told = [c \in Clients |-> Missing]
    /\ AuditInit

Fault == faults < MaxFaults /\ faults' = faults + 1

Ended(command, outcome) == [command EXCEPT !.pc = "ended", !.outcome = outcome]
-----------------------------------------------------------------------------
(* `scan aws`: CloudPathClient.create_scan, and the request reaches        *)
(* create_scan, past its dependencies.                                     *)
ScanAws(c, s) ==
    /\ cli[c].pc = "ended"
    /\ post[s].pc = "none"
    /\ post' = [post EXCEPT ![s] = [@ EXCEPT !.pc = "scanning", !.by = c]]
    /\ cli' = [cli EXCEPT ![c] = [NoCommand EXCEPT !.cmd = "scan", !.pc = "posted", !.id = s]]
    /\ UNCHANGED <<store, faults, saved, told, auditVars>>

(* The client of the handler of s, if it still waits for the answer.       *)
Waits(s) == LET command == cli[post[s].by]
            IN  command.pc = "posted" /\ command.id = s

Answer(s, end, outcome) ==
    /\ post' = [post EXCEPT ![s].pc = end]
    /\ cli' = IF Waits(s)
              THEN [cli EXCEPT ![post[s].by] = Ended(@, outcome)]
              ELSE cli

ScanFailsSaved(s) ==
    /\ post[s].pc = "scanning"
    /\ Answer(s, "closed", "502")
    /\ store' = Append(store, s)
    /\ saved' = Append(saved, s)
    /\ UNCHANGED <<faults, told, auditVars>>

(* run_scan raises before store.save, its last statement: 502.             *)
ScanFails(s) ==
    /\ post[s].pc = "scanning"
    /\ Answer(s, "closed", "502")
    /\ UNCHANGED <<store, faults, saved, told, auditVars>>

(* run_scan saves its record; write_audit_log stamps its own.              *)
ScanSaved(s) ==
    /\ post[s].pc = "scanning"
    /\ store' = Append(store, s)
    /\ saved' = Append(saved, s)
    /\ post' = [post EXCEPT ![s] = [@ EXCEPT !.pc = "auditing", !.before = Len(log)]]
    /\ UNCHANGED <<cli, faults, told, auditVars>>

ScanAudited(s) ==
    /\ post[s].pc = "auditing"
    /\ Record([actor |-> post[s].by, target |-> s], post[s].before)
    /\ Answer(s, "closed", "ok")
    /\ told' = IF Waits(s) THEN [told EXCEPT ![post[s].by] = s] ELSE told
    /\ UNCHANGED <<store, faults, saved>>

(* The insert raises: 500, and the scan stays.                             *)
AuditFails(s) ==
    /\ Fault
    /\ post[s].pc = "auditing"
    /\ Answer(s, "unaudited", "500")
    /\ UNCHANGED <<store, saved, told, auditVars>>

Handle(s) == ScanFails(s) \/ ScanSaved(s) \/ ScanAudited(s)
-----------------------------------------------------------------------------
Waiting == {"posted", "asked", "half"}

(* httpx raises after 30 seconds without an answer, or when it has no      *)
(* connection; nothing catches it.                                         *)
TimesOut(c) ==
    /\ cli[c].pc \in Waiting
    /\ cli' = [cli EXCEPT ![c] = NoCommand]
    /\ UNCHANGED <<store, post, faults, saved, told, auditVars>>

GetById(id) == IF Contains(store, id) THEN id ELSE Missing

Oldest == IF store = <<>> THEN Missing ELSE Head(store)

Latest == IF store = <<>> THEN Missing ELSE Last(store)

LookupLatest(id) == Latest

(* service.store.get(scan_id) if scan_id else service.store.latest()       *)
Lookup(id) == IF id = Omitted THEN Latest ELSE GetById(id)

(* `assets list`, `paths list`, `simulate`, `scan status`; `report`; of a  *)
(* scan that was printed, or without --scan-id.                            *)
Ask(c, cmd, id) ==
    /\ cli[c].pc = "ended"
    /\ id \in ToSet(saved) \cup {Omitted}
    /\ cli' = [cli EXCEPT ![c] = [NoCommand EXCEPT !.cmd = cmd, !.pc = "asked", !.id = id]]
    /\ UNCHANGED <<store, post, faults, saved, told, auditVars>>

(* A request that asks for scan "found": 404, and nothing is printed, or   *)
(* its record.                                                             *)
Shown(command, found) ==
    IF found = Missing THEN NoCommand
    ELSE [Ended(command, "ok") EXCEPT !.shown = found]

ShowOne(c) ==
    /\ cli[c].pc = "asked" /\ cli[c].cmd = "list"
    /\ cli' = [cli EXCEPT ![c] = Shown(@, Lookup(@.id))]
    /\ UNCHANGED <<store, post, faults, saved, told, auditVars>>

(* GET /statistics, the first request of a report ...                      *)
ReadStatistics(c) ==
    /\ cli[c].pc = "asked" /\ cli[c].cmd = "report"
    /\ cli' = [cli EXCEPT ![c] =
                 IF Lookup(@.id) = Missing THEN NoCommand
                 ELSE [@ EXCEPT !.pc = "half", !.stats = Lookup(cli[c].id)]]
    /\ UNCHANGED <<store, post, faults, saved, told, auditVars>>

(* ... and GET /attack-paths, the second.                                  *)
ReadPaths(c) ==
    /\ cli[c].pc = "half"
    /\ cli' = [cli EXCEPT ![c] = Shown(@, Lookup(@.id))]
    /\ UNCHANGED <<store, post, faults, saved, told, auditVars>>

Show(c) == ShowOne(c) \/ ReadStatistics(c) \/ ReadPaths(c)

(* The API restarts: the dictionary and the running handlers are gone, and *)
(* the connections they would answer on.                                   *)
ApiRestarts ==
    /\ Fault
    /\ store' = <<>>
    /\ post' = [s \in Scans |->
                  CASE post[s].pc = "scanning" -> [post[s] EXCEPT !.pc = "closed"]
                    [] post[s].pc = "auditing" -> [post[s] EXCEPT !.pc = "unaudited"]
                    [] OTHER -> post[s]]
    /\ cli' = [c \in Clients |->
                 IF cli[c].pc = "posted" THEN NoCommand ELSE cli[c]]
    /\ told' = [c \in Clients |-> Missing]
    /\ UNCHANGED <<saved, auditVars>>

Next ==
    \/ \E c \in Clients, s \in Scans : ScanAws(c, s)
    \/ \E s \in Scans : Handle(s) \/ AuditFails(s)
    \/ \E c \in Clients, cmd \in {"list", "report"}, id \in Scans \cup {Omitted} :
          Ask(c, cmd, id)
    \/ \E c \in Clients : Show(c) \/ TimesOut(c)
    \/ ApiRestarts
    \/ Reading /\ UNCHANGED syncVars

Spec == Init /\ [][Next]_vars
-----------------------------------------------------------------------------
Place(s) == CHOOSE i \in 1 .. Len(saved) : saved[i] = s

Printed(c, cmds) ==
    cli[c].pc = "ended" /\ cli[c].cmd \in cmds

IsOfOneScan(c) ==
    Printed(c, {"report"}) =>
        /\ cli[c].id # Omitted => cli[c].stats = cli[c].id /\ cli[c].shown = cli[c].id
        /\ cli[c].stats # cli[c].shown => Place(cli[c].shown) > Place(cli[c].stats)

(* A report asks twice.  With --scan-id both halves are of that scan;      *)
(* without, the paths are of the same scan as the statistics or of one     *)
(* that was saved after it.                                                *)
ReportIsOfOneScan == \A c \in Clients : IsOfOneScan(c)

IsOwnOrLater(c) ==
    (cli[c].id = Omitted /\ told[c] # Missing /\ Printed(c, {"list", "report"})) =>
        Place(cli[c].shown) >= Place(told[c])

(* After `scan aws` has said that a scan is complete, what its user lists  *)
(* is that scan or one that was saved later, until the API restarts.       *)
SeesOwnScan == \A c \in Clients : IsOwnOrLater(c)

Audited(s) == \E i \in DOMAIN log : log[i].target = s

(* What a command has said of its scan is so: a complete one was saved and *)
(* audited, after 502 there is none.  And every scan saved is audited, or  *)
(* about to be, or its own insert failed or the API died before it; and    *)
(* every record is of a scan that was saved.                               *)
AnswersAreTrue ==
    /\ \A c \in Clients : (cli[c].cmd = "scan" /\ cli[c].pc = "ended") =>
         /\ cli[c].outcome = "ok" => Audited(cli[c].id)
         /\ cli[c].outcome = "502" => ~ Contains(saved, cli[c].id)
    /\ \A s \in ToSet(saved) : Audited(s) \/ post[s].pc \in {"auditing", "unaudited"}
    /\ \A i \in DOMAIN log : Contains(saved, log[i].target)
-----------------------------------------------------------------------------
(***************************************************************************)
(* The inductive invariant behind these properties.                        *)
(***************************************************************************)
Post == [pc : {"none", "scanning", "auditing", "closed", "unaudited"},
         by : Clients,
         before : Nat]

Command == [cmd : {"none", "scan", "list", "report"},
            pc : Waiting \cup {"ended"},
            id : Scans \cup {Omitted},
            outcome : {"ok", "500", "502"},
            stats : Scans \cup {Missing},
            shown : Scans \cup {Missing}]

(* But for the reader of the audit log.                                    *)
TypeOK ==
    /\ store \in Seq(Scans)
    /\ post \in [Scans -> Post]
    /\ cli \in [Clients -> Command]
    /\ faults \in Nat
    /\ saved \in Seq(Scans)
    /\ told \in [Clients -> Scans \cup {Missing}]
    /\ log \in Seq([actor : Actors, target : Scans])

SavedScans == ToSet(saved)

(* A scan is saved once, by its own handler.                               *)
SavedInv ==
    /\ \A i, j \in DOMAIN saved : saved[i] = saved[j] => i = j
    /\ \A s \in Scans : s \in SavedScans => post[s].pc \notin {"none", "scanning"}
    /\ \A s \in Scans : post[s].pc \in {"auditing", "unaudited"} => s \in SavedScans
    /\ \A s \in SavedScans : Audited(s) \/ post[s].pc \in {"auditing", "unaudited"}
    /\ \A i \in DOMAIN log : log[i].target \in SavedScans

(* The dictionary holds saved scans, and ends with the last of them.       *)
StoreInv ==
    /\ ToSet(store) \subseteq SavedScans
    /\ store # <<>> => saved # <<>> /\ Last(store) = Last(saved)

CommandInv(c) ==
    /\ cli[c].cmd = "scan" =>
          /\ cli[c].pc \in {"posted", "ended"}
          /\ cli[c].id \in Scans
          /\ cli[c].pc = "ended" =>
                /\ cli[c].outcome = "ok" => Audited(cli[c].id)
                /\ cli[c].outcome = "502" =>
                      cli[c].id \notin SavedScans /\ post[cli[c].id].pc = "closed"
    /\ cli[c].pc = "posted" => cli[c].cmd = "scan"
    /\ cli[c].pc = "half" => cli[c].cmd = "report"
    /\ cli[c].pc = "half" \/ Printed(c, {"report"}) =>
          /\ cli[c].stats \in SavedScans
          /\ cli[c].id # Omitted => cli[c].stats = cli[c].id
    /\ Printed(c, {"list", "report"}) => cli[c].shown \in SavedScans
    /\ told[c] # Missing => told[c] \in SavedScans
    /\ IsOfOneScan(c)
    /\ IsOwnOrLater(c)

SyncInv ==
    /\ SavedInv
    /\ StoreInv
    /\ \A c \in Clients : CommandInv(c)

(* The reader, which only its own steps and a new record concern.          *)
Reader == [pc : {"idle", "reading", "done"},
           actor : Actors \cup {Anyone},
           limit : Limits \cup {0},
           offset : Nat,
           unseen : SUBSET [actor : Actors, target : Scans]]

ReaderOK == reader \in Reader /\ ReaderInv
=============================================================================
