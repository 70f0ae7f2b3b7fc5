--------------------------- MODULE AccountAccess ---------------------------
(***************************************************************************)
(* backend/tenant_scope.py: grants of cloud accounts to users as rows of   *)
(* account_access, which has no unique constraint, and the checks that     *)
(* read them.  Every operation is a request with a session of its own;     *)
(* a statement sees what is committed when it runs.                        *)
(***************************************************************************)
EXTENDS Integers

CONSTANTS
    Users, Accounts,
    Admins,         \* the users with the role admin
    Scans,
    Unknown,        \* "unknown", the account of a job before its scan is saved
    NoJob,          \* no scan_jobs row
    Ops,            \* the operations
    MaxErrors       \* the bound on database errors

ASSUME AccessAssumption ==
    /\ Admins \subseteq Users
    /\ Unknown \notin Accounts
    /\ NoJob \notin Accounts \cup {Unknown}
    /\ MaxErrors \in Nat

Pairs == Users \X Accounts

VARIABLES
    rows,       \* how many account_access rows a pair has
    job,        \* the account_external_id of each scan_jobs row
    op,         \* the operations
    errors,     \* how many database errors there were
    mayHold     \* history: the pairs some grant may have put there

vars == <<rows, job, op, errors, mayHold>>

Says(v) == [verdict |-> v, accounts |-> {}]
Lists(A) == [verdict |-> "some", accounts |-> A]

NotStarted == [pc |-> "idle", user |-> CHOOSE u \in Users : TRUE,
               account |-> Unknown, scan |-> CHOOSE s \in Scans : TRUE,
               answer |-> Says("none")]

At(o, pc) == op[o].pc = pc
PairOf(o) == <<op[o].user, op[o].account>>

Init ==
    /\ rows = [p \in Pairs |-> 0]
    /\ job = [s \in Scans |-> NoJob]
    /\ op = [o \in Ops |-> NotStarted]
    /\ errors = 0
    /\ mayHold = {}
-----------------------------------------------------------------------------
Ends(o, a) == op' = [op EXCEPT ![o] = [@ EXCEPT !.pc = "ended", !.answer = a]]

(* one_or_none() raises MultipleResultsFound on a second row.              *)
Ambiguous(p) == rows[p] > 1

(* grant_account_access, up to its query.                                  *)
FindGrant(o, p) ==
    /\ At(o, "idle")
    /\ op' = [op EXCEPT ![o] =
                [@ EXCEPT !.user = p[1], !.account = p[2],
                          !.pc = IF rows[p] = 0 THEN "insert" ELSE "ended",
                          !.answer = IF Ambiguous(p) THEN Says("raised")
                                     ELSE IF rows[p] = 1 THEN Says("granted")
                                     ELSE op[o].answer]]
    /\ mayHold' = mayHold \cup {p}
    /\ UNCHANGED <<rows, job, errors>>

Inserted(p) == [rows EXCEPT ![p] = @ + 1]

(* session.add(...) and the commit; there is no constraint to refuse it.   *)
InsertGrant(o) ==
    /\ At(o, "insert")
    /\ rows' = Inserted(PairOf(o))
    /\ Ends(o, Says("granted"))
    /\ UNCHANGED <<job, errors, mayHold>>

DeletedOne(p) == [rows EXCEPT ![p] = IF @ = 0 THEN 0 ELSE @ - 1]

(* The DELETE takes every row of the pair.                                 *)
Deleted(p) == [rows EXCEPT ![p] = 0]

BeingGranted(p) == \E o \in Ops : At(o, "insert") /\ PairOf(o) = p

RevokeGrant(o, p) ==
    /\ At(o, "idle")
    /\ rows' = Deleted(p)
    /\ Ends(o, Says("revoked"))
    /\ mayHold' = IF BeingGranted(p) THEN mayHold ELSE mayHold \ {p}
    /\ UNCHANGED <<job, errors>>

VerdictOfAny(u, a) ==
    IF u \in Admins \/ \E b \in Accounts : rows[<<u, b>>] > 0
    THEN "visible" ELSE "hidden"

Verdict(u, a) ==
    IF u \in Admins THEN "visible"
    ELSE IF a = Unknown THEN "hidden"
    ELSE IF Ambiguous(<<u, a>>) THEN "raised"
    ELSE IF rows[<<u, a>>] = 1 THEN "visible"
    ELSE "hidden"

(* user_can_access_account; every query of it sees only granted pairs.     *)
CanAccessAccount(o, u, a) ==
    /\ At(o, "idle")
    /\ Ends(o, Says(Verdict(u, a)))
    /\ UNCHANGED <<rows, job, errors, mayHold>>

(* user_can_access_scan: the job first, then the check of its account.     *)
FindJob(o, u, s) ==
    /\ At(o, "idle")
    /\ op' = [op EXCEPT ![o] =
                IF job[s] = NoJob
                THEN [@ EXCEPT !.pc = "ended", !.answer = Says("hidden")]
                ELSE [@ EXCEPT !.pc = "check", !.user = u, !.scan = s,
                               !.account = job[s]]]
    /\ UNCHANGED <<rows, job, errors, mayHold>>

CanAccessScan(o) ==
    /\ At(o, "check")
    /\ Ends(o, Says(Verdict(op[o].user, op[o].account)))
    /\ UNCHANGED <<rows, job, errors, mayHold>>

AccountsOfSingles(u) == {a \in Accounts : rows[<<u, a>>] > 1}

AccountsOf(u) == {a \in Accounts : rows[<<u, a>>] > 0}

ListAccounts(o, u) ==
    /\ At(o, "idle")
    /\ Ends(o, IF u \in Admins THEN Says("all") ELSE Lists(AccountsOf(u)))
    /\ UNCHANGED <<rows, job, errors, mayHold>>

(* A statement or commit fails; a commit may have happened all the same.   *)
DatabaseFails(o) ==
    /\ errors < MaxErrors
    /\ errors' = errors + 1
    /\ op[o].pc \in {"idle", "insert", "check"}
    /\ Ends(o, Says("error"))
    /\ \/ UNCHANGED <<rows, mayHold>>
       \/ /\ At(o, "insert")
          /\ rows' = Inserted(PairOf(o))
          /\ UNCHANGED mayHold
       \/ \E p \in Pairs :
             /\ At(o, "idle")
             /\ rows' = Deleted(p)
             /\ UNCHANGED mayHold
    /\ UNCHANGED job

(* The rest of the backend: create_pending_job, then save.                 *)
CreateJob(s) ==
    /\ job[s] = NoJob
    /\ job' = [job EXCEPT ![s] = Unknown]
    /\ UNCHANGED <<rows, op, errors, mayHold>>

SaveJob(s, a) ==
    /\ job[s] = Unknown
    /\ job' = [job EXCEPT ![s] = a]
    /\ UNCHANGED <<rows, op, errors, mayHold>>

Next ==
    \/ \E o \in Ops :
          \/ \E p \in Pairs : FindGrant(o, p) \/ RevokeGrant(o, p)
          \/ InsertGrant(o) \/ CanAccessScan(o) \/ DatabaseFails(o)
          \/ \E u \in Users :
                \/ ListAccounts(o, u)
                \/ \E a \in Accounts : CanAccessAccount(o, u, a)
                \/ \E s \in Scans : FindJob(o, u, s)
    \/ \E s \in Scans : CreateJob(s) \/ \E a \in Accounts : SaveJob(s, a)

Spec == Init /\ [][Next]_vars
-----------------------------------------------------------------------------
(* "default-deny": once a revocation is done, and no grant of the pair was *)
(* under way, the pair has no row until somebody grants it again, however  *)
(* many rows racing grants had given it.                                   *)
RevocationSticks == \A p \in Pairs : rows[p] > 0 => p \in mayHold

(* A check of a scan answers for the account of that very scan, although   *)
(* the account is read first and changes when the scan is saved: a         *)
(* non-admin sees a scan only of an account that somebody granted.         *)
ScanSeenByItsAccount ==
    [][\A o \in Ops :
         (At(o, "check") /\ op'[o].answer = Says("visible")
          /\ op[o].user \notin Admins) =>
             /\ job[op[o].scan] = op[o].account
             /\ <<op[o].user, job[op[o].scan]>> \in mayHold]_vars

(* "already granted -- idempotent, not an error".                          *)
GrantIsIdempotent ==
    \A o \in Ops : op[o].pc = "ended" => op[o].answer # Says("raised")

(* However requests interleave, every operation takes effect at one        *)
(* instant on a set of pairs, as if it were atomic, and what racing grants *)
(* make ambiguous fails like a database error: it never lets anybody see.  *)
AC == INSTANCE AccessControl WITH
        granted <- {p \in Pairs : rows[p] > 0},
        answer <- [o \in Ops |-> IF op[o].answer = Says("raised")
                                 THEN Says("error") ELSE op[o].answer]

ImplementsAccessControl == AC!Spec
-----------------------------------------------------------------------------
(***************************************************************************)
(* The inductive invariant behind these properties.                        *)
(***************************************************************************)
Answer == [verdict : {"none", "granted", "revoked", "raised", "error",
                      "visible", "hidden", "all", "some"},
           accounts : SUBSET Accounts]

Operation == [pc : {"idle", "insert", "check", "ended"},
              user : Users \cup {NotStarted.user},
              account : Accounts \cup {Unknown},
              scan : Scans \cup {NotStarted.scan},
              answer : Answer]

TypeOK ==
    /\ rows \in [Pairs -> Nat]
    /\ job \in [Scans -> Accounts \cup {Unknown, NoJob}]
    /\ op \in [Ops -> Operation]
    /\ errors \in Nat
    /\ mayHold \subseteq Pairs

(* An operation answers once, at its end; a grant about to insert is of a  *)
(* pair that may be granted; the account a check has read is the one of its*)
(* job, unless the scan has been saved since.                              *)
OperationInv(o) ==
    /\ op[o].pc # "ended" => op[o].answer = Says("none")
    /\ At(o, "insert") => PairOf(o) \in mayHold
    /\ At(o, "check") =>
          /\ op[o].user \in Users /\ op[o].scan \in Scans
          /\ job[op[o].scan] # NoJob
          /\ op[o].account \in {Unknown, job[op[o].scan]}

AccessInv == (\A o \in Ops : OperationInv(o)) /\ RevocationSticks
=============================================================================
