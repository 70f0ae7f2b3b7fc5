------------------------------ MODULE AuditLog ------------------------------
(***************************************************************************)
(* The table audit_logs and list_audit_logs                                *)
(* (backend/audit_log_query.py): the newest records first, of one actor or *)
(* of all, a page at a time.  A reader asks for one page after another     *)
(* while requests go on writing records.                                   *)
(***************************************************************************)
EXTENDS Naturals, FiniteSets, Sequences, SequencesExt

CONSTANTS
    Actors,     \* the users whose requests are recorded
    Anyone,     \* no filter: actor is None
    Ceiling,    \* the rows of a page at most (500 in the code)
    Limits      \* the page sizes a reader may ask for

ASSUME AuditAssumption ==
    /\ Anyone \notin Actors
    /\ Ceiling \in Nat \ {0}
    /\ Limits \subseteq Nat \ {0}

VARIABLES
    log,        \* the committed records, the latest timestamp first
    reader      \* who reads: what it asks for, and what it has not got yet
                \* of the records there were when it began

auditVars == <<log, reader>>

NoReading == [pc |-> "idle", actor |-> Anyone, limit |-> 0, offset |-> 0, unseen |-> {}]

AuditInit ==
    /\ log = <<>>
    /\ reader = NoReading

(* The first n records, those of the actor.                                *)
OfActor(actor, n) == {i \in 1 .. n : actor \in {Anyone, log[i].actor}}

Rows(indices) == {log[i] : i \in indices}

(* write_audit_log commits a record that was stamped when the log had      *)
(* "before" records: those committed since may be stamped earlier or later. *)
Record(r, before) ==
    /\ \E i \in 1 .. (Len(log) - before + 1) : log' = InsertAt(log, i, r)
    /\ UNCHANGED reader

-----------------------------------------------------------------------------
(* OFFSET and LIMIT, of rows that are counted from 1.                      *)
OnPage(place, limit, offset) ==
    /\ offset < place
    /\ place <= offset + (IF limit < Ceiling THEN limit ELSE Ceiling)

PageFilteredLate(actor, limit, offset) ==
    Rows({i \in OfActor(actor, Len(log)) : OnPage(i, limit, offset)})

(* list_audit_logs filters before it skips and counts.                     *)
Page(actor, limit, offset) ==
    Rows({i \in OfActor(actor, Len(log)) :
            OnPage(Cardinality(OfActor(actor, i)), limit, offset)})

StartReading(actor, limit) ==
    /\ reader.pc # "reading"
    /\ reader' = [pc |-> "reading", actor |-> actor, limit |-> limit, offset |-> 0,
                  unseen |-> Rows(OfActor(actor, Len(log)))]
    /\ UNCHANGED log

(* The reader goes on by the size it asked for until a page is empty.      *)
ReadPage ==
    /\ reader.pc = "reading"
    /\ LET page == Page(reader.actor, reader.limit, reader.offset)
       IN  reader' = IF page = {} THEN [reader EXCEPT !.pc = "done", !.offset = 0]
                     ELSE [reader EXCEPT !.offset = @ + reader.limit,
                                         !.unseen = @ \ page]
    /\ UNCHANGED log

Reading ==
    \/ \E actor \in Actors \cup {Anyone}, limit \in Limits : StartReading(actor, limit)
    \/ ReadPage
-----------------------------------------------------------------------------
(* Whatever is written between two pages, a reader that goes through all   *)
(* of them has seen every record there was when it began, once its pages   *)
(* are not above the ceiling that list_audit_logs silently puts on them.   *)
PagesMissNothing ==
    (reader.pc = "done" /\ reader.limit <= Ceiling) => reader.unseen = {}
-----------------------------------------------------------------------------
(* What a reader has not got yet lies behind the rows it has skipped,      *)
(* wherever records were put in since.                                     *)
UnseenIsAhead ==
    (reader.pc = "reading" /\ reader.limit <= Ceiling) =>
        \A r \in reader.unseen : \E i \in OfActor(reader.actor, Len(log)) :
            log[i] = r /\ Cardinality(OfActor(reader.actor, i)) > reader.offset

ReaderInv ==
    /\ reader.pc = "reading" => reader.limit \in Limits
    /\ UnseenIsAhead
    /\ PagesMissNothing
=============================================================================
