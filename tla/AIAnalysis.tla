----------------------------- MODULE AIAnalysis -----------------------------
(***************************************************************************)
(* POST /api/v1/attack-paths/{id}/analyze and GET .../analysis             *)
(* (backend/main.py, backend/ai_service.py, ai/explainer.py): a request    *)
(* loads a persisted attack path, asks the configured model at most twice  *)
(* for an analysis that passes the schema, and stores it in the one row    *)
(* ai_analysis has for the path.  Requests run side by side, each with a   *)
(* session of its own; the process may be restarted with another model.    *)
(***************************************************************************)
EXTENDS Integers, FiniteSets

CONSTANTS
    Requests,       \* the POST requests
    Paths,          \* the persisted attack paths
    UnknownPath,    \* an id no attack_paths row has
    Models,         \* the values of provider.model_name
    NoModel,        \* no API key in the environment
    Summaries,      \* the analyses that pass the schema
    NotValid,       \* what a model answers that is no such analysis
    NoRow,          \* no ai_analysis row
    MaxFaults       \* the bound on database errors and restarts

ASSUME AnalysisAssumption ==
    /\ UnknownPath \notin Paths
    /\ NoModel \notin Models
    /\ NotValid \notin Summaries
    /\ NoRow \notin [summary : Summaries, model : Models]
    /\ MaxFaults \in Nat

VARIABLES
    configured,     \* what get_default_provider finds in the environment
    row,            \* the ai_analysis table, by attack_path_id (unique)
    req,            \* what each request has done
    audited,        \* the requests with an attack_path.analyze audit record
    faults,         \* how many faults there were
    produced        \* history: <<path, summary, model>> a model validly made

vars == <<configured, row, req, audited, faults, produced>>

Idle == [pc |-> "idle", path |-> UnknownPath, model |-> NoModel, calls |-> 0,
         summary |-> NotValid, loaded |-> NoRow, answer |-> NoRow]

Failed == {"not_found", "no_provider", "no_analysis", "conflict", "error"}
Ended == Failed \cup {"answered", "dropped"}

Init ==
    /\ configured \in Models \cup {NoModel}
    /\ row = [p \in Paths |-> NoRow]
    /\ req = [r \in Requests |-> Idle]
    /\ audited = {}
    /\ faults = 0
    /\ produced = {}
-----------------------------------------------------------------------------
At(r, pc) == req[r].pc = pc

(* session.get(AttackPathModel, attack_path_id), or a 404.                 *)
LoadPath(r, p) ==
    /\ At(r, "idle")
    /\ req' = [req EXCEPT ![r] =
                 [@ EXCEPT !.path = p,
                           !.pc = IF p \in Paths THEN "provider" ELSE "not_found"]]
    /\ UNCHANGED <<configured, row, audited, faults, produced>>

(* self._provider or get_default_provider(), or a 503.                     *)
ResolveProvider(r) ==
    /\ At(r, "provider")
    /\ req' = [req EXCEPT ![r] =
                 [@ EXCEPT !.model = configured,
                           !.pc = IF configured = NoModel THEN "no_provider"
                                  ELSE "generate"]]
    /\ UNCHANGED <<configured, row, audited, faults, produced>>

(* explain: one retry; a second None makes analyze raise.                  *)
AfterInvalid(r) == IF req[r].calls = 0 THEN "generate" ELSE "no_analysis"

(* validate_ai_output lets nothing else through.                           *)
Validated(s) == s \in Summaries

GenerateRetriesForever(r, s) ==
    /\ At(r, "generate")
    /\ req' = [req EXCEPT ![r] = [@ EXCEPT !.summary = s,
                                           !.pc = IF Validated(s) THEN "find"
                                                  ELSE "provider"]]
    /\ UNCHANGED <<configured, row, audited, faults, produced>>

(* _try_generate: the call raises, or its text is no JSON of the schema, or *)
(* it is an analysis.                                                      *)
Generate(r, s) ==
    /\ At(r, "generate")
    /\ req' = [req EXCEPT ![r] =
                 [@ EXCEPT !.calls = req[r].calls + 1,
                           !.summary = IF Validated(s) THEN s
                                       ELSE req[r].summary,
                           !.pc = IF Validated(s) THEN "find"
                                  ELSE AfterInvalid(r)]]
    /\ produced' = IF s \in Summaries
                   THEN produced \cup {<<req[r].path, s, req[r].model>>}
                   ELSE produced
    /\ UNCHANGED <<configured, row, audited, faults>>

(* _persist: the query for the existing row of the path.                   *)
FindExisting(r) ==
    /\ At(r, "find")
    /\ req' = [req EXCEPT ![r] = [@ EXCEPT !.loaded = row[req[r].path],
                                           !.pc = "store"]]
    /\ UNCHANGED <<configured, row, audited, faults, produced>>

Own(r) == [summary |-> req[r].summary, model |-> req[r].model]

UpdatedSummaryOnly(r) == [row[req[r].path] EXCEPT !.summary = req[r].summary]

(* The UPDATE of the session holds the columns whose value has changed.    *)
Updated(r) ==
    LET stored == row[req[r].path]
        loaded == req[r].loaded
    IN  [summary |-> IF Own(r).summary # loaded.summary
                     THEN Own(r).summary ELSE stored.summary,
         model |-> IF Own(r).model # loaded.model
                   THEN Own(r).model ELSE stored.model]

(* An INSERT meets the unique attack_path_id of a row that came between.   *)
Conflicts(r) == req[r].loaded = NoRow /\ row[req[r].path] # NoRow

Stored(r) == IF req[r].loaded = NoRow THEN Own(r) ELSE Updated(r)

Store(r) ==
    /\ At(r, "store")
    /\ ~ Conflicts(r)
    /\ row' = [row EXCEPT ![req[r].path] = Stored(r)]
    /\ req' = [req EXCEPT ![r].pc = "read_back"]
    /\ UNCHANGED <<configured, audited, faults, produced>>

StoreConflicts(r) ==
    /\ At(r, "store")
    /\ Conflicts(r)
    /\ req' = [req EXCEPT ![r].pc = "conflict"]
    /\ UNCHANGED <<configured, row, audited, faults, produced>>

(* The handler reads the row again, for its model_used: the commit has     *)
(* expired what the session held.  Without a row, one() raises.            *)
ReadBack(r) ==
    /\ At(r, "read_back")
    /\ req' = [req EXCEPT ![r] =
                 IF row[req[r].path] = NoRow THEN [@ EXCEPT !.pc = "error"]
                 ELSE [@ EXCEPT !.answer = [summary |-> req[r].summary,
                                            model |-> row[req[r].path].model],
                                !.pc = "audit"]]
    /\ UNCHANGED <<configured, row, audited, faults, produced>>

WriteAudit(r) ==
    /\ At(r, "audit")
    /\ audited' = audited \cup {r}
    /\ req' = [req EXCEPT ![r].pc = "answered"]
    /\ UNCHANGED <<configured, row, faults, produced>>

Step(r) ==
    \/ \E p \in Paths \cup {UnknownPath} : LoadPath(r, p)
    \/ ResolveProvider(r)
    \/ \E s \in Summaries \cup {NotValid} : Generate(r, s)
    \/ FindExisting(r) \/ Store(r) \/ StoreConflicts(r)
    \/ ReadBack(r) \/ WriteAudit(r)
-----------------------------------------------------------------------------
Fault ==
    /\ faults < MaxFaults
    /\ faults' = faults + 1

(* A statement or commit fails; a commit may have happened all the same.   *)
DatabaseFails(r) ==
    /\ Fault
    /\ req[r].pc \in {"provider", "find", "store", "read_back", "audit"}
    /\ \/ UNCHANGED <<row, audited>>
       \/ /\ At(r, "store") /\ ~ Conflicts(r)
          /\ row' = [row EXCEPT ![req[r].path] = Stored(r)]
          /\ UNCHANGED audited
       \/ /\ At(r, "audit")
          /\ audited' = audited \cup {r}
          /\ UNCHANGED row
    /\ req' = [req EXCEPT ![r].pc = "error"]
    /\ UNCHANGED <<configured, produced>>

(* The API process is restarted, perhaps with other keys: its requests are *)
(* gone, the database rolls their transactions back.                       *)
Restart(m) ==
    /\ Fault
    /\ configured' = m
    /\ req' = [r \in Requests |->
                 IF req[r].pc \in Ended \cup {"idle"} THEN req[r]
                 ELSE [req[r] EXCEPT !.pc = "dropped"]]
    /\ UNCHANGED <<row, audited, produced>>

Next ==
    \/ \E r \in Requests : Step(r) \/ DatabaseFails(r)
    \/ \E m \in Models \cup {NoModel} : Restart(m)

Spec == Init /\ [][Next]_vars

(* The API serves each of its requests.                                    *)
FairSpec == Spec /\ \A r \in Requests : WF_vars(Step(r))
-----------------------------------------------------------------------------
RowIsTraceable(p) ==
    row[p] # NoRow => <<p, row[p].summary, row[p].model>> \in produced

AnswerIsTraceable(r) ==
    req[r].answer # NoRow =>
        <<req[r].path, req[r].answer.summary, req[r].answer.model>> \in produced

(* "every explanation is traceable to what produced it": a row names the   *)
(* model that made its valid summary, for its path, though two requests    *)
(* may update different columns of it one after the other; and so does an  *)
(* answer, though the handler reads its model from a row others write.     *)
(* Whoever was answered is on record, with the analysis still stored.      *)
TraceableToItsModel ==
    /\ \A p \in Paths : RowIsTraceable(p)
    /\ \A r \in Requests : AnswerIsTraceable(r)
    /\ \A r \in Requests : At(r, "answered") =>
          row[req[r].path] # NoRow /\ r \in audited /\ req[r].calls <= 2

(* Every request is answered, fails or is dropped: the model is asked      *)
(* again only once.                                                        *)
RequestsEnd == \A r \in Requests : []<>(req[r].pc \in Ended)
-----------------------------------------------------------------------------
(***************************************************************************)
(* The inductive invariant behind TraceableToItsModel.                     *)
(***************************************************************************)
Analysis == [summary : Summaries, model : Models]

Request == [pc : {"idle", "provider", "generate", "find", "store",
                  "read_back", "audit"} \cup Ended,
            path : Paths \cup {UnknownPath},
            model : Models \cup {NoModel},
            calls : Nat,
            summary : Summaries \cup {NotValid},
            loaded : Analysis \cup {NoRow},
            answer : Analysis \cup {NoRow}]

TypeOK ==
    /\ configured \in Models \cup {NoModel}
    /\ row \in [Paths -> Analysis \cup {NoRow}]
    /\ req \in [Requests -> Request]
    /\ audited \subseteq Requests
    /\ faults \in Nat

(* The requests that have their model: it is the one configured now, for a *)
(* restart with another leaves none of them.                               *)
HasModel(r) == req[r].pc \in {"generate", "find", "store", "read_back", "audit"}

HasAnalysis(r) == req[r].pc \in {"find", "store", "read_back", "audit"}

(* A row that r has loaded is as r loaded it, or written since, and then   *)
(* by a request with r's own model.                                        *)
StoreInv(r) ==
    At(r, "store") =>
        \/ row[req[r].path] = req[r].loaded
        \/ row[req[r].path] # NoRow /\ row[req[r].path].model = configured

RequestInv(r) ==
    /\ At(r, "idle") => req[r].answer = NoRow
    /\ req[r].pc \in {"idle", "provider"} => req[r].calls = 0
    /\ At(r, "generate") => req[r].calls <= 1
    /\ req[r].calls <= 2
    /\ HasModel(r) \/ req[r].pc \in {"provider", "answered"} => req[r].path \in Paths
    /\ HasModel(r) => req[r].model = configured /\ configured \in Models
    /\ HasAnalysis(r) =>
          /\ req[r].summary \in Summaries
          /\ <<req[r].path, req[r].summary, req[r].model>> \in produced
    /\ StoreInv(r)
    /\ At(r, "read_back") =>
          row[req[r].path] # NoRow /\ row[req[r].path].model = configured
    /\ req[r].pc \in {"audit", "answered"} => row[req[r].path] # NoRow
    /\ At(r, "answered") => r \in audited
    /\ AnswerIsTraceable(r)

AnalysisInv ==
    /\ \A p \in Paths : RowIsTraceable(p)
    /\ \A r \in Requests : RequestInv(r)
=============================================================================
