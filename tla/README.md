# CloudPath AI: TLA+ models, model checks and proofs

CloudPath AI scans an AWS account read-only, builds a graph of what it finds,
searches it for attack paths, scores and explains them. This directory holds
TLA+ modules of the program, the TLC configurations that check them, and TLAPS
proofs that what the runs check of small instances holds of all. Every
definition is translated from the code at this commit; `PROJECT.json` says for
each one which lines it stands for.

To check it: `tlc -config MCScanLifecycle_safety.cfg MCScanLifecycle` (and so on
for each `.cfg`), `tlapm ScanLifecycleProofs.tla` (and so on for each `*Proofs.tla`).

## 1. Inventory

| part | source | state | operations | talks to |
|---|---|---|---|---|
| HTTP API | `backend/main.py`, `backend/scan_service.py` | an in-memory scan store per process, lost with it | scan (sync, async), poll, list, statistics, simulate, analyse | Postgres, Redis, providers |
| scan pipeline | `backend/scan_service.py` | none between scans | `run_scan`: discover, analyse, graph, paths, score | AWS, engine, store |
| task queue | `backend/tasks/` | Redis list and unacked hash; worker slots | `delay`, prefetch, acknowledge, restore, `run_scan_task` | store, pipeline |
| store | `backend/db/` | Postgres tables | `create_pending_job`, `mark_running`, `save`, `mark_failed`, `get`, `latest` | ORM sessions |
| CLI | `cli/` | a credentials file | `scan aws/status/wait`, `assets`, `paths`, `simulate`, `report` | API, with a timeout of 30 seconds |
| rate limiter | `backend/rate_limit.py` | Redis counters | `check` | Redis |
| users | `backend/main.py`, `scripts/create_admin.py` | table `users` | register, log in, create the first administrator | Postgres, audit log |
| tokens | `backend/auth.py`, `backend/token_revocation.py` | Redis blocklist | issue, decode, `revoke_token`, `is_revoked` | Redis |
| tenant scope | `backend/tenant_scope.py` | table `account_access` | grant, revoke, check, list | Postgres |
| AI analysis | `backend/ai_service.py`, `ai/` | table `ai_analysis` | analyse with one retry, store, read | vendor API, Postgres |
| discovery | `providers/aws/` | none | eight collectors, normalizers, deduplication | AWS |
| analyzers | `engine/iam/`, `engine/network/` | none | findings and edges from configuration | |
| graph engine | `engine/graph/`, `engine/attack_paths/`, `engine/risk/`, `mitre/` | a graph per scan | build, search, score, map, simulate | |
| graph view | `backend/graph_export.py` | none | payload with edge severities | |
| audit log | `backend/db/models.py`, `backend/audit_log_query.py` | table `audit_logs` | insert, page | Postgres |
| frontend, benchmarks, deployment | `frontend/`, `benchmarks/`, `docker*` | | | |

What is hard, by kind (each with its line in `PROJECT.json`, "hazards"):

- *Delivery and crashes.* Celery acknowledges a message when its execution
  starts and redelivers a message that was held too long; a worker, a slot, the
  broker or the API may die between any two steps; a commit may succeed and its
  reply be lost.
- *Requests that outlive their client.* A synchronous scan runs inside its
  request; the CLI gives up after 30 seconds, the handler goes on.
- *Transactions.* Every store method loads a row, changes the loaded object and
  commits only the columns that changed, so two executions of one job mix their
  columns; `tenant_scope` and `ai_service` check and then insert.
- *Reads of what changes meanwhile.* `rebuild_scan_record` reads one table after
  the other while a worker commits; a report makes two requests; the audit log
  is paged while it grows; a collector lists and then reads details, while the
  account's owner creates and deletes.
- *Clocks.* Windows, time-to-live values and token expiries in whole seconds
  are compared with clocks that go on between two commands.
- *Partial failure.* A collector, a detail of a resource, the profile map, an
  audit insert, a second command to Redis may fail alone.
- *Order.* The graph keeps one relationship per pair, the last one; lists come
  in the order AWS or Postgres gives them; ties among paths are cut by a cap.
- *Boundaries.* Confidence bars, depth, caps, the last second of a token.

What makes each part correct is stated in section 4, run by run.

## 2. The modules

| module | models | composed with |
|---|---|---|
| `ScanJob` | abstract: what an asynchronous scan promises | |
| `ScanLifecycle` | request handler, broker, worker slots, store transactions | implements `ScanJob` |
| `ScanWait` | `scan wait` polling `GET /scans/{id}` | EXTENDS `ScanLifecycle` |
| `RateLimiter` | fixed-window limiter over Redis | |
| `AIAnalysis` | analyse requests, retry, row of the path, audit | |
| `AccessControl` | abstract: a set of granted pairs | |
| `AccountAccess` | grants, revocations and checks as statements on rows | implements `AccessControl` |
| `TokenRevocation` | issued tokens, logout, blocklist, requests | |
| `Session` | registration, the script, login, users changed by hand | EXTENDS `TokenRevocation` |
| `AuditLog` | records and the pages a reader goes through | |
| `SyncApi` | synchronous scans, the in-memory store, the CLI's commands | EXTENDS `AuditLog` |
| `AwsAccount` | external: how resources are configured, and what AWS lets pass between them and from everybody | |
| `NetworkAnalyzer` | security groups, buckets, connectivity (operators) | EXTENDS `AwsAccount` |
| `Discovery` | collectors and normalizers on an account that changes | EXTENDS `NetworkAnalyzer` |
| `PolicyEval` | policy evaluation (operators); external: what AWS makes of the same statements | |
| `IamRules` | findings and edges of a role (operators) | EXTENDS `PolicyEval` |
| `IamAnalyzer` | the roles analysed one by one, whatever their owner attached | EXTENDS `IamRules` |
| `AttackGraph` | graph, paths, score, techniques, severities (operators) | |
| `ScanAnalysis` | graph, rehydration and simulation on chosen relationships | EXTENDS `AttackGraph` |
| `Pipeline` | `run_scan` from the account to the scored paths | EXTENDS `Discovery`, INSTANCEs `IamRules` and `AttackGraph` |

The proofs about `X` are in `XProofs`, which EXTENDS it: `ScanLifecycleProofs`
(which EXTENDS `ScanWait`, and proves about both), `RateLimiterProofs`,
`SyncApiProofs` (with `AuditLog`), `ScanAnalysisProofs` and `PipelineProofs` (with
`Discovery` and the network analyzer). `UserProofs` holds those of `Session` and
`AccountAccess`, `AnalyzerProofs` those of `IamAnalyzer` and `AIAnalysis`.
`AttackGraphProofs` has the lemmas on walks, cut-offs and scores of any graph;
`ScanAnalysisProofs` EXTENDS it and `PipelineProofs` INSTANCEs it for the graph of a
scan.

The modules whose specification is checked have an `MC` module each, with the
values of its constants. An operator whose
name extends another's and that no other definition uses (`SendsTwice` beside
`Send`) is a plausible bug in that place: it documents what the property it
belongs to notices, and is used nowhere in the specification.

### How the state and the actions correspond to the code

**ScanLifecycle.** `api[s]` is the place of `create_scan_async` in its four
calls (`main.py:145-157`); `queue`, `held`, `stale`, `orphan` count the copies
of the message of `s` in the Redis list, prefetched, prefetched but given back
to the list by the visibility timeout, and left unacknowledged by a dead
worker. `exec[w]` is a pool slot: its place in `run_scan_task`, the row its
session loaded, what `run_scan` returned. `job` and `rows` are the tables; child
rows are counted per table. A store method is two steps, `LoadJob`
(`session.get`) and a commit; `Flushed` is what SQLAlchemy writes: the columns
whose value differs from the loaded one. `StoreFails`, `SlotDies`, `WorkerDies`,
`BrokerRestart`, `EnqueueFails`, `WriteAuditFails` are the failures;
`CommitSaveUnacknowledged`, `VisibilityTimeout` and the second message of
`Enqueue` are what can make one scan execute or end twice. The variables
`disturbed`, `interrupted` and `raised` are history: they say for which scans
such a thing happened, so that the properties can say what holds otherwise.
The crown jewels and the region of a request and what a scan finds are data:
`Results` holds a clean result and one with collector errors.

**ScanWait** adds `cli`: the loop of `scan_wait`, the read of the job row and
of the three tables, each a step, the answer, and the sleep.

**RateLimiter.** `now` is the clock, `key` the Redis keys with count and end,
`call[c]` a call between reading the clock, INCR, EXPIRE and its verdict. A
fault is a Redis error (the limiter lets the call in), a death between the two
commands, a restart of Redis, or an INCR that was done twice because its reply
was lost.

**AIAnalysis.** `row` is `ai_analysis` (one row per path), `req[r]` a request
between loading the path, the model's one or two answers, the query, the insert
or update, the read back in the handler and the audit record; `configured` is
the provider the process was started with; `produced` is the history of what
each model answered for each path.

**AccountAccess.** `rows` counts the rows of each pair, because no constraint
keeps them unique; `op[o]` is a request between its statements; a query that
finds two rows raises, as `one_or_none` does.

**TokenRevocation.** `now` in ticks, several to a second; `exp` and time to
live in whole seconds; `entry` is when Redis forgets the entry; `logout` and
`use` are the logout and the latest request of each token, with time passing
between the decode and the query and between the clock that is read and the
SET. `models.py`, `auth.py` and `main.py` lack the endpoint and the dependency
that call these functions. The tests and the docstring hand `revoke_token` the
token's own expiry, the endpoint in
`docs/POST_V1_REVOCATION_AUDIT_TENANT_PATCH.md` a full lifetime from now:
`TimeLeft` allows both.

**Session** adds the table `users` (`row`), the registrations `reg` with the
query, the insert and the audit record as steps of their own (the unique
constraint makes one of two inserts raise, and a commit that raises may be one whose
reply alone was lost, so that a request answered with 500, or the script's traceback,
leaves a user: `"unanswered"`), and `login`: the check of the user,
then the audit record, whose commit makes SQLAlchemy read the role again for the
token. Nothing in the code changes a role or deactivates a user, though `login`
looks at `is_active`; `Change` is whoever does so in the table. `right` is
history: when what the token says was last so.

**AuditLog** and **SyncApi.** `store` is the keys of `InMemoryScanStore` in the
order of insertion, `post[s]` the handler of `POST /scans` that will give `s`,
`cli[c]` the command of a user: which request it is at and what it has printed
(a report prints of two). A handler scans, saves and then commits the audit
record, which was stamped before the commit, so that records may appear in
another order than their stamps (`Record`). `TimesOut` is httpx giving up, or a
lost connection; `ApiRestarts` takes the store and the handlers. `reader` goes
through the pages of `list_audit_logs`, by the size it asked for, until one is
empty. `saved`, `told` and `reader.unseen` are history.

**AwsAccount.** `Config` says how each resource is configured: rules of security
groups with their ports, ranges and groups, statements of resource policies with
effect, principal and conditions, the four settings of a bucket's access block, ACLs,
public addresses, and references to keys as they are written, aliases included. It
also says what AWS makes of that: `Reaches` (traffic leaves by a rule of one side's
groups, of which an empty list lets nothing out, and enters by one of the other's, on
a port of both) and `Opens` (what everybody on the Internet may do), both in a
`Context`: which conditions are met and which narrower ranges the other side is in.
None of it is used by the modules of the program but the configuration itself.

**Discovery.** `exists` is the account, which its owner changes at any time
(`Change`, external); a collector lists (`List`), then reads details and is
normalized (`Read`), with any set of details unreadable (`lost` remembers which).
A normalizer may also raise midway (`NormalizerFails`): what it has done stays, of
the resource at hand the asset at most, and the Internet does not come.
`assets`, `rels` and `errors` are the `ScanResult`. `assets` is a sequence, since
nothing but the code keeps an id from being appended twice. A bucket, a function
or a key that is gone when its details are read counts as one whose details are
unreadable; a role that is gone fails the whole `iam` collector.

**IamAnalyzer.** The owner attaches statements and trusts, then the roles are
analyzed in any order. Patterns and what `fnmatch` makes of them are the constant
relation `Matching`; `Lower` is the lower case into which `_matches` puts both sides,
ARNs included. The program's operators ignore conditions and read the `Not` keys for
those without; `Applies`, `AwsAllows` and `AwsEvaluates` do neither, and the properties
compare the two. The texts of findings are left out.

**ScanAnalysis.** A candidate relationship is discovered or not, in the order
of the pipeline (`Discover`), the graph is built with or without the profile map
(`BuildGraph`), paths are searched, scored and stored, the record may be read
again from rows in any order, and a simulation may be asked for. Confidences are
tenths, scores whole numbers up to 100. `Shortest` is any set networkx may return: paths by
length, ties in no fixed order.

**Pipeline** is the same code composed: `Analyze` runs the IAM rules and the
network analyzer over the assets that `Discovery` left, `BuildGraph` and
`SaveRecord` are the graph, the paths and the scores over the relationships of
all three. Its relationships are a set, and where several join a pair, any may
be the one the graph keeps (`BuildsOf`): the order within a collector is AWS's.
Policies and trusts are constants of the account.

Its properties compare what is reported with `StepsIn(ctx)`, the hops an attacker has
who asks in a context, written from the configuration, the policies and the trusts
alone: what is open, what the groups let pass both ways, what the IAM policies and
trusts of both sides allow, with Deny statements and conditions. The two directions
use it differently. `ReportedIsReal` says that a hop is there in every context
(`SureHops`), `ReachableIsReported` asks for what is there in any (`AccountSteps`).

The code is not AWS, and the properties say by name where. `StartsWell` and `HopIsReal`
admit: effects and conditions of a policy that are not weighed up, and an access block
that shuts a bucket in part (`MistakenForOpen`), as it also does a public address behind
groups that let nobody in; a bucket or subnet that is flagged by its settings alone, or
whose block was not read; a connection the analyzer itself doubts (`IsDoubted`) or
takes for certain where egress is closed (`TakenAsOpen`); a trust with a Deny, a
condition or the namesake of another account (`IsMistrusted`); a role whose own
statements have a Deny, a condition or a `Not` key (`IsSimple`); and the placeholders of
instance profiles and of aliases of keys. `Overlooked` has the four kinds of steps the
scan misses: `"*"` in a list of principals, connections by address, keys named by
alias, and roles trusted by the bare `"*"`, by the account or by its number, or
passed by a pattern or a `Not` key. Besides, `ReachableIsReported` asks only for ways through
`Whole`: what nobody touched, whose collector did not fail and whose details were
read.

## 3. What is assumed of the surroundings

- Postgres: a transaction is atomic, a statement sees what is committed when it
  runs (READ COMMITTED), `attack_path_id` of `ai_analysis` is unique and
  `account_access` has no unique constraint.
- Redis: each command is atomic; no persistence (`docker-compose.yml` mounts no
  volume), so a restart forgets counters, blocklist and messages.
- Celery: default settings, as `celery_app.py` leaves them: acknowledgement at
  the start of an execution, redelivery of unacknowledged messages after the
  visibility timeout, publication retried when a connection drops. The compose
  file runs one worker with two slots.
- AWS: what a policy means (`PolicyEval!AwsAllows`, without session policies and
  service control policies), what security groups and resource policies let pass
  (`AwsAccount`, without routes and network ACLs), that a group in use or a subnet with
  instances is not deleted, and that volumes go with their instance. Users' own
  policies and the permission boundaries of roles are not part of the account that
  `Pipeline` compares with, as no collector reads them; `IamAnalyzer` has boundaries.

## 4. What the runs check

Passing runs and what their properties say. Sizes are those TLC reports.

| run | instance | properties |
|---|---|---|
| `scan_safety` | 2 scans, 2 slots, 1 fault, 2 disturbances, 2 results | `TypeOK`; a task always finds its committed row (`TaskFindsItsJob`); row, counters and child rows appear together and once (`PublishedTogether`); one copy or execution per request (`OneExecution`); an enqueued scan is never lost but by a fault, even when duplicated (`NothingSilentlyLost`); a task that raised left "failed" (`RaisedIsReported`); counters never exceed rows (`CountsBackedByRows`); the row only advances (`StatusAdvances`) |
| `scan_refinement` | 2 scans, 2 slots, 1 fault | `ImplementsScanJob`: handler, broker, slots and transactions together implement the abstract job; `EnqueuedScanEnds` under fairness |
| `wait_poll` | 1 scan, 2 slots, 1 fault, 1 disturbance, interval 2, timeout 4 | `VerdictIsFinal`: "complete" and "failed" are final and the printed numbers are the whole result, though tables are read one by one; `WaitEnds`: the command ends whatever became of the scan |
| `rate_safety` | 2 users, 3 calls, limit 2, window 2, clock to 4, 1 fault | `AtMostLimit`, `RefusedOnlyWhenFull`, `KeysExpire` |
| `ai_safety` | 3 requests on 1 path, 2 models, 2 summaries, 1 fault | `TraceableToItsModel`: rows and answers name the model that made them, though two requests update different columns, and an answer is of a row that exists, was audited and took two calls at most; `RequestsEnd` under fairness |
| `access_safety` | 2 users (one admin), 2 accounts, 1 scan, 4 operations, 1 fault | `RevocationSticks`, `ScanSeenByItsAccount`, `ImplementsAccessControl`: every operation takes effect at one instant on a set of pairs |
| `token_safety` | 1 name, 1 request and the script, 1 token of 3 seconds, 2 ticks a second, clock to 9 ticks, 1 fault, 1 change by hand | `CreatedByOne`: however registrations interleave, one at most creates the user, with its role; who is told 409 has created nobody, and who is told 500 only where the commit's reply was lost or the audit record raised; `RejectedUntilLastSecond`: a token that was logged out comes in at most in the last second of its life or in that of its expiry; `WrongForALifetime`: one whose user was deactivated or demoted, or whose logout Redis forgot, is let in for a lifetime and a second at most |
| `sync_safety` | 2 users, 2 scans, pages of 1 and 2 against a ceiling of 1, 1 fault | `ReportIsOfOneScan`: a report by id is of one scan, one of the latest may be of two, but the later half is of the later scan; `SeesOwnScan`: after "complete" a user lists that scan or a later one until the API restarts; `AnswersAreTrue`: "complete" means saved and audited, 502 means no scan, though clients give up and handlers go on; `PagesMissNothing`: paging misses no record there was at its start, whatever is inserted meanwhile |
| `iam_safety` | 2 roles, up to 2 statements each of 11 policies and 3 trusts, 1 condition | `PassRoleIsEffective`: `CAN_PASS_ROLE` edges against what AWS allows, each difference explained by a Deny, a condition, a `Not` key or a pattern; `DangerIsFlagged`: what AWS lets a role do of the dangerous actions is a finding, unless only `NotAction` allows it; `DifferenceIsMisread`: `evaluate` and AWS, boundaries included, differ only by a statement that is read otherwise, and in the direction it gives |
| `analysis_safety` | 7 resources, two accounts of 7 and 6 relationships, depth 3, cap 2, bar 0.7, 2 removals | `PathsAreBacked`, `ShortestIsFound`, `AssessmentIsEvidenced`, `GraphShowsThePaths`, `SimulationIsSound` |
| `pipeline_safety` | 19 resources of all types but IAM groups, 2 accounts of 17 and 16, 5 resources volatile, 2 changes or failures, 1 condition, depth 3, cap 2 | `MissingIsExplained`: what the scan lacks was refused by a failing collector that is reported, was created or deleted meanwhile, or is a key that could not be described, and nothing is there twice; `ConnectedAsAllowed`: a connection the scan is certain of is traffic AWS always lets pass, but for egress `TakenAsOpen`, and what a rule lets through to a group that names it is certain; `ReportedIsReal`: a reported path starts at something open and each hop is there in the account under whatever conditions, but for what `StartsWell` and `HopIsReal` name; `ReachableIsReported`: a target reachable under some conditions, within the depth and through what was seen whole, is reported, by a path as short, whatever failed elsewhere, but for steps that are `Overlooked`; `OnlyRolesRankHigh`: only a path to a declared role reaches HIGH |

One run that TLC must find violated, a statement of the repository that the code
does not keep:

| run | statement | what happens |
|---|---|---|
| `access_idempotent` | "already granted — idempotent, not an error" (`tenant_scope.py:31`) | two grants at once insert two rows, and every later grant and check of the pair raises |

**Why the bounds are enough.** Two scans and two slots give every interleaving
of two executions of one job, and of two jobs on a full pool; a third slot adds
no new pair of steps. One fault and two disturbances reach duplication followed
by a crash and two late redeliveries. Three calls against a limit of two fill a
window and go over it; four ticks span two windows. Three requests are two that
race and one that comes after. Four operations are two racing grants, a
revocation and a check. Two ticks a second tell a whole second from a fraction,
and nine ticks are a token's three seconds and the second and a half in which it
may still decode; tokens do not meet each other, so one is enough, and two
registrations are what it takes to race. Two scans and two users let a scan end
between the two requests of a report, and a client give up on a scan that
another then lists; a page size above the ceiling and one at it are both asked
for. Two events in the pipeline (a change, a call that fails, a detail that cannot be
read, a normalizer that raises: each counts as one) let any two fall on every pair of
collectors; a normalizer that raises has done one part of its work (`Parts`), with or
without the edges of any resource in it; the
volatile resources are one of each kind whose deletion or creation has an effect
of its own (a role that fails its collector, an instance with its volumes, two
buckets and a key). One condition is met or not, which together with the two ranges
gives eight contexts. A path of three hops meets the depth of 3, three ways between two nodes exceed the
cap of 2, and confidences of 0.5, 0.6, 0.7 and above lie on both sides of the bar
and on it. Counters are
bounded by `MaxFaults`, `MaxErrors`, `MaxDisturbances`, `MaxTime`, `MaxEvents`,
`MaxStatements`, `MaxChanges`, `MaxRemovals` and `Parts`, all named in the modules' constants.

**Deadlock.** Checked in the runs of `Pipeline`, `IamAnalyzer` and
`ScanAnalysis`, whose end is an explicit step, and of `SyncApi`, where a reader may
always begin again. The others stop when all requests
of the instance are served, or when the clock is at its bound, and say
`CHECK_DEADLOCK FALSE`.

**Symmetry** is used in safety runs only, over ids that are never compared or
ordered. The refinement and liveness runs use none, `access_safety` excepted,
whose abstract specification is symmetric in the same sets and has no fairness.
`token_safety` has action properties and uses none.

**Fairness.** `ScanLifecycle` assumes that an entered handler goes on, that the
worker's main process polls (prefetch and the restore of a due message), that a
free slot takes one of the waiting messages of each scan, and that an execution
goes on. That is what a running API and a running Celery worker do; no fault and
no client is fair. `ScanWait` assumes only that the command itself runs on;
nothing of the scan. `AIAnalysis` assumes that each request is served on: the
vendors' clients give up after the default timeout of their SDKs.

## 5. What is proved

Each theorem holds for every value of the constants that the named assumptions
allow: any number of scans, slots, users, requests and faults, any account, any
bound. TLC found each inductive invariant to hold on the instance of the run
before it was proved.

| module | theorem | what it says |
|---|---|---|
| `ScanLifecycleProofs` | `TypeCorrect`, `InductiveInvariant` | `Spec => []TypeOK`, `Spec => []IInv` |
| | `TaskAlwaysFindsItsJob`, `AlwaysPublishedTogether`, `CountsAlwaysBacked`, `NeverSilentlyLost`, `AlwaysOneExecution`, `RaisedAlwaysReported` | the invariants of `scan_safety` |
| | `StatusAlwaysAdvances` | `Spec => StatusAdvances`, an action property |
| | `ScanLifecycleImplementsScanJob` | `Spec => ImplementsScanJob`, given `MaxDisturbances = 0` |
| | `WaitInvariant`, `VerdictAlwaysFinal` | `WaitSpec => []VerdictIsFinal`, from `WaitInv` |
| `RateLimiterProofs` | `RateInvariant`, `KeysAlwaysExpire`, `AlwaysRefusedWhenFull`, `AlwaysAtMostLimit` | the three invariants of `rate_safety` |
| `AnalyzerProofs` | `AnalysisInvariant`, `AnalysesAlwaysTraceable` | `TraceableToItsModel` |
| | `IamInvariant`, `PassRoleAlwaysEffective`, `DangerAlwaysFlagged`, `DifferenceAlwaysMisread` | the three invariants of `iam_safety` |
| `UserProofs` | `AccessInvariant`, `RevocationAlwaysSticks`, `ScanAlwaysSeenByItsAccount` | the safety properties of `access_safety` |
| | `AccountAccessImplementsAccessControl` | `Spec => ImplementsAccessControl`, the refinement |
| | `SessionInvariant`, `AlwaysCreatedByOne` | `CreatedByOne` |
| | `AlwaysRejectedUntilLastSecond`, `AlwaysWrongForALifetime` | the two action properties of `token_safety` |
| `SyncApiProofs` | `SyncInvariant`, `ReportAlwaysOfOneScan`, `AlwaysSeesOwnScan`, `AnswersAlwaysTrue`, `PagesAlwaysMissNothing` | the four invariants of `sync_safety` |
| `ScanAnalysisProofs` | `AnalysisInvariant`, `PathsAlwaysBacked`, `ShortestAlwaysFound`, `AssessmentAlwaysEvidenced`, `GraphAlwaysShows`, `SimulationAlwaysSound` | the five invariants of `analysis_safety` |
| `PipelineProofs` | `DiscoveryInvariant`, `PipelineInvariant` | `Spec => []DiscoveryInv`, `Spec => []PipelineInv` |
| | `MissingAlwaysExplained`, `AlwaysConnectedAsAllowed` | what a scan has and has not, and which connections it may be certain of, for every account and every order of failures and changes |
| | `ReportedIsAlwaysReal`, `ReachableAlwaysReported` | no false alarm, and no exposure missed, but for the misreadings and the omissions the two properties name: the two directions between the account and the report |
| | `OnlyRolesEverRankHigh` | `OnlyRolesRankHigh` |

*Assumptions.* They are the named `ASSUME`s of the modules, and TLC evaluates
them in every run. Most only tell a marker from what it marks (`NoScan` is no
scan, `Missing` no scan, `NoRow` no row, `Unknown` no account) or give a bound its
range. The others are facts of the code:

- `SessionAssumption`: the script is one of those who register; no role is called
  `"none"`. `SyncAssumption`: the users who send commands are the actors of the
  audit log.
- `PolicyAssumption`: a name matches itself, `*` matches everything, and what matches
  as it is written matches in lower case, as `fnmatch` has it. `IamAssumption`: two
  roles have two ARNs, a statement has an action and a resource under some key, as AWS
  demands, and a whole ARN that matches a role's ARN is that ARN.
- `GraphAssumption`: `TypeOf` never says INTERNET or EXTERNAL, the types
  `graph/builder.py` gives to nodes that are not assets.
- `AnalysisAssumption`: a relationship has a source, a target, a type and a
  confidence in [0, 1], and the source of a `TRUSTS` edge is a service, which no
  relationship leads to. That last fact is what makes "critical needs a crown
  jewel or a database" true: the ten points for crossing accounts are given for
  `TRUSTS` edges, and a path that could cross one would get to 80 without. The
  proof of `AssessmentAlwaysEvidenced` needed it; `iam/analyzer.py:134-147` gives it.
- `AccountAssumption` and `DiscoveryAssumption` say what an AWS account is: which
  types have a group, a role, a key or a parent (`FieldsFit`), that an account has
  finitely many resources and holds what they name, and that the markers
  `Internet`, `None` and `"profile"` are no resource and differ.
- `PipelineAssumption`: the ids of services and of accounts are no resource's, a
  whole ARN matches only itself, what bears the id of a role or user is one, a
  profile's role is a role, and, as AWS demands,
  every statement has an action and a resource under some key.

*The invariants, and why they are needed.* Hardly a property is inductive.

- *Scans.* `NothingSilentlyLost` holds after a commit only because the committing
  execution was the one that owed the final status; `PublishedTogether` only
  because the row a slot loaded is still the row. `IInv` says, per scan: before the
  message is sent nothing runs and the row is as created (`BeforeEnqueue`); a
  pending row is owed an execution, all of whose slots are still before the commit
  of `mark_running` (`PendingInv`); a running row is owed a final status by a slot
  whose loaded row will make the ORM write the status column (`WillEnd`,
  `RunningInv`) — with duplicated executions this is where the column-wise write
  matters; and of a scan delivered once there is one copy or one execution, whose
  place agrees with the row and whose loaded row is current (`OnceInv`). `SlotInv`
  ties a slot's place to its scan. The proof has one lemma per action and one step
  per conjunct the action can disturb, with `MessageStep`, `OtherScan`/`OtherSlot`
  and `ExecutionStep` shared between them. The action property and the refinement
  follow from `CommitStep` and `NextJobStep`, which say what a commit makes of the
  row of an undisturbed scan.
- *The CLI's wait.* `ReadsAgree`: once a GET has read a final row, each table it has
  read is the table as it is, and stays so; a verdict rests on such a GET. It needs
  `IInv`, and that no step of a scan delivered once changes a final row or its
  tables.
- *Rate limiter.* `AtMostLimit` counts calls, the code counts INCRs. `RateInv` ties
  them: a count never exceeds the calls that have one and the INCRs without a reply
  (`CountsAccounted`), a key outlives its window (`OutlivesWindow`), and so the calls
  that were counted inside a window by one key have different counts
  (`CountsDiffer`); at most `Limit` of them can be at most `Limit`.
- *AI analysis.* Between a request's query and its commit another one may write the
  row. `StoreInv` says by whom: a row that was loaded is as it was, or was written
  since by a request with the same model, because a restart with another model
  leaves no request at work. So whatever columns the ORM leaves out, the row
  names a model that made its summary.
- *Accounts.* `OperationInv`: a grant that is about to insert is of a pair that may
  be granted (history `mayHold`), a check has read the account of its job as it is
  or from before the scan was saved. The refinement mapping is the set of pairs
  with a row; each statement is one abstract step or none (`AC!Next` case by case).
- *Users and tokens.* `IssueInv`: an `exp` claim is at most a lifetime past the time
  the token was last right; `LogoutInv`: the time to live handed to Redis falls
  short of `exp` by a second at most, at whatever tick it was computed and set.
- *Synchronous API.* `SavedInv` (a scan is saved once, by its handler; a saved scan
  is audited, about to be, or its insert failed), `StoreInv` (the dictionary holds
  saved scans and ends with the last one) and `CommandInv` (what a command has
  printed was saved). `ReaderInv`: what a reader of the audit log has still to get
  has a rank among its actor's records above the offset. `NextOfActor` and
  `PushedOn` say how ranks grow when a record is put in anywhere, `OfActorIs` that a
  page holds consecutive ranks.
- *IAM analyzer.* `AnalyzedInv`: findings and edges are those of the roles taken so
  far. The rest is algebra of statements: where the program's reading of a role and
  AWS's differ, some statement is one that `StatementGrants` and `Applies` read
  differently, and the lemmas follow which of the two lets it in.
- *Graph and paths.* `RecordInv` and `ReportInv` say what is stored: a set the search
  may return on the graph of all relationships, each path with its assessment; a
  simulation of two such searches. What the operators do is in lemmas:
  `BuildOf` (an edge is the last relationship of its pair), `WayMakesWalk` (any way
  can be cut short to a simple one no longer, by taking a shortest and
  `CutShort`), `ScoreOf` (what a score of 60 or 80 takes, by arithmetic over its
  parts).

- *Pipeline.* `DiscoveryInv`: what a collector is reading was there when it listed
  or has changed since (`ListInv`); an asset was there at some time of the scan
  (`Known`), and one nobody touched (`Steady`) whose collector is done is an asset or
  explained (`AssetsInv`, where ids are distinct because collectors have types of
  their own and the Internet comes from none before the second); edges end at
  what was known, and no `CONNECTED_TO` edge comes before the analyzer, exactly the
  groups' ones after it (`EdgesInv`). `RealInv`: every flag and every edge is backed by
  what AWS makes of the configuration in every context, by a detail that was not read
  or by one of the misreadings that are named; none of the provider's or the
  network analyzer's leaves a role, all of the IAM analyzer's lead to one. `SeenInv`
  is the converse: what was read whole is there with all its edges, the Internet
  with it if something but a bucket is exposed. `RecordInv`: the graph is one that
  may be built of those edges, the paths what the engine may find on it. Then
  `HopIs` and `WalkIsReal` carry `RealInv` along a path, `StepIsEdge` (one lemma per
  kind of step: exposure, rule, group, part, key, role, trust, pass) carries `SeenInv`
  to the graph, `WalkStays` makes a way through the account a walk of that graph, and
  `FoundOrCapped` says that the engine reports, of the walks between two ends, some
  as short.

*Induction.* The provers cannot instantiate the library's induction schemes.
Where a proof needs one over numbers (a shortest way, the next record of an
actor, the greatest of a set of scores) it takes the least counterexample, with
the lemma `LeastNumber`, which follows from the library's fact that strict inclusion
of finite sets is well-founded. That is why walks are stated declaratively in
`AttackGraph` (`Follows`, `WalksFrom`), as is the row a page begins with.

*Model-checked only:* liveness (`EnqueuedScanEnds`, `WaitEnds`, `RequestsEnd`), which
needs `ENABLED`. Every other property of a passing run is a theorem.

## 6. Where the code and its documentation part

Met while modelling. That two grants at once insert two rows is the run
`access_idempotent`; of the others the properties say what holds beside them.

*Scans*

- A status does not only go `pending → running → completed/failed`
  (`docs/PHASE9-12_NOTES.md:20`): a redelivered message takes a completed job back
  to running (`db/store.py:60`). `StatusAdvances` says it of every scan that was not
  delivered twice.

- Two executions of a job leave the child rows of both: `save` only adds
  (`db/store.py:91`), while `db/models.py:78` says an asset id is unique within a
  job. `CountsBackedByRows` is what remains true.
- A `mark_running` that fails is outside the task's `try` (`scan_tasks.py:28`):
  the exception escapes and the row stays pending, while
  `tests/test_scan_task.py:100` says the row must reflect the failure.
- An enqueued scan whose audit insert fails is answered with 500 and runs
  unaudited (`main.py:148`); `SECURITY.md:79` says every scan creation is
  recorded.
- A synchronous scan whose audit insert fails is answered with 500, but stays in
  the store, unaudited (`main.py:117`).
- A scan that outlives the client's 30 seconds (`cli/client.py:29`) ends the CLI
  with an exception of httpx nobody catches; the scan goes on and becomes the
  latest.
- `report` asks twice (`cli/main.py:383`): without `--scan-id` statistics and paths
  may be of two scans.
- Asynchronous scans are never in the list endpoints, which read the memory of
  the API process; `paths show` and `paths analyze` need ids that no endpoint lists
  (`main.py:309-314`).
- `GET /scans/{id}` answers 404 "Scan not found" when Postgres cannot be reached
  (`main.py:171`).
- `simulate --remove` splits at every ":" and wants three parts (`cli/main.py:336`),
  while the ids of assets contain ":".
- `scan wait --interval 0` never reaches its timeout (`cli/main.py:168`, help at
  `:140`); with `--timeout 0` the message after the loop names an unset variable
  (`:170`).

*Users, tokens, analyses*

- Two registrations of a name at once: the second is answered with 500, not 409
  (`main.py:90`). So is one whose commit succeeds without its reply (`:96`), or whose
  audit record fails (`:97`), though the user is created.
- A change of a role and a deactivation take effect only when the token ends
  (`auth.py:39`), as `WrongForALifetime` bounds.
- A page asked for above 500 rows is cut silently (`audit_log_query.py:26`); a reader
  that goes on by the size it asked for skips records.
- The frontend's `lib/api.ts:80` sends no Authorization header, which every
  endpoint it calls requires.
- Two first analyses of a path at once: the second insert violates the unique
  constraint (`ai_service.py:103`); re-analysis is meant to update
  (`tests/test_ai_service.py:142`).
- The time to live of a revoked token is truncated to whole seconds
  (`token_revocation.py:47`), so it ends up to a second before the token does
  (`:11-13` says exactly then).

*Findings, graph, paths*

- The README's example path (`README.md:76-91`), over a `CAN_READ` edge from a role
  to a bucket and ranked HIGH with 72, cannot be: no provider or analyzer emits
  `CAN_READ` (`provider.py:329` says the IAM analyzer does), no edge leads from a
  role to data, and a path to data scores 59 at most. `OnlyRolesRankHigh` is what
  the code makes true.
- An account in which only a bucket is exposed has no Internet among its entries
  (`graph/builder.py:93`); `benchmarks/scenarios.py:95-116` expects the path from it.
  Conversely a bucket without a complete access block is an entry, whether or not
  anything grants access to it (`provider.py:152-154`).
- The graph keeps the last relationship of a pair (`graph/builder.py:55`), also
  where two analyzers find different ones; `docs/PHASE13-15_NOTES.md:54-64` treats
  only one such pair.
- Default targets leave out the admin roles the docstring names
  (`attack_paths/engine.py:73-79`).
- The simulation uses the targets of the default heuristic and a graph without
  the profile map (`whatif.py:42`), not the crown jewels and the graph of the
  scan (`main.py:262`); with a full cap, a removal shows paths no scan reported
  (`whatif.py:56`).
- A record read again lacks the edges the profile map gave, and its graph may
  keep another of two relationships (`queries.py:47`, `:63`; `:4-6` calls it a
  drop-in replacement).
- `evaluate` is wired to nothing: `iam:PassRole` edges ignore Deny
  (`iam/analyzer.py:161`; `ARCHITECTURE.md:229`, acknowledged in
  `docs/PHASE1-4_NOTES.md:62-69`), name patterns other than `*` match no role
  (`analyzer.py:167`).
- `NotAction` and `NotResource` are read as their opposite (`policy_eval.py:36`): a role
  with an Allow of `NotAction: s3:*` may pass roles, and no finding says so. Conditions
  are parsed (`:38`) and ignored (`:49-52`), while `docs/ARCHITECTURE.md:59` has them in
  the scope of the analysis; ARNs are compared in lower case (`:46`), AWS tells them
  apart; a boundary document without statements denies everything, as in AWS, an empty
  one (`{}`) nothing (`:73`). `DifferenceIsMisread` says that there is no other difference.
- A trust of the bare string `"*"` gives no edge and of several services only
  the first does (`analyzer.py:107-118`); a trust in the own account, by its root or its
  number, leads from a node that no role is joined to (`:187-193`); a role of another
  account is taken for the local one of that name (`:189-190`); Deny and conditions of
  trusts are not weighed up (`:103`); no finding has the category `cross_account_trust`
  (`:26`).
- A Lambda policy's `Effect` and conditions are not looked at (`provider.py:202-205`): a
  Deny for everyone counts as exposure. A bucket policy's Deny and conditions are not
  either (`network/analyzer.py:123`); `"*"` in a list of principals counts as nobody in
  both.
- A public access block that is not complete counts as none (`provider.py:153`,
  `network/analyzer.py:109`), though two of its settings shut what they are about.
- A public address makes an instance or a database exposed whatever its groups let in
  (`provider.py:135`, `:297`).
- An empty egress list is read as open (`network/analyzer.py:249`, whose comment takes it
  for the default of AWS, which is a rule); a rule of all protocols as open to
  everywhere, whatever its range (`:266`). Ports are not compared, and an IPv6 rule for
  everyone stands under `Ipv6Ranges`, which `:268` does not read, so it gives 0.5.
- A key that is referred to by an alias becomes a placeholder of that name
  (`provider.py:187`, which says references are ids or ARNs of keys).
- A rule that opens a range is sensitive only by its first port
  (`network/analyzer.py:66`).
- The cross-account factor of the score looks at `TRUSTS` edges, which no path
  crosses (`risk/engine.py:77`).

## 7. What is not modelled, and why

- *AI prompt and vendor clients*: text and HTTP; a model's answer is any summary
  or an invalid one.
- *What this commit lacks*: `write_audit_log`, `get_current_user`, `require_role`, the
  logout and audit-log endpoints and the table `account_access` are used by the
  code and documented, but not there; they are modelled from their use and marked
  external.
- *Refused logins and passwords*: a refused login leaves an audit record and no
  state; hashing and signatures are taken to work.
- *CLI printing and credentials*: `login`, `logout` and `whoami` read or write one
  file whole; the output of the other commands is abstracted to the scan it is of.
- *Frontend*: pages that fetch once and show; nothing is kept between requests.
- *Counts, labels and evidence texts* of findings, techniques and the graph view.
- *Migrations, benchmarks, Docker, other clouds*: no behaviour of the running
  system beyond what the constants take from them.

## 8. Plan

Done, in this order: scan lifecycle with its abstract job, proofs and the CLI's
wait; rate limiter; AI analysis; tenant scope; token revocation; graph, paths,
score and simulation; IAM analysis; discovery and network analysis; the
synchronous API with the CLI and the audit log; users and sessions; the pipeline
as one; proofs of every safety property of the runs, those of the pipeline last; AWS's
own meaning of configurations and policies, apart from the program's reading of them,
with the properties of discovery, analyzers and pipeline stated and proved against it.

Next: *operators that have no theorem of their own*: what `MapPath` says of a
technique's confidence, the orders `BuildsOf` and `Build` have in common (that every
graph of a list is one of its set), and the enabling conditions behind the liveness
properties as state predicates (a fair action can be taken as long as what it
serves is waiting), which is as much of them as can be proved here.
