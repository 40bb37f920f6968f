# SystemCheck: models, checks and proofs

SystemCheck monitors company machines. An agent on each Windows machine collects
events and screenshots, a Go server stores them, and administrators look at them
in a dashboard. This directory holds TLA+ models of the parts of it that are hard
to test: what happens between processes, files and requests when they overlap,
arrive late, or stop half-way. Paths below are relative to `src/`.

Contents: [the system](#1-the-system), [the models](#2-the-models), [the
runs](#3-the-runs), [bounds and fairness](#4-bounds-and-fairness), [the
proofs](#5-the-proofs), [what the models say about the
code](#6-what-the-models-say-about-the-code), [what is not
modelled](#7-what-is-not-modelled), [the plan](#8-the-plan).

To check a module: `tlc -config MCAlerting.cfg MCAlerting`; to check a proof:
`tlapm ServerProofs.tla`. `PROJECT.json` lists the runs, the lines each
definition stands for, the mutants, the hazards and the theorems.

## 1. The system

Two agent processes run on a machine: the **service** (`agent/internal/runner/runner.go`),
always, and a **session helper** (`runner/session.go`) in the session of the
logged-on user. They share a directory: the spool, `session.json` (helper to
service), `runtime.json` (service to helper) and the consent markers. Only the
service talks to the **server** (`server/internal/api`), over HTTPS, in requests
it starts. The server keeps everything in PostgreSQL, and screenshots in a blob
directory.

| Component | State | Operations | Interacts with |
|---|---|---|---|
| Spool (`agent/internal/spool`) | event and blob files | AddEvent, AddBlob, PendingEvents, PendingBlobs, Remove | both agent processes write, the service's drain reads and removes |
| Drain and transport (`runner.drain`, `agent/internal/transport`) | the request waited for | upload, ingest, heartbeat, policy | server; timeouts and retries by ticker |
| Ingest and screenshot store (`api/handlers_agent.go`, `store/events.go`, `blob`) | events, screenshots, app_usage, blobs | InsertEvents, Blob.Put, queries | alert rules; reports |
| Session helper and click-through (`runner/session.go`, `consent_windows.go`) | dialog, marker file, running generation | ask, accept, poll, start and stop collectors | `session.json`, `runtime.json` |
| Service policy loop (`runner.Run`) | current policy, collectors | poll, apply, hand off | server, helper |
| Consent and effective policy (`store/consent.go`, `store/policies.go`) | consents, assigned_user, policies | RecordConsent, EffectivePolicy, SetMachineAssignedUser | heartbeat, policy poll |
| Collector supervision (`runner/health.go`, `startCollectors`) | health registry, generations of goroutines | reset, set, merge, reconcile | heartbeat |
| Remote commands (`store/machines.go`, `handlers_manage.go`) | pending_command, restartNonce | set, consume, execute | heartbeat answer, `runtime.json` |
| Alerts (`alert`, `store/alerts.go`, `notify`, offline sweep) | alert_rules, alerts, offline_alerted | match, record, forward, sweep | ingest, heartbeat, webhook |
| Administrators (`handlers_users.go`, `handlers_auth.go`, `store/users.go`, `middleware.go`) | admin_users, sessions | log in and out, second factor, create, role, disable, bootstrap | every admin route |
| Screenshot approvals and audit (`store/approvals.go`, `handlers_approvals.go`, `handlers_admin.go`) | view requests, audit log | request, approve, view, delete | screenshot store |
| Retention (`store/purge.go`) | retention settings | daily purge of rows and blobs | screenshot store |
| Policy store (`store/policies.go`) | a policy per group, with a version | save, read | policy poll |
| Enrollment (`agent/internal/enroll`, `api.handleEnroll`, `pki/dev.go`) | tokens, machine row, key, certificate and state files, the server's certificates | create token, enroll, renew | every later request of the agent |
| Self-update (`agent/internal/updater`) | executable, attempt file, staged file, swap script | check, download, verify, swap | release endpoint, service manager |
| Collectors with cursors (`agent/internal/collectors/...`) | watermarks, cursors, counters, seen sets, timers | poll, emit, flush | spool; supervision starts and cancels them |
| Migrations (`store.Migrate`) | schema_migrations | apply, record | database |
| Keys, configuration, reports, dashboard, tools | none that outlives a call | | |

### What is hard, and what would make each part correct

* **Files shared by two processes.** `os.WriteFile` is not atomic and the drain
  lists the directory meanwhile (`spool.go:59,87`). *Correct:* nothing half-written is
  ever stored as an event; a screenshot whose file is gone is whole on the server.
* **Requests whose answer is lost or late.** The server may commit what the agent
  believes failed, and may handle it after later requests (`runner.go:331`). *Correct:*
  nothing accepted is lost, and a copy too many needs a fault.
* **Consent passed from hand to hand**: dialog, marker, `session.json`, heartbeat,
  database, policy poll, `runtime.json`, at five different paces while users come and
  go. *Correct:* nothing is collected without a record, a record from a heartbeat stands
  for a click under that user's marker name, and collection stops for a user who has
  answered and has no record.
* **Goroutines of several generations.** A cancelled collector may return late and write
  into the registry of its successor (`runner.go:296`). *Correct:* a crash stays visible
  until the next generation, reaches the server, and a restart is no crash.
* **A command in a single column**, read and cleared before the answer is sent
  (`machines.go:160`), then a counter that restarts from zero (`runner.go:87`). *Correct:*
  once at most, in order, followed by the helper, and lost only by a fault, to a later
  request, or unseen in a race with a heartbeat that is known.
* **Steps after the commit.** Alerts are matched after the batch is stored, in a
  request that may be cancelled at any statement (`handlers_agent.go:94`). *Correct:*
  no event leaves the spool before its alerts are recorded.
* **Check then act in SQL**: last administrator (`handlers_users.go:68`), second
  factor (`handlers_auth.go:98`), view approvals (`handlers_admin.go:96`), policy saves
  (`policies.go:74`), sweep and heartbeat (`machines.go:118`). *Correct:* the guard still
  holds when the write lands, or what is lost is known and final.
* **Crash between two files or two statements**: enrollment (`enroll.go:23`), the
  server's certificates (`dev.go:39`), migration, purge. *Correct:* a restart ends in a
  state the program can go on from.
* **A program that replaces itself**: checks that overlap in one process, an attempt
  record they all rewrite, a script that stops the service that started it
  (`updater.go:117`, `install_windows.go`). *Correct:* the agent comes back, whole
  and never older where labels are right and versions are numbers, and a release that
  does not take is not installed for ever.
* **Cursors over a source that moves on**: a watermark saved after the visits
  (`browsing_windows.go:38`), the newest 50 records (`seclog/run_windows.go:36`), counters
  flushed by a ticker, all of them cancelled and started again at any moment.
  *Correct:* what is passed over has one of the known reasons.

`PROJECT.json` lists these hazards one by one, at their lines, with the properties
that cover them, or why none does yet.

## 2. The models

Each component has a module, its TLC instance a module `MC...`, its theorems a module
`...Proofs`. Two proof modules serve two components each: `HeartbeatProofs` those that
travel with the heartbeat, `CollectorHealth` and `RemoteCommand`, and `ServerProofs` the
server's `Screenshots` and `Alerting`. A module extends both of its components, and for
that reason the specifications of `RemoteCommand` and `Alerting` have names with a prefix:
`CommandSpec`, `CommandNext`, `AlertSpec`, `AlertNext`. Every component's module is
self-contained but for `EventPipeline` and `ConsentGate`, which instantiate the abstract
`Delivery` and `Gate`. A definition that begins with "Mutant:" in its
comment is a plausible wrong version of the definition that follows; no
specification uses it.

### EventPipeline (and Delivery)

Collector, spool, drain, transport, ingest and blob store. `stage` follows one
occurrence from its collector's goroutine to the return of `AddEvent`; `evFile` and
`blobFile` are the directory (none, partial, whole); `stamp` is the name order
`nextName` gives; `pc`, `todo`, `batch`, `reply` are the local variables of `drain`;
`net` holds requests the server has not handled, each marked with whether its
client still waits (`live`); `rows` and `blobs` are the server's tables and blob
directory. Creating a file and completing it are two actions, so the drain can run
between them. `drain` is followed step by step: `StartDrain` lists the blobs,
`Upload`/`UploadDone`/`SkipBlob` take them one at a time, `RequestRefused` and
`RequestTimesOut` are its early returns, `SendBatch` and `IngestDone` the second
half. `Fits`/`RejectOversize` are `io.LimitReader(r.Body, 8<<20)` with the decode
error it leads to. `Crash(w)` kills the service or the helper in any state.

`Delivery` is what a collector is promised: an accepted item is kept until the server
holds it, and the server ends up holding it. `EventPipeline!Refinement` states that the
pipeline implements it, with accepted = `AddEvent` returned, held = its file is there,
copies = its rows: its safety always, its liveness unless an oversize batch is in the
way for good (`Oversize`, the first batch of the spool is larger than the server reads).
`SpoolDrains` is the promise without that exception (section 6).

### ConsentGate (and Gate)

One machine and the users who log on to it in turn. `console` and `helper` are the
session and the state of `RunSessionAgent`; `markers` the consent files; `session`
and `runtime` the two handoff files, which survive crashes; `svc` and `answer` the
service and a policy answer it has not yet applied; `heartbeats` those on their way,
handled in any order; `assigned`, `clicked`, `recorded` the server's columns and
records; the machine may start out assigned, by the token it enrolled with.
`RecordConsent` is an administrator's record, whatever method it names. `accepted` is a
history variable: who really clicked. `EffectivePolicy` is the gate. `Marker` is a
constant, `sanitizeUser` of each user, and nothing is assumed of it: two users may share
a file, and in the run two do (section 6).

`Gate` is what the users of the machine are promised: capture of a session and watching
of the machine begin only with a record, capture only where the notice was accepted
under the user's marker name and never beyond the session; a click is recorded only for
a user under whose name it was made; acceptances and records are never withdrawn.
`ConsentGate!PromiseKept` states that the three programs keep it, with present =
`console`, captured = the helper collects, watched = the service collects. Markers, the
two files, heartbeats and answers are the detail it hides.

### CollectorHealth

`gen` counts the generations a process has started, `inst[c][g]` is the goroutine of
collector `c` in generation `g`. The end of a goroutine is three actions, as in
`startCollectors`: `Start` returns (`Fails`, `WindsDown`), `ctx.Err()` is looked at
(`CheckContext`), the registry is written (`MarkDown`); a restart may fall between any
two. `published` and `fresh` are `session.json` and its age, `mergedCollectorHealth`
the merge, `Reconciled` the server's second opinion from recent data, `health` the
machine's stored report.

### RemoteCommand

Requests are numbered; `pending` is the column. A heartbeat passes through "sent",
"read" and "answered", because the SELECT inside `ConsumePendingCommand` reads a
snapshot and its UPDATE may wait for another statement. Heartbeats the service gave
up on stay in `abandoned` and are handled late or never. `nonce`, `runtime` and
`helperNonce` are the restart counter in the service, in the file and in the
helper. History variables: `owed`, the executed restarts the helper has not followed;
`replaced`, the requests a later one took the place of; `crossed`, those made between a
heartbeat's SELECT and its UPDATE, which clears them unseen.

### Alerting

`Ingest` posts the spool; the handler's steps are one action per statement:
`InsertEvents`, `LoadRules` (once per batch), `CreateAlert`, `Notify`, `Answer`. A
request the agent gives up on leaves `live`; from then on its context is cancelled
and each statement may fail (`MayFail`) with or without its effect. Two handlers
overlap when a retry arrives while the first is still at work. `due` is a history
variable: the matches of each batch at the moment it was posted. `Evaluate` keeps
the event kind each rule kind watches; whether the data satisfy the condition is the
constant `Hits`. `SweepSelects` and `SweepRaises` are the two halves of the offline
sweep, `Recorded` the column type that refuses an id that is not a rule's.

### Screenshots

The server's side of a machine's screenshots after ingest. A row is the pair of its
screenshot and the number of the insertion, so that a retried batch gives two rows with
one object key; `blobs` is the blob directory, where a second upload overwrites the
first. `purge` is the purge under way in each server instance: the cutoff fixed at its
start, the keys still to delete, then one statement for the rows. `removing` holds the
rows a delete request has removed whose blob is next. `requests` is the table
view_approvals, which any account may ask for and any other approve, since its routes
ask for no role; `Role` decides who may delete (`requireRole`). `view` is an account's
request as it goes through its handler: row found, approval checked, image or list read,
audit entry attempted, answer written. `Listing` stands for the list of screenshots,
which passes through the same steps but the first. History variables: `covered` and
`logged` in a view (an approval in force covered it at some moment; its entry is in the
log), `unaudited` (shown without an entry); `deleted` (row and blob removed on request),
`reput` (uploaded again after that), `revived` (shown to a request made after that),
`excused` (the blob stays for a known reason: it could not be deleted, or it or its row
arrived when no purge could find it).

### Accounts

A request is one SQL statement per step: `ReadSession` and `ReadUser` are the
middleware, `ReadTarget` and `CountEnabledAdmins` the guard of `handleSetUserRole` and
`handleDisableUser`, `SetRole`, `SetDisabled`, `CreateAdmin` the write; login,
verification, enrollment of a second factor and logout likewise. `active` holds the
requests in hand with what they have read; no transaction spans two steps, as in the
code. `HandlerFails` ends a request at any step, `ReadTargetFails` is the error that skips
the guard (`handlers_users.go:68`). `boot` is `bootstrapAdmin`: count, then insert, in
each server process. History variables say what an overlap has done: `raced` (an
administrator was removed on a reading overtaken by another removal), `mixed` (a second
factor enabled after the secret was replaced), and in each request `live`/`entitled`
(its session was open, its user an enabled administrator, at some moment of it). `factor`
and `basis` tell apart what the column mfa_passed does not: whether a user's factor was
never enabled ("new"), is enabled ("armed") or was turned off by another enrollment
("reset"), and whether a session passes because it has shown a code ("code") or because
its login met a factor in one of the other two states.

### Updater

`checks` and `scripts` give each check that is allowed a place, and the script it
launches the same one. A check passes through `shouldAttempt` (it reads `attempt`), the
download, `saveAttempt` (truncate, then write), `Install` (write `agent.exe.new`,
launch), each an action; a script asks the service to stop, waits, moves the file,
starts the service. `svc` is the service manager's view, and the end of the service ends
every check with it. `latest` and `served` are what the server advertises and the file
it serves, which change separately; `Built` is the version compiled into a release, any
version, so that a mislabelled release can be installed without ever becoming what it
was called. `Parsable` are the versions `parseVersion` reads: where one of two is not,
`IsNewer` compares by inequality, as the code does. Files are releases, `Torn` or
`Absent`. `installs` and `overlapped` are history.

### Enrollment

`cert` is the four files of `EnsureDevCerts`, written one by one (`WriteCert`) by a server
that may crash in between and start again; `Rotate` is the operator's renewal, which
removes the server's own files or, as the README describes it, the CA's with them
(`retired`, a history variable, keeps the CAs lost that way); `Repair` is the removal of
files that keep the server from starting. A token is single-use, good for a number of
machines, or `Unlimited`; `closed` (history) is its count when it expired. A call's number
stands for the key generated for it, the certificate signed and the row created. `Consume`
is the statement of `ConsumeEnrollmentToken`, `ConsumeFails` its error, which the handler
answers like an invalid token; `CreateMachine` is the signing and the insert. Either may
fail by a fault or because the agent has given the request up (`Abandoned`), with or
without its effect on the table. `disk` is each agent's key, certificate, CA and
state.json; `WriteFile` writes one of them, `Interrupt` cuts one short. `Resume` is an
agent that starts again with what is there: `Enrolled` only looks at agent.crt.

### Collectors

One collector of any of four kinds: `browsing` (watermark in a file), `seclog` (cursor
in memory, newest `Limit` records), `dns` (a session whose events are emitted one by
one; printjobs is the same), `netflow` (added up and flushed). `gens` are its
generations, of which an old one may still be at work after it was cancelled; `saved`
is the watermark file. Items come in one order and have times in any other (`Time`),
since clocks are set and visits are synchronised from other machines. A scan without a
mark begins a week before now, at some time of `Horizon` (`initialLookback`). `Load`,
`Query`, `QueryFails`, `Emit`, `Emitted`, `Save` are `scanAll`; `Seed` and `Poll` are
seclog; `Take`, `Tick` and `Return` the loops around a session, `Return` with
netflow's last flush. `excused` (history) collects what the code gives up on, at the
step that gives up on it: visits that share the time of the last one of a full scan,
visits whose time is not after the mark when they are written (`TooLate`), visits
older than a week while there is no mark; records before the collector started or
beyond the newest of a burst; events nobody listened to, or lost with a session.

## 3. The runs

| Run | Configuration | Checks | Shows |
|---|---|---|---|
| pipeline | `MCEventPipeline.cfg` | NoEventLost, RowHasBlob, DuplicatesNeedFault, EventuallyStored, Refinement | two faults of any kind anywhere: nothing accepted is lost, every listed screenshot has its blob; when faults end everything accepted arrives, or an oversize batch is in the way; the pipeline implements `Delivery` |
| pipeline_torn_blob | `MCEventPipeline_torn_blob.cfg` | BlobWhole (violated) | without a fault, a screenshot can be uploaded half-written and its file then removed |
| consent | `MCConsentGate.cfg` | OnlyAfterAcceptance, PromiseKept, EventuallyOff, EventuallyOn | two logons among three users, two of whom share a marker file, two faults: what `Gate` promises is kept at every step, and for a user who has answered the gate closes and opens along the whole chain |
| health | `MCCollectorHealth.cfg` | CrashRecorded, CrashSurfaces, DeadHelperSurfaces | with two failures, a crash together with a lost heartbeat among them, crashes are recorded and reach the server, and so does the death of the helper |
| command | `MCRemoteCommand.cfg` | OnceInOrder, LossIsExplained, HelperFollowsAService | lost and late heartbeats and crashes never repeat or reorder a command; none is lost but by a fault, a later request or a race with a heartbeat |
| alerting | `MCAlerting.cfg` | AcknowledgedMeansAlerted, EventuallyAlerted | overlapping and cancelled handlers leave no acknowledged event without its alerts |
| alerting_offline | `MCAlerting_offline.cfg` | OfflineIsAlerted (violated) | the database refuses the sweep's alert, every time |
| screenshots | `MCScreenshots.cfg` | ServedWasApproved, UnauditedNeedsFault, GoneIsGone, RetentionHolds | rows and blobs that arrive twice and in any order, viewed, deleted and purged by two instances at once: no view without an unexpired approval by somebody else, none unaudited without an error, what is deleted stays so but for repeated uploads, and retention ends |
| accounts | `MCAccounts.cfg` | AdminRemains, ActedWasEntitled, EnabledIsProven, LockOutIsFinal | unless guarded requests overlap an enabled administrator remains; a lock-out is final; whoever was revoked acts no more; a session passes without a code only if its login met a factor never enabled or reset; an enabled second factor was proven, unless an enrollment overtook the verification |
| updater | `MCUpdater.cfg` | TypeOK, ComesBack, BudgetHolds, NoRollback, EventuallyUpdated | no older executable but for a wrong label or an unparsable version, whatever overlaps or fails; the agent comes back and keeps to its attempts unless checks overlapped; it does not stay behind unless its service was left stopped |
| enrollment | `MCEnrollment.cfg` | TypeOK, TokensHold, AgentsKeepTrust, OneIdentity, NothingIsWasted, EventuallyConnected | tokens are never overdrawn nor used after they expired, keys, certificates and rows never mix, only the operator's removal takes the CA away, only an interrupted agent is stranded, and every agent with what it takes to be let in gets to talk to the server |
| collectors | `MCCollectors.cfg` | NothingPassedOver, RepeatsNeedAReason, EventuallyReported, EventuallyQuiet | nothing is passed over but for the code's reasons, nothing is repeated without a fault or overlapping generations, what is found is reported, what is cancelled returns |

Every property of a passing run is violated when the one definition named with it
under "mutants" is replaced by its mutant, in the same configuration.

Every safety invariant and every action property in the table is also proved for every
value of the constants (section 5), and so is every module's type invariant; the runs
check that of `Updater` and `Enrollment` as well.

Deadlock is checked where the tickers never stop (pipeline, consent, health, command,
alerting, screenshots). A server without requests, an agent that is up to date or
enrolled, and a source nothing happens in have nothing to do, and the bounds end what
the environment does: `accounts`, `updater`, `enrollment` and `collectors` say
`CHECK_DEADLOCK FALSE`.

## 4. Bounds and fairness

Bounds are constants named `Max...`, in guards. They bound what the environment
does: faults, crashes, sessions, requests, policy changes.

* **EventPipeline**: two plain events and one screenshot, batches of two, one blob per
  drain, one large event per request. Two events and a batch of two give full, partial
  and oversize batches; a screenshot is written by the helper and the events by the
  service, so files of both processes meet in a drain. Two faults let a retry itself be
  interrupted, and allow a late request plus a crash. Oversize batches do occur;
  `EventuallyStored` and the liveness of `Refinement` exempt only the behaviours that
  end with one.
* **ConsentGate**: three users, of whom two share a marker file and one has his own, two
  logons, two faults (675,856 states). Any hand-over is between two users; with three of
  them both kinds occur, to a user with the same file and to one with another, and a
  machine may be assigned to a third, who is not there.
* **CollectorHealth**: one collector in each process, three generations, two policy
  changes or restarts, two faults (162,838 states): an old goroutine, its successor and
  one more restart; a crash whose report is lost as well.
* **RemoteCommand**: three requests (restart, log, restart), two lost heartbeats and two
  crashes. Two abandoned heartbeats plus the current one can all have read the same
  command.
* **Alerting**: a DNS event that a block-list rule hits, an install that a rule
  without condition matches, rules created at any time, one request given up on and
  one database error: enough for a cancelled and a live handler to overlap on the same
  events, and for an error in either.
* **Screenshots**: one screenshot whose upload and insertion may each be handled
  twice, one view request, an administrator who asks to view (`Viewer`) and an account
  with role viewer, the only one there is to approve, two purging instances, one error or
  crash (515,516 states). Two rows over one blob are what a retry leaves; screenshots do
  not interact with each other. The theorems hold for any number of each.

* **Accounts**: two users, two sessions, two requests at a time out of six, one server
  process stopped and started at any time, two secrets, one failing statement (1,983,163
  states). Two requests are what it takes for a guard to be overtaken; six allow log in,
  create a second administrator, log in as that one, and two removals that overlap, or an
  enrollment, its verification, a second enrollment, a logout and a login. Requests and
  sessions are interchangeable (symmetry; the run has no liveness property). The
  theorems hold for any number of everything.
* **Updater**: three releases of which the third was built without its version (the one
  inside is lower and unparsable), two checks at a time each with its script, one change
  of what is advertised or served, one fault (489,307 states). The agent may start with
  any release, newer than the server's included. `maxInstallAttempts` is the code's 3.
  The theorems hold for any number of releases, checks, changes and faults.
* **Enrollment**: two agents, one token for one machine, for two or without a cap, four
  calls, so that each agent can ask again, one renewal of either kind, one fault (1.27
  million states). The theorems hold for any number of agents, tokens, calls, renewals
  and faults.
* **Collectors**: three items with times 3, 2, 3, scans of two: a full scan can end
  between the two of one time, and the second comes with a time before the first. Without
  a mark a scan begins at 1 or 2, so the second may be older than a week. Two places for
  three generations; one crash or failure (397,255 states). The theorems hold for any
  number of items, times, horizons, limits and generations.

Fairness is weak unless said otherwise and stands for what the code schedules:

* tickers of the service and the helper (drain, heartbeat, policy poll, helper turn,
  offline sweep): a Go `time.Ticker` in a loop that returns to its `select`;
* handlers: the server finishes a request it has received, unless it is lost.
  For commands and alerts only requests the agent still waits for are fair: an
  abandoned one may never be handled;
* goroutines that have been started run, a started `WriteFile` returns, time passes
  (`SessionGoesStale`, `DataAges`);
* the daily purge, and the end of a delete request that has removed its row;
* `StartService`: the service manager restarts a crashed service.
* `SendHeartbeat` in ConsentGate is strongly fair: the service's loop alternates
  between policy polls and heartbeats, so the heartbeat is enabled again and again
  but not continuously.

* Updater: a check and a script go on, a service that was asked to stop ends, hours
  pass (`CoolsDown`). `WaitForStop` and `Move` are strongly fair: another script's "sc
  start" may come between STOPPED and the query that looks for it, but not every
  time. Only a download in a stopping service, a wait for a service that is up again and
  a move onto a locked file are bound to fail in the end.
* Enrollment: the server is started and repaired, handles the requests it has, and
  every agent goes on and is started again, some day.
* Collectors: a generation that has something to do goes on; one that was cancelled
  does not prefer its ticker to `ctx.Done()` for ever (Go's `select` picks among the ready
  cases at random), which is strong fairness of returning.

No fault, no user, no administrator, no release and no source is ever required to act.

## 5. The proofs

| Module | Theorem | Establishes, for every value of the constants |
|---|---|---|
| EventPipelineProofs | Invariance, TypeCorrect | the inductive invariant, type correctness |
| | NoLoss, NothingTornIsStored, RowsReferToBlobs | no accepted event is lost, nothing half-written becomes a row, every listed screenshot has a blob |
| | StoredOnce | without a fault nothing is stored twice |
| | ImplementsDelivery | the safety half of the refinement of `Delivery` |
| ConsentGateProofs | TypeCorrect, GateIsClosed | type correctness; nothing is collected before a record |
| | RecordsAreClicks, CaptureNeedsAcceptance | whatever names users and markers have: a heartbeat's record stands for a click under that user's marker name, and session collectors run only after one |
| | ImplementsGate | the refinement of `Gate`, for any names as well |
| HeartbeatProofs | Invariance, TypeCorrect | of `CollectorHealth`: type correctness and listed collectors |
| | CrashesStay, QuietRestarts | crashes stay recorded; restarts alone look like no crash |
| | CommandInvariance, CommandTypes | of `RemoteCommand`: type correctness |
| | CommandsInOrder, TakenFirst, NothingElseLoses | once at most and in order; cleared before executed; without a lost heartbeat or a crash every request ever made is executed, in its column or on its way, unless a later one took its place or it was made between a heartbeat's read and its clear |
| ServerProofs | TypeCorrect, ShownOnlyIfApproved, ShownIsAudited, DeletedStaysGone | of `Screenshots`: views are covered by an unexpired approval of somebody else's, and audited unless something fails; a deleted image comes back only through a repeated row and a repeated upload |
| | AlertInvariance, AlertTypes, AlertedAtLeastOnce | of `Alerting`: type correctness and stored before matched; no acknowledged event without its alerts |
| AccountsProofs | TypeCorrect | type correctness; open sessions belong to accounts |
| | AnAdminRemains | without a failed reading and without an overtaken guard an enabled administrator remains |
| | Entitled | no request past its authorisation was made by somebody who was no enabled administrator while it was handled; once a factor has been enabled only sessions that have shown a code speak for the account, but for those whose login met a factor never enabled or one an enrollment had turned off |
| | FactorsAreProven | an enabled factor is the stored secret's, which was proven, but for an enrollment that overtook |
| | LockedOutForGood | no step leaves a lock-out |
| CollectorsProofs | TypeCorrect | type correctness; nothing is emitted that the source does not have; one generation at most is not cancelled |
| | NothingIsPassedOver | what is behind a watermark or a cursor, or no longer held, was reported or excused, for items of any times in any order |
| | ReportedOnce | without a fault and without overlapping generations nothing is reported twice |
| UpdaterProofs | TypeCorrect | type correctness; a service that is not down has a whole executable |
| | NeverRollsBack | the executable replaced never has the version advertised, and is replaced by a higher one, unless the build installed is not what its label says or one of the versions cannot be parsed |
| | ServiceComesBack, AttemptsAreBounded | without overlapping checks and failures: a service stopped for an update starts again, whole; no more than three installations on one budget |
| EnrollmentProofs | Invariance, TypeCorrect | the inductive invariant, type correctness |
| | TrustIsKept, IdentityIsItsOwn | the CA of the agents' certificates is never replaced, unless the operator removes its files; key, certificate, identity and row belong together and to one agent |
| | NoWaste, TokensAreCounted | without a fault every row is some agent's and only an interrupted agent is stranded; tokens, capped or not, are never overdrawn nor used after they expired, and only a fault wastes a use |

The only assumptions are the named `ASSUME`s of the modules, which TLC evaluates in every
run. They say what types the constants have, and that the model values are none of the
things they are distinguished from; no theorem has a hypothesis of its own. In particular
nothing is assumed of the names users and markers have, of the versions compiled into
releases, or of the times of visits.

Each proof has the same shape: an inductive invariant (`IInv`, or one per property on top
of the typed state, `Typed`), a lemma that `Init` implies it, a lemma with one step per
action, then a temporal theorem by `PTL`. Lemmas state once what the models' operators
do to the state they touch (`GoesFacts`, `EndsFacts`, `StartFacts`...). Why the invariants
are stronger than the properties:

* **EventPipeline.** `NoEventLost` is about files that are deleted on an "ok". It needs
  that an "ok" belongs to the request being waited for (`LiveIsCurrent`: at most one
  request is live, it carries `batch`, and there is no answer yet) and that it means
  the server has the items (`OkMeansStored`). `TornNeverStored` needs that whatever is
  in flight was accepted (`SentWasAccepted`), since an abandoned request may be
  handled at any later time. `RowHasBlob` needs `FileOfStage` and `UploadsExist`.
  `DuplicatesNeedFault` needs `OnceInv`: while nothing has failed every request in flight is
  awaited, and a stored event has either no file any more or is in the batch whose "ok"
  the drain has before it, so that it is not sent again.
* **ConsentGate.** A click travels through marker, `session.json` and heartbeats:
  `TracesAreClicks` says each of them carries only clicks made under the same marker
  name; `GateFollowsRecord` says that an answer "active" in hand means a record exists
  already. Both together make each step one of `Gate` or none: a helper's turn that
  finds runtime.json active is its `Capture`, a policy applied its `Watch` or `Rest`, a
  heartbeat handled its `Record`.
* **CollectorHealth.** `CrashRecorded` holds because only the generation's own
  goroutine writes "down" and nobody writes "up" but a start; `QuietInv` says that
  without faults a goroutine that failed does so under a cancelled context.
* **RemoteCommand.** `StillToCome`: what is in the column, or read for the current
  heartbeat, is later than all that was executed, and what is in the column once an
  answer was built is later than the answer. `AwaitedInv` adds that no heartbeat is
  abandoned while there was neither a timeout nor a crash: what the column lost is then
  in the answer of the one heartbeat the service waits for.
* **Alerting.** `InHand`: while the agent waits for a request that has loaded the
  rules, each due match of its batch is recorded or still to be recorded, and "ok"
  leaves none. `DueKnown` (rules are never removed) makes the rules at matching time
  include those at posting time. `StoredFirst`, in `TypeOK`, carries the stored batch
  over to the matches.

* **Screenshots.** Three invariants, each inductive with `TypeOK`: `ApprovalInv`
  carries an approval by somebody else from the check to the answer (it may expire in
  between, it is never withdrawn); `AuditInv` says that past the audit step the entry is
  there, if nothing failed; `GoneInv` ties a deleted screenshot to its insertions and
  uploads: a row that is still there is another insertion's, an image that is there was
  uploaded since.
* **Accounts.** What a request has read says nothing by itself; what later writes leave
  of it does. `GuardInv`: while nothing failed and no guard was overtaken, a request
  past its count that is not `stale` still has a second enabled administrator beside its
  target. It needs that another request's removal makes it stale (`Noted`), and that
  everybody's own write is guarded. `RightsInv` says that a user who is an enabled
  administrator while his request is in hand has been noted as entitled, so that the
  reading in `ReadUser` finds him noted. `BasisInv` says that a factor once enabled is
  enabled or was reset, that a login in hand which will ask for no code met a factor never
  enabled or reset, and that every session that passes has one of the three reasons: the
  column alone says none of this. `FactorInv`: a verification that is not stale
  holds the stored secret. `LockOutIsFinal` is an action property: without an enabled
  administrator `Admitted` refuses, and with any account the bootstrap does.
* **Collectors.** `NothingPassedOver` is about marks that may be moved by another
  generation: `CoverInv` says of each generation that what lies behind the mark it has,
  or will have, is reported, excused or still in its hands (`Covers`), and of the
  saved watermark that what lies behind it is settled (`Behind`). A generation therefore
  carries the promise from the query to the save, whoever saves in between. Since times
  come in any order, an item is behind a mark by its time and not by its number: what a
  scan leaves unread at or before its new mark is in `PassedOver`, and what is written
  later with such a time is `TooLate`, against the marks of scans under way as well.
  `RepeatsNeedAReason` is the converse: `Fresh` says that what a generation holds was not
  reported, and that what was reported lies behind the mark it has or will have. This is
  true of one generation alone, reading the watermark file before anybody else writes it,
  which is what `overlapped` excludes.
* **Updater.** `OnlyNewer` says that a check under way, a staged file and a script about
  to move it belong to a release `IsNewer` has accepted; it holds whatever overlaps, and
  `ReplacedByNewer` reads `NoRollback` off it. `ComesBack` and `BudgetHolds` are about
  one check at a time: `OneAtATime` says that a check past its decision and a script
  exclude each other, `ScriptInTime` what the script finds at each step (the staged file
  whole, the service still to be stopped, or stopped by it), and `Recorded` that the
  attempt file or the check in hand counts every installation made.
* **Enrollment.** `AgentsKeepTrust` is inductive only with what is on the server's disk:
  `CertInv` says that a CA key is never there without its certificate and is that
  certificate's, so `FirstFile` makes a new CA only when nobody can hold the old one, or
  when the operator has retired it (lemma `CertStep`: every step of the server keeps
  `Founded` or retires the CA; `Known` is what is left for a certificate to be signed
  by). `RowsInv` ties each row to such a CA. `OneIdentity` needs the order in which an
  agent writes its four files (`DiskInv`) and that it writes the answer to its own
  request (`AskInv`). `NothingIsWasted` needs `WholeInv` (who was not interrupted has
  written everything) and `AwaitedInv` (without a fault each request is somebody's, and
  each served one on its way to a disk). `TokensHold` compares a counter with the
  cardinality of two sets, the rows of a token and the requests past the counter but
  without a row (`TokenInv`); a failed insert takes a request out of the second and may
  put it into none, which is why equality takes `faults = 0`; lemma `NobodyGaveUp` says
  that no statement fails because its request was abandoned before the first fault.
  `ExpiredInv` says that the count of an expired token is the one it had (`closed`).

Model-checked only: the liveness properties (`EventuallyStored`, `Refinement`'s liveness
half, `EventuallyOff`, `EventuallyOn`, `CrashSurfaces`, `DeadHelperSurfaces`,
`HelperFollowsAService`, `EventuallyAlerted`, `RetentionHolds`, `EventuallyUpdated`,
`EventuallyConnected`, `EventuallyReported`, `EventuallyQuiet`), since fairness and
ENABLED are out of the prover's reach, and the two violation runs, which are
counterexamples. Proved only: `TornNeverStored`, `RestartsAreQuiet` and
`ExecutedWasTaken`, for which no run is spent, and `ClickthroughIsReal` and
`NothingBeforeARecord`, which the run checks as parts of `PromiseKept`.

## 6. What the models say about the code

Eleven disagreements with the repository's own words. Two have a run that TLC finds
violated; each of the others is an exemption that a passing run's property needs and names,
without which TLC finds a counterexample. The quotes in full are under "findings" in
`PROJECT.json`.

| The code | The words | Where it shows |
|---|---|---|
| A screenshot can be uploaded while it is written, and lost (`spool.go:59`) | "durable on-disk queue", `spool.go:1-3` | `BlobWhole`, violated |
| Offline and health alerts are never recorded: their rule id is no UUID (`machines.go:119`, `handlers_agent.go:192`, `migrations/0001_init.sql:145`) | "raises an alert ... once per outage", `cmd/server/main.go:98-99` | `OfflineIsAlerted`, violated |
| While the next user has not answered the dialog, the service goes on under the previous user's consent (`session.go:109`) | "Collection stays off until accepted", `session.go:106`; `consent_windows.go:12-13` | `EventuallyOff` begins with the answer (`helper # "prompt"`) |
| Users whose names sanitise to the same file share a marker: the second is never asked, is captured, and gets a record (`session.go:219`) | "once per user", `session.go:106`; "per-user consent marker", `:198-199` | `AcceptedAs` in `OnlyAfterAcceptance` and `PromiseKept`; the run has two such users |
| A command set between the read and the clear of `ConsumePendingCommand` is cleared unseen, and a second one replaces one not fetched (`machines.go:160`) | "queues a one-shot command for a machine's next heartbeat", `machines.go:154`, `handlers_manage.go:98-99` | `crossed` and `replaced` in `LossIsExplained` |
| View requests and approvals ask for no role: two viewers open the screenshots to each other (`server.go:95`) | "a second admin's approval", `docs/OPERATIONS.md:24`, `:33`; "RBAC enforced on every admin route", `docs/SECURITY_REVIEW.md:17` | the one approver in the run of `ServedWasApproved` has role viewer |
| An account that never enrolls a factor manages everything without a code; enrolling anew asks for no code and turns an enabled factor off (`server.go:58`, `users.go:129`) | "Everyone must enroll TOTP MFA on first login", `docs/OPERATIONS.md:36`; "mandatory TOTP MFA", `docs/THREAT_MODEL.md:28` | the bases "new" and "reset" in `ActedWasEntitled` |
| Two guarded requests that overlap, or a failed reading, remove the last enabled administrator, for good (`handlers_users.go:72`) | "refuses to demote or disable the last enabled admin", `docs/OPERATIONS.md:34`; `handlers_users.go:68`, `:103` | `raced` and `faults` in `AdminRemains`; `LockOutIsFinal` |
| Checks that overlap install a release more than three times on one budget (`updater.go:117`) | "a bounded number of attempts", `updater.go:28-29` | `overlapped` in `BudgetHolds` |
| The documented renewal removes the CA too, and cuts every agent off (`dev.go:40`) | "without touching agents", `docs/OPERATIONS.md:57`; `dev.go:36-39`; the procedure: `README.md:181-185`, `HANDOVER.md:60,203-205` | `retired` in `AgentsKeepTrust` |
| With a publicly trusted certificate an agent never connects: it trusts the internal CA only (`transport.go:52`) | recommended in `README.md:229-230`, `enroll.go:45-47` | `ShownPublic` in `EventuallyConnected` |

Behaviour found with TLC on these models, which is why the properties above have the
exceptions they have, and kept in no run:

* a batch over the server's limit is refused and rebuilt for ever and holds back
  everything behind it (`handlers_agent.go:78`): `SpoolDrains` fails without a fault, and
  `EventuallyStored` exempts it;
* a collector of the running generation can be marked as stopped by a goroutine of the
  previous one (`runner.go:296`);
* after a service restart the helper can miss a "restart", because the counter comes
  back to the value it knows (`runner.go:87`): `HelperFollows` fails after a crash;
* a release with a wrong label, or a version that is not a dotted number on either side,
  can be a rollback: of releases 1, 2 and 3 with versions 1, 2 and 1 inside, an agent on
  2 is offered 3 and ends with version 1 (`NoRollback` says when that cannot be).

Behaviour the models contain, that no document we found speaks against:

* an event whose answer is lost is stored twice, and counted twice in `app_usage`
  (`DuplicatesNeedFault` says that it takes a fault);
* a command taken for a heartbeat whose answer is lost is gone (the premise of
  `LossIsExplained`);
* a collector that returns nil on its own stays "running" in the registry;
* Process stops at its first error, so one error can leave an acknowledged batch
  without the rest of its alerts (the hypothesis `dbErrors = 0`);
* an image uploaded after its row was deleted or purged, or whose purge failed, stays
  in the blob directory for ever: nothing refers to it any more (`excused` in
  `RetentionHolds`);
* deleting one of two rows of a retried batch removes the image of both; if the
  upload is then repeated, the other row shows the deleted image (`GoneIsGone`);
* an expired view request can still be approved, without effect;
* overlapping checks share one agent.exe.new and one script: a script can find the
  executable torn or leave the service stopped (`overlapped` in `ComesBack`);
* `EnsureDevCerts` keeps a CA whose two files exist, whatever is in them: after a crash
  between or within them the server refuses to start until somebody removes them, and
  a server certificate that was provided without a CA is overwritten;
* an agent interrupted after agent.crt was created believes itself enrolled
  (`enroll.Enrolled` only looks for the file) and ends at every start if a file it needs is
  missing or torn: `service_windows.go:29` drops the error of `runner.Run` while the service
  stays "running". Installing again repairs a missing CA, not a torn certificate;
* a token can be used up without a machine: its consumption and the row are two statements,
  and the second may fail, or belong to a request nobody waits for (`NothingIsWasted`,
  `TokensHold`);
* the generation of a collector that was cancelled but has not returned may emit again
  what its successor emits, and save an older watermark over a newer one (`overlapped`
  in `RepeatsNeedAReason`); the watermark going back costs repeats, not losses;
* visits that share the time of the last one of a full scan, visits written with a time at
  or before the mark (a clock that was set, history synchronised from elsewhere), visits
  older than a week while there is no mark (`browsing_windows.go:29`), records beyond the
  newest 50 of a poll, and what happens while a session is closed are never reported.

## 7. What is not modelled

* **Inside the modelled parts**: sections of a policy and their versions, what a log
  upload contains, encryption of blobs, queries that read events back, listing and
  acknowledging alerts, listing accounts, the collision of spool names between the two
  processes, the lines of agent-update.cmd (a script that is rewritten while it runs),
  waits longer than a script's sixty queries as such (`WaitEnds` may come at any time),
  an upload that fails whenever it is tried, and `uninstall.ps1`, which removes the data
  directory and with it an agent's identity, spool and marks.
* **Policy store**: `SetGroupPolicy` is one transaction, but two saves of one group at
  the same time read the same `max(version)`, and neither sees the assignment the other
  inserts: one version number can end up with two documents, and agents compare numbers
  only (`runner.go:168`, `session.go:167`). `ConsentGate` knows a policy as active or
  inactive, where this does not show; `PolicyStore` is the next module of the plan.
* **Collectors**: fswatch (debounce timers, the cap on watched directories), the set
  differences of usb and installs (an item that comes and goes between two polls is
  not seen, and a restart takes what is there as known), foreground, posture and the
  capture of screenshots.
* **Left out for good**: cryptography, passwords and the format of keys (pure functions
  with unit tests of their own), configuration parsing, read-only reports, the
  dashboard (a client without state that outlives the page), tools and installers.
* **Not yet**: see the plan.

## 8. The plan

Order: the path of the data first (EventPipeline), then the gate over it
(ConsentGate), then what watches over both (CollectorHealth, RemoteCommand,
Alerting), then what is stored and who may see it (Screenshots, Accounts), then how an
agent comes to be, stays current and finds its events (Enrollment, Updater,
Collectors). These are done. Next, in this order:

| Module | Models | Properties and theorems worth having |
|---|---|---|
| PolicyStore | saves of a group's policy, versions, polls of agents | versions grow; agents end with the last saved policy; abstract specification: one atomic register per group |
| SpoolNames | clock resolution and the two counters of `nextName` | no two files of one process collide, what two processes need |
| Snapshots | usb and installs (set differences), fswatch (debounce timers, shared `emitted` map) | what a poll may miss or repeat; a common abstract specification with Collectors, an at-least-once feed |
| Migrate | apply and record | repeating is harmless when each file is |

`PolicyStore` and `ConsentGate` compose through `EffectivePolicy`, `Collectors` and
`SpoolNames` with `EventPipeline` through `Accepted`, `CollectorHealth` with `Collectors`
through generations. The pure evaluation of alert rules (`Evaluate`, `domainMatch`) can be
refined under `Alerting!Hits`.

Proofs to come: abstract specifications beside `Delivery` and `Gate` and the proof that
the modules implement them: a command channel that delivers at most once and in order
(`RemoteCommand`), an at-least-once feed (`Collectors`), a counter of token uses
(`Enrollment`).
