# The All Seeing Eye: TLA+ models

The All Seeing Eye audits the network activity of company devices. An agent on
every device reports to a backend; auditors ask the backend, from a terminal,
what a device did and when it was silent. The evidence is worth something only
if no report is lost or reordered on the way, if the recorded absences are
true, and if a device is audited by exactly the companies that accepted it.
These modules model the parts of the program that decide that.

## 1. Inventory

| Component | State it keeps | Operations | Modelled by |
|---|---|---|---|
| Agent queue and HTTP client (`agent/app/local_queue.py`, `transport.py`) | JSONL file of requests, backoff, the call that is running | `_post_or_queue`, `flush`, `enqueue`, `read_all`, `replace_all`, `post_json` | `AgentQueue` |
| Agent runner (`agent/app/runner.py`, `windows_service.py`) | next heartbeat and scan, identity, stop flag | `run_once`, `run_forever`, lifecycle and network reports, signals | `AgentControl` |
| Agent state file and commands (`agent/app/state.py`, `cli.py`) | state JSON: selected company, known links, recording switch | link, companies, use-company, start and stop recording, unlink | `AgentControl` |
| Collectors and identity (`network_collector.py`, `device_identity.py`, `config.py`) | none | read the operating system | not modelled: no protocol state |
| Ingestion (`backend/app/audit/presentation/router.py`, `record_agent_activity.py`, `ingest_*.py`, `resolve_audit_company_context.py`) | network and lifecycle events | the two POST handlers, `AGENT_RECOVERED` | `HeartbeatMonitor`, `AuditQueries`, `DeviceRegistry` |
| Detector and scheduler (`detect_missed_heartbeats.py`, `heartbeat_scheduler.py`, `main.py`) | its transaction, the loop | a run over all devices and links, commit, rollback | `HeartbeatMonitor` |
| Devices and credentials (`backend/app/devices`) | device, `last_seen_at`, tokens | register, mark seen, provision, rotate and check tokens | `DeviceRegistry` |
| Companies: enrollment and links (`backend/app/companies`) | codes, requests, links | create code, request, review, revoke | `Enrollment` |
| Auditor access (`request_auditor_access.py`, `verify_auditor_access.py`, `otp_delivery.py`, `shared/security.py`) | access requests, sessions, OTP events | request, rate limit, text, verify, expire, check a session | `AuditorAccess` |
| Incident window and movements (`query_incident_window.py`, `query_device_movements.py`, the event repository) | the answer under construction | search, list, classify, merge | `AuditQueries` |
| Auditor command line (`auditor/app`) | session file, exports | login, history, export; company, code and review commands | `AuditorAccess` (session), `AuditQueries` (history and export) |
| Company creation, summary and lists | companies | one insert, counts and lists | not modelled: constants of the models, reads of other modules' rows |
| Migrations, settings, health | none at run time | | not modelled; the unique indexes are part of `Enrollment` |

How they interact. The runner and the commands hand every request to the local
queue; the queue posts it, or keeps it in the file and posts it later. What the
runner reports, and for which company, is decided by the state file, which only
the commands write. The backend checks the agent's token, marks it as used, and
records the event, a recovery if the device was missing, and `last_seen_at`, in
one transaction per request. The scheduler thread reads `last_seen_at` and the
newest lifecycle event of every active link and records
`AGENT_MISSED_HEARTBEAT`. Links exist because a company issued a code, a device
spent it on a request, and an auditor accepted the request; the agent revokes
its link through the same queue that holds its reports. An auditor is a device
that asked a company for access and verified the code the company was texted;
his session opens the queries, and several of them make an export.

What is hard in this code:

* the agent dies at any point: between the commit of the backend and the
  rewrite of the file, inside an append, inside a rewrite, inside a save of the
  state, between a call and the save that follows it;
* an answer is lost, times out while it is read, or refuses a request for good;
  the queue must keep the order of capture through all of it;
* reports that waited in the queue arrive late, with the date of their capture,
  and meet events that the backend dated itself;
* the detector runs in a thread (`asyncio.to_thread`) whose transaction overlaps
  with the handlers, at READ COMMITTED;
* with several workers, the read-check-write sequences of the use cases overlap,
  and only row locks and unique indexes stand between them. Most of these locks
  nobody wrote down: every call of an agent updates `last_used_at` of its
  credential before anything else, which locks that row until the commit, so
  the calls of one device follow one another;
* an answer is put together from several queries, an export from several
  requests, while agents report;
* a message is sent, or a token shown, outside of the transaction that records
  it;
* commands of the operator and the running agent share the state file and the
  queue file without a lock.

What makes the components correct. *Queue*: a call that returned normally has
its request at the backend or in the file; first deliveries follow the order of
capture; delivery resumes after every outage. *Control*: what the commands
leave in the state file is consistent and readable, the recording is as it was
last asked for, and the runner keeps reporting and stops when asked. *Monitor*:
an absence is true, recorded once, ended by one recovery, and noticed.
*Registry*: the token shown last counts, a device is registered for good and
described as it last said. *Enrollment*: a code is spent as often as it says, a
device has one link and one waiting request per company, and links are what the
reviews decided. *Access*: requests and attempts are limited, one code opens one
session, a session opens one company for some hours. *Queries*: an answer is
true of the tables it was read from, complete, and of the right company, and the
parts of an export agree.

## 2. Modules

| Module | Shows | Composed with |
|---|---|---|
| `OrderedOutbox` | what the queue promises | abstract specification |
| `AgentQueue` | the queue, write by write | implements `OrderedOutbox` |
| `AgentControl` | state file, commands, runner, and their calls over one queue file | a part of the queue of `AgentQueue`, shared by several processes |
| `HeartbeatMonitor` | reports, detector, recovery | |
| `DeviceRegistry` | tokens, registration, the check of every call | |
| `Enrollment` | codes, requests, links | the lock of `DeviceRegistry` as a guard |
| `AuditorAccess` | one-time codes, sessions | the lock of `DeviceRegistry` as a guard |
| `AuditQueries` | answers to auditors | links and reports of the others as writers |
| `AgentQueueProofs`, `AgentControlProofs`, `EnrollmentProofs`, `HeartbeatMonitorProofs`, `AuditorAccessProofs`, `DeviceRegistryProofs`, `AuditQueriesProofs` | theorems about the module they extend | |
| `MC...` | small sets for TLC | |

Definitions commented "Wrong variant" are used by no action: each is a mistake
that the properties of the runs catch.

### The agent

`OrderedOutbox` is what the agent's queue promises, with no file and no process
in it: capture at the end, first deliveries in order, forgetting only what is
settled, giving up only the newest.

`AgentQueue` is the code. Its steps are cut where the process can die or the
backend can act.

| Model | Code |
|---|---|
| `queue`, `tail` | the JSONL file: its valid lines, and whether it ends with a newline, without one, or inside a record |
| `pc`, `current`, `next`, `backoff` | where `_post_or_queue` and `flush` are, the request in hand, the index of the loop, `_next_flush_at` |
| `ReadAll`, `Repair` | `read_all` with its rewrite of a file with corrupt lines, and the early returns of `flush` |
| `Flush...`, `RewriteRemaining` | the loop of `flush`: 2xx, 422 of a record of an older version, retryable error, other error; `replace_all` |
| `Post...`, `Enqueue`, `Return`, `Raise` | the rest of `_post_or_queue`; an exception ends the process (`cli.main`) |
| `Crash...`, `Restart` | the service unit: `Restart=always` |
| `linked`, `received`, `Refused` | the backend as the client can observe it: 401 for a bad token, 422 without an active link |

`promised`, `received` and `damaged` are history: what a call promised, what
the backend committed since the capture, what a crash cut out of the file. A
request may be captured again after it left the file, so the behaviours are
unbounded although the requests are few; when all of them wait, further calls
go through the same steps with a request that is not represented
(`PostOrQueueBeyondBound`).

`AgentControl` is who decides what is reported. A command of the operator and
the runner are processes; each is the list of what it still has to do, and is
cut at each access to the state file and each call. A save is three steps: the
temporary file is opened (and emptied), written, and renamed over the state
file; a process may be killed between them. The temporary file has one name, so
two terminals may mix. The runner checks the state at its start, reads it again
before every event and once per scan, and collects the identity of the machine
anew; installing its signal handlers may fail (`NotReady`), as it does outside
the main thread. The service manager starts and stops the runner, and restarts
one that failed; a stop of the Windows service before it has made its runner
reaches nobody (`StopIsForgotten`). `Deployments` chooses how many terminals
there are, how many commands they start, whether the agent runs, which link its
environment names, and whether the machine may be renamed.

The commands and the runner share the queue file as well. Where each of them is
in a call is in `calls`:

| Model | Code |
|---|---|
| `revoking`, `tail` | the revocations in the queue file, and whether it ends with a newline; other records are left out, which is why a call may find something to send or a running backoff whatever `revoking` is |
| `ReadQueue` | `flush` reads the file, and `read_all` writes it back if a line is torn; while another process rewrites it, any part of it may be there |
| `SendQueued`, `KeepRest`, `EmptyQueue` | the loop of `flush`, its rewrite after an unanswered request, its removal of the file |
| `Unanswered`, `Returns`, `Raises` | the request itself: not answered and so to be appended, posted or appended, refused |
| `Dropped` | the process is killed inside a rewrite (anything may be left of what it was writing), inside an append (the newline may be missing), or elsewhere |

Between any two of these steps another process may do its own. `exposed` is
history: the revocations that this may cost, which are those appended while a
call of another process was under way, and those a kill, a torn line or a
reading of half a file took out. `UnlinkedIsRevoked` is about all others.

### The backend

`DeviceRegistry` has the rows of devices and of credentials, and one transaction
per worker. `Authenticate` reads the credential, `ReloadCredential` is the
second reading that `save` makes (SQLAlchemy's session holds its objects weakly,
and the repositories return domain objects, so `session.get` in `save` asks the
database again), `UseCredential` is the update, which waits for the lock and
takes it. What is written are the columns in which the object differs from the
second reading. `holder` is the lock. `answered` and `configured` are the token
the administrator was shown and the one the agent has; `rotated`, `described`
and `overtaken` are history. The clock stands still between two steps or moves;
instants of two transactions may be equal.

`HeartbeatMonitor` follows one device and the companies it is linked to.
`outbox` is the agent's queue as the backend sees it: reports arrive late, in
order, possibly twice. `Receive`, `SearchRecovery` and `Commit` are one POST
handler: `observed_at`, the look-up of the newest event, the commit. The
handlers are coroutines with no `await` between their first query and the
commit, so one worker runs them one after the other. A detector of `Endpoints`
is the administrative endpoint, a handler like the others; a detector of
`Schedulers` is the thread of the scheduler and overlaps with everything.
`DetectStarts` takes the device and the links as they are, each `DetectLink`
queries the newest event of one company, `DetectCommits` writes everything.
`deployed` is chosen at the start: the endpoint alone, the thread alone, or
both; `Serial` says that there is no thread. Two readings of a clock give two
instants, and the clocks of agent and backend agree. A link is known by its
company: a report captured under a revoked link is accepted again once the
device is linked anew, which the code refuses, so the model has a few behaviours
more than the program. `heard` is history: what was committed, and when it had
been received.

`Enrollment` has the tables of codes, requests and links, and one transaction
per worker. A transaction begins with its first query and is cut at each query
after it; its writes appear when it commits. `FOR UPDATE` on the row of the
code waits for the transaction that holds it; an insert that violates a unique
index rolls everything back (on PostgreSQL it first waits for the transaction it
conflicts with, so the flush and the commit are one step). Calls of the device
(a request, a revocation) wait for `DeviceIsFree`; reviews, which come with a
session, do not. `deployed` is chosen at the start: properties "with one worker"
are about the behaviours where it has one element. That the reviewer has a
session is left to `AuditorAccess`.

`AuditorAccess` has the access requests, the sessions, the events of the rate
limit and the messages the provider took (`texts`: the provider keeps no track).
Events and messages are rows without an order; equal ones are told apart by a
number (`WithNew`). A request looks up its three limits one after the other, texts the code,
and only then is saved with its event; a rollback after `DeliverOtp` stands for
a lost answer of the provider as well as for a failure of the database. A
verification is right or wrong, early or late; `file` is the session that each
device's command line keeps. Both calls wait for `DeviceIsFree`. Hashes, digits
and telephone numbers are data.

`AuditQueries` has two tables of events, the links and the registry, written by
reports, the detector, registrations and revocations (what those writers check
among themselves is the other modules' matter), and one command of the auditor,
cut at every query: a query sees what was committed before it. `Queries` lists
the queries of a request in the order of the code, `Requests` the requests of a
command. What the answers say (`RelevantDevices`, `Status`, `Movements`) is
computed from what the queries got, so that the properties can compare it with
the tables before and after.

SQLite and the in-memory repositories are not modelled.

## 3. Runs

| Run | Question | Bounds |
|---|---|---|
| `AgentQueue_safety` | With crashes inside writes, lost answers, refusals and token changes: are promises kept, is only a clean file appended to, are first deliveries in order, is everything delivered after the last crash and outage? | two events, one revocation, one record of an older version, backoff of two ticks, all crash points |
| `AgentQueue_refinement` | Is the queue an `OrderedOutbox` as long as no crash cuts a write? | one more kind of request, no torn writes |
| `AgentQueue_poison` | finding 1 | an event and a revocation |
| `AgentControl_commands` | Commands of one or two terminals beside the running agent, killed and failing anywhere: is the file consistent and readable, the switch obeyed, an unlinked company revoked; does the runner keep reporting and stop? | four links of two companies and two names of the machine; one command beside the runner, the runner alone with a link in its environment, two commands without the runner in one terminal or in two; the machine is renamed where at most one process runs; a name without a link at the start gets one only while the machine has it; one connection per scan |
| `HeartbeatMonitor_detectors` | The endpoint alone: are absences real and separate, recoveries paired, and is a device recorded as lost really silent? With the thread: is every final absence noticed? | one company, all kinds of report, two waiting reports, 9 instants; 7 with the thread |
| `HeartbeatMonitor_companies` | finding 2 | two companies, the endpoint |
| `DeviceRegistry_workers` | One and two workers: does the last token count, is the last description kept, is a device registered for good, seen ever later, and registered at last? | one device, two descriptions, two tokens, 3 instants |
| `Enrollment_workers` | Two workers: are uses counted, links and waiting requests unique, and is the index never met? One worker: do reviews and links agree? | two devices, one company, a code of two uses and one of one use |
| `AuditorAccess_workers` | One and two workers: are requests limited, attempts counted, one session opened per code, and only auditors served? | two devices, two companies, a known and an unknown address, each limit 1, two failed attempts, 3 instants; per worker 2 requests, 5 events (3 with two workers) |
| `AuditorAccess_texts` | finding 3 | the same |
| `AuditQueries_export` | Whatever is committed between its queries: is the window complete, true and of the company, are the movements the newest, do the parts of an export agree? | two devices, two companies, a range of two instants out of four, two events, one registration, link or revocation, limit 1 |
| `AuditQueries_missed` | finding 4 | the same |

Every passing run also checks the type invariant of its module, but those of
`AgentQueue` and `Enrollment`: there the type invariant and the inductive
invariant `IInv` are proved, for every value of the constants, and TLC is kept
for the properties that follow from them.

Why the bounds are enough. *Queue*: three or four different requests make a
file with a delivered prefix, a failed record, a record behind it and a request
in hand, which is every position the loop and the rewrite distinguish; the
proofs below cover every number of them. *Control*: a stale save needs the
reading of one command, the save of another and nothing else, and each command
is one to ten steps; two calls that read the same revocation, and one that
appends it meanwhile, are a command beside the runner; a link that is revoked and created again is the second
link of a pair, and the renamed machine the one that none of the links is of.
*Monitor*: an absence needs the timeout and two instants, so 7 to 9 instants
have room for two absences with a recovery between them, and two waiting reports
for one that overtakes nothing but arrives after an event dated later. Companies
share only `last_seen_at` and the run of the detector; two show what they can do
to each other. *Registry*: devices share no row; a lost update needs two
transactions and two descriptions, a rotation the second token. *Enrollment*:
the three uses bound the requests, so `MaxRequests` is never reached; two
transactions are what a lost update or a check-then-insert race needs. Other
companies share no row with the one modelled. *Access*: with every limit 1, the
second of two requests meets any one of the three, the one of another device of
the company, of the device at another company, or of the address; three instants
are before, at and after the end of a window, a code and a session. *Queries*:
an inconsistency needs an event before the first query that sees it and one that
commits after; limit 1 makes a page that leaves something out.

Runs without deadlock check: with every code used up or expired, no link left,
the clock at its end or no command left, nothing more can happen.

Fairness. `AgentQueue`: the runner calls again at every heartbeat and scan, a
call that runs goes on, time passes, and the service manager restarts a dead
agent. `EventuallyDelivered` assumes, beyond that, that from some point on
nobody kills the process, the backend is reachable and it refuses no record of
the file (`Calm`). `AgentControl`: every call has a timeout, so the runner goes
on; a failed one is started again; and a heartbeat that is due again and again
is sent, because the loop looks at it before the scan (strong fairness).
`KeepsReporting` assumes that from some point on nothing kills the runner, its
signal handlers can be installed, no call of it is refused, and the file names a
company of this machine. `HeartbeatMonitor`: a handler that
began ends, the clock runs, and the loop of the scheduler starts the detector
again; its runs must not fail for ever. `DeviceRegistry`: a transaction goes on
or fails, and the agent registers at each start and from its queue whenever it
can (strong fairness, because other calls of the device may come first);
`EventuallyRegistered` assumes that the token stays right and transactions do
not fail for ever. Nothing is assumed about the delivery of reports.

## 4. Proofs

`AgentQueueProofs` holds the theorems about `AgentQueue`, for every set of
requests and every backoff. They use the assumptions named in the module: the
backoff is at least one tick (the constructor forces it), records of older
versions are no others, and `None` is no request.

All rest on one inductive invariant, `IInv`. `KeptPromise` alone is not
inductive: a rewrite of the file keeps it only if what the flush disposed of
was committed. `QueueInv` says so: what the backend has of the file is a
prefix of it, the running flush has disposed of a part of that prefix, and no
record is in the file twice. `HandInv` says that the request in hand is new,
and that nothing is in the file when it is posted. `TailInv` says that a file
that does not end cleanly is never appended to, because such a file exists only
after a crash, when the backoff is zero: the next call then rewrites it or
empties it before it appends. `InitIInv`, `CallIInv`, `StepIInv` and
`EnvironmentIInv` prove it, one step per action.

| Theorem | Statement |
|---|---|
| `QueueInvariance` | `Spec => []IInv` |
| `TypeCorrect` | the type invariant |
| `PromisesKept`, `CleanAppends` | the invariants of `AgentQueue_safety` |
| `DeliveryInOrder` | the action property `FirstDeliveryInOrder` |
| `QueueIsOutbox` | `~TornWrites => (Spec => OutboxSpec)`: every step delivers, forgets settled requests, captures, gives up the newest, or stutters |

`EnrollmentProofs` holds the theorems about `Enrollment`, for any workers,
devices, companies and codes; they use that every code belongs to a company and
has at least one use, and that `None` is no worker. The inductive invariant is
again called `IInv`. `UsesAreCounted` needs `LockInv`: a transaction between
`find_by_code_digest` and its commit holds the row of its code, and what it read
of the row is still true, so the count it writes is one more than the committed
one. Two such transactions cannot have the same code, because the second one
waits for a row that is free. `OneActiveLink` and `OnePendingRequest` need only
that an insert checks the unique index when it commits, and that no other write
makes a row active or pending again. `EndKeepsLocks` and `QueryIInv` are the two
lemmas that every action uses: what a commit frees, and what a query may change.

| Theorem | Statement |
|---|---|
| `EnrollmentInvariance` | `Spec => []IInv` |
| `TypeCorrect`, `PendingIsUnique` | the type invariant; one waiting request of a device at a company |
| `CodesAreCounted`, `LinksAreUnique` | the invariants of `Enrollment_workers` that hold for any number of workers |
| `IndexIsNeverMet` | no call that inserts a request finds one waiting |

`IndexIsNeverMet` says more than uniqueness, which the index would keep anyway:
the look-up before the insert is enough. Relative to `IInv`, `DevicesApart` and
the property itself are inductive. A call that begins finds no other call of its
device (`DeviceIsFree`); an insert is of the device of its own call, so it makes
no request waiting for a device that another call has looked up.

`SerialInv` is the case of one worker, again relative to `IInv`: only one
transaction is open, so what it read is still true when it commits, and the
links are exactly those of the accepted requests. `AcceptanceCorrect` and
`WaitingCorrect` follow.

| Theorem | Statement |
|---|---|
| `AcceptanceCorrect` | one worker: a request is accepted if and only if a link was created for it |
| `WaitingCorrect` | one worker: no linked device has a request waiting at that company |

`AuditorAccessProofs`: any workers, devices, companies, addresses and limits. A
verification reads its request without a lock and writes it back as it was read.
What makes that sound is the credential: the calls of one device follow one
another (`CallsApart`), and a request is verified by its own device only, so the
row that was read is the committed one (`RowsAreTrue`). Sessions then come from
a request that waits, which their transaction decides.

| Theorem | Statement |
|---|---|
| `AccessInvariance` | `Spec => []IInv` |
| `TypeCorrect` | the type invariant, with no more failed attempts than the limit |
| `AttemptsCorrect` | no failed attempt is lost, and the last one denies |
| `SessionsCorrect` | one session for each verified code, none for another |
| `AuditorsCorrect` | only the device that verified a code of the company is served |
| `LimitsCorrect` | no window has more requests of a device than its limit, nor of a company or an address than one more for each further worker |

`LimitsCorrect` has an invariant of its own, relative to `IInv`. A limit is
looked up before the request is saved, so the saved requests alone say nothing
about the next state. `LimitInv` counts with them the calls that are past the
limit and have not saved yet (`Opening`): at most one of a device, by
`CallsApart`, and at most one of each deployed worker. A look-up adds a call only
if fewer requests than the limit are saved (`LookUpKeepsLimits`; it counts at
least what any window has that the call will be in, `LookUpCounts`), and a save
replaces the call by its request (`SaveKeepsLimits`).

`DeviceRegistryProofs`: any workers, devices and descriptions. The update of the
credential takes a lock that its transaction holds to the end, so nobody is
between the reading and the writing of the row of the device (`LocksAreHeld`),
and what a call has read of it is what is there when it writes (`CallsAreTrue`).
The credential itself is read before that lock, and that is the case `overtaken`
records: a token may be written back only for a device in it, and with one
worker nothing gets into it.

| Theorem | Statement |
|---|---|
| `RegistryInvariance` | `Spec => []IInv` |
| `TypeCorrect` | the type invariant, and who may hold a lock |
| `RotationCorrect`, `DescriptionCorrect` | the safety invariants of `DeviceRegistry_workers` |
| `RegistryGrowsCorrect` | the action property `RegistryGrows` |

`HeartbeatMonitorProofs`: any companies, detectors, timeout and deployment. The
types hold of every deployment. What the events mean is proved, as it is stated,
of the deployments without a scheduler thread: a handler and a detector never
overlap (`OneRuns`), so what each has looked up is still so at its commit
(`HandlerInv`, `RunInv`). The rest is about instants: nothing is dated after the
last reading of the clock, a report is dated before its reception (`Dates`), and
no other event shares the instant of an absence (`NoTies`), which is why "the
newest event" is well defined where the code looks at it. `Facts` are the
properties themselves, inductive with all that.

| Theorem | Statement |
|---|---|
| `MonitorInvariance` | `Spec => []IInv` |
| `TypeCorrect` | the type invariant, in every deployment |
| `AbsenceCorrect`, `SeparateCorrect`, `RecoveryCorrect`, `SilenceCorrect` | the safety invariants of `HeartbeatMonitor_detectors` |

`AuditQueriesProofs`: any companies, devices, filters, ranges and limits; the
companies are finitely many, and `Never` is no instant. The queries of a
request see different tables. Their answers agree because the tables only grow:
no event is removed, no pair loses its link, no registration is withdrawn. So
each answer stays true (`AnswersAreTrue`), has what was there when the request
was accepted (`AnswersAreComplete`), and the later of two answers has what the
earlier one showed (`LaterKnowsMore`), which needs the order of the queries:
lists before movements before the incident window, and in each the searches
first (`ProgressInv`, `TodoSteps`). `ResultIsRight` is the lemma about a
query, `MergedPage` the one about cutting two lists before they are merged.

| Theorem | Statement |
|---|---|
| `QueriesInvariance` | `Spec => []IInv` |
| `TypeCorrect` | the type invariant, and that searches return committed events |
| `WindowCorrect`, `NothingHidden`, `StatusCorrect` | the invariants of the incident window |
| `MovementsCorrect`, `ExportCorrect` | those of the movements and of the export |

`AgentControlProofs`: any links, deployments and scans; the links are finitely
many, the ones of the start are the first of their pair (the backend refuses an
enrollment of a linked device), and neither `None` nor `Unreadable` is a state.
Commands take no lock, so nothing that one has read can be assumed to be still
in the file. The invariant speaks of the command instead:

* Every state is `Sound`, in the file, in the temporary file and in the hand of
  a command. It was read as one and each operation keeps it (`ReplacedState` to
  `TakenState`), so overwriting another command's state cannot break it. This is
  all that `StateIsConsistent` needs, and why it holds with several terminals.
* What a command still has to do is the rest of a save (`Saves`) followed by the
  rest of its program (`Plans`), and says what it has done (`Fits`): it has read
  the file (`IsLoaded`), it has a link of its device (`HasLink`), the revocation
  of that link was taken (`IsRevoked`). `PlanSteps` goes through the plans once;
  the lemmas of the steps need no other fact about them.
* With one terminal, the temporary file and the switch follow from the plan too
  (`AloneInv`): a save that is renamed has written its own state, and the switch
  is in the state of the command once it no longer has to be set.
* Links change one way, from absent to active to revoked, and a link is accepted
  when the earlier ones of its pair are revoked. `BackendMoves` is what a step
  may do to them; `MovesKeep` says that nothing known of a command is lost by it.
* What a call has read of the queue and not sent yet is what waits in the file,
  but for revocations that are done or exposed (`Agrees`). So its rewrite keeps
  what it did not send, and its removal of the file takes only what was sent, by
  it or by another call: `ReadMoves`, `FlushMoves`, `WrittenMoves` and `EndMoves`
  prove it. An append of one call breaks this for the others that have read
  already, and `alone` tells: no other call was under way since this one began.

An unlink removes every link of a company from the file although it revokes only
the newest. The older ones were replaced and are revoked already
(`RemovedIsSettled`); without that order of the links in `BackendInv`,
`UnlinkedIsRevoked` is not inductive.

| Theorem | Statement |
|---|---|
| `ControlInvariance` | `Spec => []IInv` |
| `TypeCorrect` | the type invariant |
| `ConsistentCorrect`, `ReportsCorrect`, `RevocationCorrect` | the safety invariants for any number of terminals |
| `ReadableCorrect`, `SwitchCorrect` | those for one terminal |

Only model-checked. Liveness (`EventuallyDelivered`, `AbsenceNoticed`,
`KeepsReporting`, `StopIsHonoured`, `EventuallyRegistered`) is out of the
prover's reach. Every other property of a passing run is also a theorem.

## 5. Findings

1. A record that the backend refuses for good stays at the head of the file, and
   every call fails on it (`local_queue.py:249`). An event and the revocation of
   its link are both delivered, the process dies before the file is unlinked,
   and after the restart the event gets 422 for ever.
2. A device linked to two companies that comes back recovers for the company
   of its report only; for the other it stays missing, and later absences are
   taken for explained.
3. The code is texted inside the transaction that records the request. When the
   provider took the message and its answer is lost, the event that the rate
   limit counts is rolled back, so a company may be texted without a limit.
4. An incident window takes the `AGENT_MISSED_HEARTBEAT` that the backend writes
   about a silent device for a report of it, and lists the device as active; what
   makes it active should be an event it generated
   (`docs/beta-local-historial-forense.md:127`).

Met while modelling and not checked by a run:

* Queue. A timeout while the answer is awaited or read is no `URLError`: it is
  not retryable, ends the process and loses the request in hand
  (`transport.py:204`). A rewrite of the file that is cut loses valid records
  (`local_queue.py:95` truncates in place; `damaged` counts them). A scan that
  goes on with the context it read at its start queues events behind the
  revocation of their link, which is finding 1 without a crash.
* Commands. Two terminals that save at once share `agent-state.json.tmp` and may
  leave a state file that is no JSON (`state.py:209`). With the recording
  switched off and no company selected, an agent with a link in its environment
  still records (`runner.py:269-275`). After an `unlink` while the backend is
  away, `companies` lists the link as active again until the queue is delivered.
* Two processes over the queue. A call of the runner that read the file before
  `unlink` appended its revocation ends by removing the file, or by rewriting it
  without that record (`local_queue.py:228-257`); a kill inside the truncating
  rewrite (`local_queue.py:95`) loses what waits, and so does a call that reads
  the file at that moment. The command said "desvinculada", the state file has no
  link, and the backend keeps it active. TLC finds such losses when `exposed`
  is left out of `UnlinkedIsRevoked`.
* Windows service. A stop that comes after the service began and before
  `windows_service.py:58` has assigned the runner is reported as pending and
  forgotten; `run_forever` then runs on. `signal` raises `ValueError` outside the
  main thread (`runner.py:288-293`), and the service fails with it after its
  bootstrap.
* Monitor. A clean stop that was queued during an absence becomes the newest
  event without a recovery; the scheduler thread may look up the newest event
  while a clean stop is being committed, and record the stopped device as
  missing, or one absence twice; a recovery dated by the backend hides a stop
  that waits in the queue behind the report that caused it; an agent whose clock
  is ahead gets one absence per run of the detector.
* Registry. With several workers, a rotation that commits while a call of the
  device is being checked is undone by that call: the old token is written back,
  and the one just shown never works (`authenticate_agent.py:25-34`).
* Enrollment. Two overlapping reviews of one request both find it pending; it
  may end `DENIED` with an active link. A request with a code of one use that is
  sent again after a lost answer gets 422, because the code is checked before
  the waiting request is looked up (`request_device_enrollment.py:40`).
* Access. That a code opens one session rests on the lock of the credential
  alone: `verify_auditor_access.py` reads its row without one, and without the
  update of `last_used_at` two overlapping verifications would open two.

## 6. Not modelled

Collectors, device identity, settings and health: they keep no protocol state.
Creating a company, its summary and the lists only insert or read rows. The
commands of the auditor's command line that forward one call (codes, reviews,
summary, companies) add no step to the ones of the backend. Migrations are data
definition. Formatting, validation of fields, hashing and public addresses are
data. Two clocks that disagree, two processes over the queue file for records
other than revocations (`AgentQueue` has one process at a time; in
`AgentControl` a torn line is made by a kill only, not seen while an append is
under way), an answer
sent before its commit (`dependencies.py:21`, with FastAPI 0.118 or later), and
SQLite's own locking are not represented; the hazards say so.

## 7. Plan

1. Done: `AgentQueue`, `OrderedOutbox`, `AgentQueueProofs`; `Enrollment`,
   `EnrollmentProofs`; `HeartbeatMonitor`; `AuditorAccess`; `AuditQueries`;
   `AgentControl`; `DeviceRegistry`.
2. Proved: the safety properties and the action properties of every module, and
   that `AgentQueue` implements `OrderedOutbox`.
3. Left to model: the queue with the enrollment and the links of the backend
   (what a company finally sees of a device), and the order in which the backend
   gets the records of two processes that share the queue file.
