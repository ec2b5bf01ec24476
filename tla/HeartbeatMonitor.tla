--------------------------- MODULE HeartbeatMonitor ---------------------------
(***************************************************************************)
(* How the backend decides that a device stopped reporting and that it came *)
(* back: the ingestion of the agent's reports (backend/app/audit/           *)
(* presentation/router.py, record_agent_activity.py), the detector of missed *)
(* heartbeats (detect_missed_heartbeats.py) and who runs it: the scheduler   *)
(* thread (heartbeat_scheduler.py) or the administrative endpoint.           *)
(*                                                                         *)
(* One device, reporting to several companies.  The handlers of the API are  *)
(* coroutines that never await between opening and committing their          *)
(* transaction, so with one worker they run one after the other; the         *)
(* scheduler runs the detector in a thread of its own, so its transaction    *)
(* overlaps with theirs at READ COMMITTED.  The clocks of the agent and of    *)
(* the backend agree, and two readings never give the same instant.          *)
(***************************************************************************)
EXTENDS Naturals, Sequences

CONSTANTS
  Companies,   \* the companies the device may be linked to
  None,        \* no company: the report is a registration of the device
  Kinds,       \* the reports this agent sends
  Schedulers,  \* detectors running in a thread, one per worker
  Endpoints,   \* detectors running as a handler of the API
  Deployments, \* the sets of detectors of a deployment: one is chosen at the start
  Timeout,     \* agent_heartbeat_timeout_seconds, in instants
  ReportsEnd,  \* bound, by deployment: reports and link changes happen before this instant
  MaxTime,     \* bound, by deployment: the clock stops here
  MaxPending   \* bound: reports captured and not yet delivered

\* "up" stands for AGENT_STARTED, AGENT_HEARTBEAT and AGENT_CONFIG_CHANGED,
\* "stop" for AGENT_STOPPING and AGENT_STOPPED, "net" for a network event.
AllKinds == {"up", "stop", "net", "register"}

Detectors == Schedulers \union Endpoints

\* The detector raises the timeout to at least one second.
ASSUME TimeoutAssumption == Timeout \in Nat \ {0}
ASSUME BoundsAssumption ==
  /\ MaxPending \in Nat
  /\ {ReportsEnd, MaxTime} \subseteq [Deployments -> Nat]
  /\ \A D \in Deployments : ReportsEnd[D] < MaxTime[D]
ASSUME NamesAssumption ==
  /\ None \notin Companies
  /\ Kinds \subseteq AllKinds
  /\ Schedulers \intersect Endpoints = {}
  /\ Deployments \subseteq SUBSET Detectors

VARIABLES
  deployed,   \* the detectors of this deployment
  now,        \* the clock of the backend
  lastSeen,   \* devices.last_seen_at
  links,      \* the companies with an active link to the device
  rows,       \* the committed lifecycle events of the device, by company
  outbox,     \* reports captured by the agent and not confirmed, oldest first
  handler,    \* the API handler that is running
  detector,   \* the transaction of each detector
  heard       \* history: the reports committed, with the instant of reception

tableVars == <<lastSeen, rows, heard>>
vars == <<deployed, now, lastSeen, links, rows, outbox, handler, detector, heard>>

\* Without the scheduler nothing runs at the same time as a handler.
Serial == deployed \intersect Schedulers = {}

Row == [type : {"up", "stop", "missed", "recovered"}, at : Nat, seen : Nat]
Report == [kind : AllKinds, company : Companies \union {None}, at : Nat]

\* The next reading of a clock.
Later == IF now < MaxTime[deployed] THEN now + 1 ELSE now

\* search(..., limit=1): the newest event of the company; nothing decides
\* between two of the same instant.
Latest(c) == {r \in rows[c] : \A s \in rows[c] : s.at <= r.at}

-----------------------------------------------------------------------------
(* The agent, and the links.                                                 *)

\* The agent captures a report and dates it with its own clock.
Capture ==
  /\ now < ReportsEnd[deployed] /\ Len(outbox) < MaxPending
  /\ now' = Later
  /\ \E kind \in Kinds, c \in Companies \union {None} :
       /\ c = None <=> kind = "register"
       /\ outbox' = Append(outbox, [kind |-> kind, company |-> c, at |-> now'])
  /\ UNCHANGED <<deployed, links, tableVars, handler, detector>>

Idle == [phase |-> "idle", at |-> 0, staged |-> {}]

\* The event loop runs one handler at a time, from its first read to its commit.
EventLoopFree ==
  /\ handler = Idle
  /\ \A d \in Endpoints : detector[d].phase = "idle"

\* A review accepts the device, or a company revokes it: these are handlers.
LinkChanges ==
  /\ now < ReportsEnd[deployed]
  /\ EventLoopFree
  /\ now' = Later
  /\ \E c \in Companies :
       links' = IF c \in links THEN links \ {c} ELSE links \union {c}
  /\ UNCHANGED <<deployed, outbox, tableVars, handler, detector>>

TimePasses ==
  /\ now < MaxTime[deployed]
  /\ now' = Later
  /\ UNCHANGED <<deployed, links, outbox, tableVars, handler, detector>>

-----------------------------------------------------------------------------
(* The handlers of POST /devices, /audit/network-events and                  *)
(* /audit/lifecycle-events.                                                  *)

\* Wrong variant (no action uses it): network events are no sign of life.
DetectsRecoveryWithoutNetwork(kind) == kind = "up"

DetectsRecovery(kind) == kind \in {"up", "net"}

\* 422: the link is not active.  The agent gives the report up, or keeps it in
\* its queue for ever: then this step is never taken.
Refuse ==
  /\ outbox # <<>> /\ EventLoopFree
  /\ Head(outbox).company \notin links \union {None}
  /\ outbox' = Tail(outbox)
  /\ UNCHANGED <<deployed, now, links, tableVars, handler, detector>>

\* The link is active: observed_at is read before the newest event is looked up.
Receive ==
  /\ outbox # <<>> /\ EventLoopFree
  /\ Head(outbox).company \in links \union {None}
  /\ now < ReportsEnd[deployed]
  /\ now' = Later
  /\ handler' = [phase |-> IF DetectsRecovery(Head(outbox).kind) THEN "search" ELSE "commit",
                 at |-> now', staged |-> {}]
  /\ UNCHANGED <<deployed, links, outbox, tableVars, detector>>

RecoveredEvent(missed, at) == [type |-> "recovered", at |-> at, seen |-> missed.seen]

\* Wrong variant: an event that is already a recovery is recovered again.
NeedsRecoveryAlways(r) == TRUE

NeedsRecovery(r) == r.type = "missed"

\* _record_recovery_if_needed
SearchRecovery ==
  /\ handler.phase = "search"
  /\ \/ \E r \in Latest(Head(outbox).company) :
          handler' = [handler EXCEPT !.phase = "commit",
                        !.staged = IF NeedsRecovery(r) THEN {RecoveredEvent(r, handler.at)} ELSE {}]
     \/ /\ Latest(Head(outbox).company) = {}
        /\ handler' = [handler EXCEPT !.phase = "commit"]
  /\ UNCHANGED <<deployed, now, links, outbox, tableVars, detector>>

\* Only lifecycle reports leave a lifecycle event, dated by the agent.
IngestedEvents(report) ==
  IF report.kind \in {"up", "stop"}
    THEN {[type |-> report.kind, at |-> report.at, seen |-> 0]}
    ELSE {}

\* Wrong variant: a report is taken as seen when it was captured.
SeenWhenCaptured(report, observed) == report.at

\* mark_seen: the backend uses its own time of reception.
SeenAt(report, observed) == observed

\* The transaction commits; the answer may get lost, and then the agent sends
\* the report again.
Commit ==
  /\ handler.phase = "commit"
  /\ LET report == Head(outbox)
         added == handler.staged \union IngestedEvents(report)
     IN /\ lastSeen' = SeenAt(report, handler.at)
        /\ rows' = [c \in Companies |->
                      IF c = report.company THEN rows[c] \union added ELSE rows[c]]
        /\ heard' = heard \union {[report EXCEPT !.at = handler.at]}
  /\ handler' = Idle
  /\ outbox' \in {outbox, Tail(outbox)}
  /\ UNCHANGED <<deployed, now, links, detector>>

-----------------------------------------------------------------------------
(* DetectMissedHeartbeatsUseCase.execute, in a transaction of its own.       *)

NotRunning == [phase |-> "idle", at |-> 0, seen |-> 0, todo |-> {}, found |-> {}]

\* Wrong variant: the comparison is reversed.
StaleReversed(seen, at) == seen + Timeout > at

\* _should_mark_missed
Stale(seen, at) == seen + Timeout < at

\* detected_at, and the devices and active links the run works with.
DetectStarts(d) ==
  /\ d \in deployed /\ detector[d] = NotRunning
  /\ d \in Endpoints => EventLoopFree
  /\ now' = Later
  /\ detector' = [detector EXCEPT ![d] =
       [phase |-> "run", at |-> now', seen |-> lastSeen, found |-> {},
        todo |-> IF Stale(lastSeen, now') THEN links ELSE {}]]
  /\ UNCHANGED <<deployed, links, outbox, tableVars, handler>>

\* Wrong variant: an absence that is already recorded is not taken into account.
ExplainedByStop(r) == r.type = "stop"

\* _EVENT_TYPES_THAT_ALREADY_EXPLAIN_ABSENCE
ExplainsAbsence(r) == r.type \in {"missed", "stop"}

MissedEvent(d) == [type |-> "missed", at |-> detector[d].at, seen |-> detector[d].seen]

\* One link of the run: the newest event of its company is looked up, and the
\* new event waits in the transaction.
DetectLink(d, c) ==
  /\ detector[d].phase = "run" /\ c \in detector[d].todo
  /\ \/ /\ \E r \in Latest(c) : ExplainsAbsence(r)
        /\ detector' = [detector EXCEPT ![d].todo = @ \ {c}]
     \/ /\ Latest(c) = {} \/ \E r \in Latest(c) : ~ExplainsAbsence(r)
        /\ detector' = [detector EXCEPT ![d].todo = @ \ {c}, ![d].found = @ \union {c}]
  /\ UNCHANGED <<deployed, now, links, outbox, tableVars, handler>>

\* Wrong variant: the run starts again from what it found before.
RunEndedKeepsFound(d) == [detector EXCEPT ![d].phase = "idle"]

RunEnded(d) == [detector EXCEPT ![d] = NotRunning]

DetectCommits(d) ==
  /\ detector[d].phase = "run" /\ detector[d].todo = {}
  /\ rows' = [c \in Companies |->
                IF c \in detector[d].found THEN rows[c] \union {MissedEvent(d)} ELSE rows[c]]
  /\ detector' = RunEnded(d)
  /\ UNCHANGED <<deployed, now, lastSeen, links, outbox, handler, heard>>

\* The database fails: the run is rolled back and the loop goes on.  A run
\* that has looked everything up and found nothing has nothing to lose.
DetectFails(d) ==
  /\ detector[d].phase = "run"
  /\ detector[d].todo \union detector[d].found # {}
  /\ detector' = RunEnded(d)
  /\ UNCHANGED <<deployed, now, links, outbox, tableVars, handler>>

-----------------------------------------------------------------------------
Init ==
  /\ deployed \in Deployments
  /\ now = 1
  /\ lastSeen = 1
  /\ links = Companies
  /\ rows = [c \in Companies |-> {}]
  /\ outbox = <<>>
  /\ handler = Idle
  /\ detector = [d \in Detectors |-> NotRunning]
  /\ heard = {}

Handle == Refuse \/ Receive \/ SearchRecovery \/ Commit

Detect(d) ==
  DetectStarts(d) \/ (\E c \in Companies : DetectLink(d, c)) \/ DetectCommits(d)

Next ==
  \/ Capture \/ LinkChanges \/ TimePasses
  \/ Handle
  \/ \E d \in Detectors : Detect(d) \/ DetectFails(d)

Spec == Init /\ [][Next]_vars

\* A handler that started ends, the clock runs, and the scheduler loop starts
\* the detector again after every interval.
Fairness ==
  /\ WF_vars(SearchRecovery \/ Commit)
  /\ WF_vars(TimePasses)
  /\ \A d \in Schedulers : WF_vars(Detect(d))

FairSpec == Spec /\ Fairness

-----------------------------------------------------------------------------
(* Properties.                                                               *)

\* The values of the tables, and a detector that is not running keeps nothing.
TypeOK ==
  /\ deployed \in Deployments
  /\ now \in 1 .. MaxTime[deployed]
  /\ lastSeen \in 1 .. now
  /\ links \subseteq Companies
  /\ rows \in [Companies -> SUBSET Row]
  /\ outbox \in Seq(Report)
  /\ handler.phase \in {"idle", "search", "commit"}
  /\ handler.at \in 0 .. now
  /\ handler.staged \subseteq Row
  /\ handler # Idle => outbox # <<>>
  /\ \A d \in Detectors :
       /\ detector[d].phase \in {"idle", "run"}
       /\ {detector[d].at, detector[d].seen} \subseteq 0 .. now
       /\ detector[d].todo \union detector[d].found \subseteq Companies
       /\ detector[d].phase = "idle" => detector[d] = NotRunning
  /\ heard \subseteq Report

\* The reports that must end an absence (backend/docs/backend.md:422).
ShowsAlive(report) == report.kind \in {"up", "net"}

OfType(c, type) == {r \in rows[c] : r.type = type}

\* An AGENT_MISSED_HEARTBEAT tells the truth: the backend received nothing from
\* the device between its last_seen_at and its detected_at
\* (detect_missed_heartbeats.py:88-106).
AbsenceIsReal ==
  Serial => \A c \in Companies : \A m \in OfType(c, "missed") :
    /\ m.seen + Timeout < m.at
    /\ \A h \in heard : ~(m.seen < h.at /\ h.at <= m.at)

\* One absence is recorded once: between two AGENT_MISSED_HEARTBEAT of a
\* company the device reported (backend/docs/backend.md:420).
AbsencesAreSeparate ==
  Serial => \A c \in Companies : \A m, n \in OfType(c, "missed") :
    m.at < n.at => m.at < n.seen

\* An AGENT_RECOVERED ends one recorded absence: it comes after one, with the
\* same last_seen_at, and no other recovery lies between them
\* (record_agent_activity.py:65-70).
RecoveryIsPaired ==
  Serial => \A c \in Companies : \A r \in OfType(c, "recovered") :
    \E m \in OfType(c, "missed") :
      /\ m.at < r.at /\ m.seen = r.seen
      /\ \A s \in OfType(c, "recovered") : ~(m.at < s.at /\ s.at < r.at)

\* While the newest event of a company says that the device is missing, no
\* report to that company has shown it alive since.
LostMeansSilent ==
  Serial => \A c \in Companies : \A m \in Latest(c) : m.type = "missed" =>
    \A h \in heard : h.company = c /\ ShowsAlive(h) => h.at < m.at

\* Once the device is silent for good, every company it is linked to is told
\* that it stopped or is missing, by a scheduler that overlaps with anything.
AbsenceNoticed ==
  ~Serial /\ (\A d \in Detectors : <>[][~DetectFails(d)]_vars)
    => <>[](\A c \in links : Latest(c) # {} /\ \A r \in Latest(c) : ExplainsAbsence(r))

-----------------------------------------------------------------------------
(* What the documentation says and the code does not do.                     *)

\* "Cuando un agente vuelve a reportar despues de estar marcado como perdido,
\* el backend registra AGENT_RECOVERED y actualiza last_seen_at"
\* (README.md:134): no company keeps an absence as its newest event once a
\* report of the device has updated last_seen_at.
ReportEndsEveryAbsence ==
  \A c \in links : \A m \in Latest(c) : m.type = "missed" =>
    \A h \in heard : ShowsAlive(h) => h.at < m.at
=============================================================================
