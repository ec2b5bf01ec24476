------------------------------ MODULE AuditQueries ------------------------------
(***************************************************************************)
(* What an auditor is told: the history commands and export-json of the        *)
(* auditor's command line (auditor/app/cli.py, export.py), the requests they   *)
(* make, and the queries with which the backend answers each of them           *)
(* (audit/presentation/router.py, query_incident_window.py,                   *)
(* query_device_movements.py, sqlalchemy_event_repository.py).                 *)
(*                                                                         *)
(* A request runs in one transaction, but at READ COMMITTED each of its        *)
(* queries sees what was committed before that query: agents report to other   *)
(* workers, and the detector of missed heartbeats commits, in between.         *)
(*                                                                         *)
(* An event is its table, company, device, type and instant.  Instants are     *)
(* fine enough to tell two events of a device and a type apart, so that a      *)
(* table is a set of rows.                                                    *)
(***************************************************************************)
EXTENDS Integers, Sequences, FiniteSets, Functions

CONSTANTS
  Devices, Companies,
  Own,          \* the company of the auditor's session
  AnyDevice,    \* a command without --device-id
  Never,        \* not registered
  Timeout,      \* agent_heartbeat_timeout_seconds
  SessionEnd,   \* expires_at of the session
  Commands,     \* the commands the auditor gives
  Filters,      \* its --device-id, or AnyDevice
  Windows,      \* the ranges <<from, to>> it asks for
  Limits,       \* the numbers of events it asks for
  AtStart,      \* devices registered when the clock starts
  LinkedAtStart,  \* the pairs <<company, device>> that are linked then
  MaxChanges,   \* bound: registrations, new links and revocations after that
  MaxRows,      \* bound: events in the two tables
  MaxTime       \* bound: the clock stops here

AllCommands == {"network", "lifecycle", "movements", "incident-window", "export-json"}

ASSUME NamesAssumption == 
  /\ Own \in Companies /\ IsFiniteSet(Companies) /\ AnyDevice \notin Devices
  /\ Commands \subseteq AllCommands /\ Filters \subseteq Devices \union {AnyDevice}
ASSUME TimesAssumption ==
  /\ Timeout \in Nat \ {0} /\ {SessionEnd, MaxTime, MaxRows, MaxChanges} \subseteq Nat
  /\ Never \notin 0 .. MaxTime
ASSUME StartAssumption == AtStart \subseteq Devices /\ LinkedAtStart \subseteq Companies \X AtStart
ASSUME WindowsAssumption ==
  /\ Windows \subseteq Nat \X Nat /\ Limits \subseteq Nat \ {0}
  /\ \A w \in Windows : w[1] <= w[2]  \* "from no puede ser mayor que to"

VARIABLES
  now,         \* the clock
  registered,  \* devices.registered_at
  seen,        \* devices.last_seen_at
  links,       \* company_device_links: the status of each pair
  events,      \* the committed rows of the two event tables
  command,     \* the command of the auditor that runs
  changes      \* bound: how often the registry changed

registry == <<registered, seen, links, changes>>
vars == <<now, registry, events, command>>

Idle == [todo |-> <<>>]
Running == command # Idle

\* A request was accepted and is being answered.
Answering == Running /\ command.todo # <<>> /\ command.query > 0

TimePasses ==
  /\ now < MaxTime
  /\ now' = now + 1
  /\ UNCHANGED <<registry, events, command>>

-----------------------------------------------------------------------------
(* The writers.                                                              *)

Changes == changes < MaxChanges /\ changes' = changes + 1

RegisterDevice(d) ==
  /\ Changes
  /\ registered' = [registered EXCEPT ![d] = IF @ = Never THEN now ELSE @]
  /\ seen' = [seen EXCEPT ![d] = now]
  /\ UNCHANGED <<now, links, events, command>>

\* A reviewed enrollment, and a revocation (Enrollment).
Link(c, d) ==
  /\ registered[d] # Never /\ links[<<c, d>>] # "ACTIVE" /\ Changes
  /\ links' = [links EXCEPT ![<<c, d>>] = "ACTIVE"]
  /\ UNCHANGED <<now, registered, seen, events, command>>

Revoke(c, d) ==
  /\ links[<<c, d>>] = "ACTIVE" /\ Changes
  /\ links' = [links EXCEPT ![<<c, d>>] = "REVOKED_BY_DEVICE"]
  /\ UNCHANGED <<now, registered, seen, events, command>>

Row(table, c, d, type, at) == [table |-> table, company |-> c, device |-> d, type |-> type, at |-> at]

RowsFit(new) == Cardinality(events \union new) <= MaxRows

\* The newest lifecycle event says the device was missed: it is back.
Recovery(c, d) ==
  LET known == {e \in events : e.table = "lifecycle" /\ e.company = c /\ e.device = d}
  IN {Row("lifecycle", c, d, "AGENT_RECOVERED", now) :
        e \in {x \in known : x.type = "AGENT_MISSED_HEARTBEAT" /\ \A y \in known : y.at <= x.at}}

\* Wrong variant: an agent reports to any company it names.
MayReportAnywhere(c, d) == registered[d] # Never

\* ResolveAuditCompanyContextUseCase.
MayReport(c, d) == links[<<c, d>>] = "ACTIVE"

\* An event the agent captured before, and perhaps queued: it reaches the
\* backend now.
Ingest(table, c, d, at) ==
  LET new == {Row(table, c, d, "REPORT", at)} \union Recovery(c, d)
  IN /\ MayReport(c, d)
     /\ RowsFit(new)
     /\ events' = events \union new
     /\ seen' = [seen EXCEPT ![d] = now]
     /\ UNCHANGED <<now, registered, links, changes, command>>

\* The detector of the scheduler, in a thread of its own: it commits whatever
\* the workers do.  When it leaves a device out is HeartbeatMonitor's.
DetectMissedHeartbeats(d) ==
  LET new == {Row("lifecycle", c, d, "AGENT_MISSED_HEARTBEAT", now) :
                c \in {x \in Companies : links[<<x, d>>] = "ACTIVE"}}
  IN /\ registered[d] # Never /\ seen[d] + Timeout < now
     /\ new # {} /\ RowsFit(new)
     /\ events' = events \union new
     /\ UNCHANGED <<now, registry, command>>

-----------------------------------------------------------------------------
(* The commands: the requests of each, and the queries of each request.      *)

\* Wrong variant: the incident window first.
WindowFirst(name, d) ==
  CASE name # "export-json" -> <<name>>
    [] name = "export-json" /\ d = AnyDevice -> <<"incident-window", "network", "lifecycle">>
    [] OTHER -> <<"incident-window", "network", "lifecycle", "movements">>

\* build_audit_export asks for movements only with a device.
Requests(name, d) ==
  CASE name # "export-json" -> <<name>>
    [] name = "export-json" /\ d = AnyDevice -> <<"network", "lifecycle", "incident-window">>
    [] OTHER -> <<"network", "lifecycle", "movements", "incident-window">>

SearchBoth(request) == <<<<request, "search", "network">>, <<request, "search", "lifecycle">>>>

\* QueryIncidentWindowUseCase and QueryDeviceMovementsUseCase, query by query.
Queries(request) ==
  CASE request \in {"network", "lifecycle"} -> <<<<request, "search", request>>>>
    [] request = "movements" -> SearchBoth(request)
    [] OTHER -> SearchBoth(request)
                \o <<<<request, "ids", "network">>, <<request, "ids", "lifecycle">>,
                     <<request, "seen", "network">>, <<request, "seen", "lifecycle">>,
                     <<request, "list", "links">>, <<request, "list", "devices">>>>

\* What a request may have seen.
Tables == [events |-> events, links |-> links, registered |-> registered]

\* _load_required_session, and the first request.
StartCommand(name, window, limit, d) ==
  /\ ~Running /\ now < SessionEnd
  /\ name = "movements" => d # AnyDevice
  /\ name = "incident-window" => d = AnyDevice
  /\ command' = [name |-> name, window |-> window, limit |-> limit, device |-> d,
                 todo |-> Requests(name, d), query |-> 0, got |-> <<>>, answered |-> "none",
                 before |-> Tables]
  /\ UNCHANGED <<now, registry, events>>

\* require_auditor_session, at each request.
RequireAuditorSession ==
  /\ Running /\ command.todo # <<>> /\ command.query = 0
  /\ command' = IF now <= SessionEnd
                  THEN [command EXCEPT !.query = 1, !.before = Tables, !.answered = "none"]
                  ELSE Idle
  /\ UNCHANGED <<now, registry, events>>

\* _apply_filters: the company of the session, the device, and both ends of the
\* range included.
Applies(e, q) ==
  /\ e.company = Own
  /\ q[1] # "incident-window" => command.device \in {AnyDevice, e.device}
  /\ q[2] # "seen" => command.window[1] <= e.at /\ e.at <= command.window[2]

Matching(q) == {e \in events : e.table = q[3] /\ Applies(e, q)}

\* order_by(occurred_at.desc()).limit(): the newest events, in one of the orders
\* that equal instants leave.
Newest(rows, limit) ==
  {page \in SUBSET rows :
     /\ Cardinality(page) = IF Cardinality(rows) < limit THEN Cardinality(rows) ELSE limit
     /\ \A e \in page, f \in rows \ page : f.at <= e.at}

\* max(occurred_at) of each device.
LatestSeen(rows) ==
  [d \in {e.device : e \in rows} |->
     (CHOOSE e \in rows : e.device = d /\ \A f \in rows : f.device = d => f.at <= e.at).at]

\* What a query may return.
Results(q) ==
  CASE q[2] = "search" -> Newest(Matching(q), command.limit)
    [] q[2] = "ids" -> {{e.device : e \in Matching(q)}}
    [] q[2] = "seen" -> {LatestSeen(Matching(q))}
    [] q[3] = "links" -> {links}
    [] q[3] = "devices" -> {registered}

Query ==
  /\ Answering
  /\ LET request == Head(command.todo)
         q == Queries(request)[command.query]
         last == command.query = Len(Queries(request))
     IN \E r \in Results(q) :
          command' = [command EXCEPT
            !.got = [x \in DOMAIN @ \union {q} |-> IF x = q THEN r ELSE @[x]],
            !.todo = IF last THEN Tail(@) ELSE @,
            !.answered = IF last THEN request ELSE @,
            !.query = IF last THEN 0 ELSE @ + 1]
  /\ UNCHANGED <<now, registry, events>>

\* The output is printed, or the export written.
CommandEnds ==
  /\ Running /\ command.todo = <<>>
  /\ command' = Idle
  /\ UNCHANGED <<now, registry, events>>

\* The backend cannot be reached or answers an error: nothing is printed, and an
\* export that lacks an answer is not written.
TransportError ==
  /\ Running /\ command.todo # <<>>
  /\ command' = Idle
  /\ UNCHANGED <<now, registry, events>>

-----------------------------------------------------------------------------
(* The answers.                                                              *)

Got(request, read, table) == command.got[<<request, read, table>>]

\* The answer to a request has just come.
Has(request) == Running /\ command.answered = request

\* Wrong variant: the devices of the events that are listed.
ListedDevices ==
  {e.device : e \in Got("incident-window", "search", "network")
                      \union Got("incident-window", "search", "lifecycle")}

\* active_device_ids
ActiveDevices == Got("incident-window", "ids", "network") \union Got("incident-window", "ids", "lifecycle")

\* Wrong variant: a link counts while it is active.
ActivelyLinked == {d \in Devices : Got("incident-window", "list", "links")[<<Own, d>>] = "ACTIVE"}

\* company_device_ids: every link, whatever became of it.
LinkedDevices == {d \in Devices : Got("incident-window", "list", "links")[<<Own, d>>] # "NONE"}

\* _is_relevant_device
RelevantDevices ==
  LET at == Got("incident-window", "list", "devices")
  IN {d \in Devices :
        \/ d \in ActiveDevices
        \/ d \in LinkedDevices /\ at[d] # Never /\ at[d] <= command.window[2]}

\* Wrong variant: only network events show that a device was seen.
SeenOnNetwork(d) ==
  LET network == Got("incident-window", "seen", "network")
  IN {network[x] : x \in {d} \intersect DOMAIN network}

\* _merge_last_seen_maps: the instants of the two maps; the later one counts.
LastSeen(d) ==
  LET network == Got("incident-window", "seen", "network")
      lifecycle == Got("incident-window", "seen", "lifecycle")
  IN {network[x] : x \in {d} \intersect DOMAIN network}
     \union {lifecycle[x] : x \in {d} \intersect DOMAIN lifecycle}

\* _build_device_status
Status(d) ==
  CASE d \in ActiveDevices -> "ACTIVE_IN_WINDOW"
    [] d \notin ActiveDevices /\ (\A at \in LastSeen(d) : at < command.window[1])
         -> "WITHOUT_REPORT_BEFORE_WINDOW"
    [] OTHER -> "SEEN_AFTER_WINDOW"

\* Wrong variant: each table gives its events, one after the other.
NetworkFirst ==
  IF Got("movements", "search", "network") # {}
    THEN {Got("movements", "search", "network")}
    ELSE {Got("movements", "search", "lifecycle")}

\* The two searches, merged, sorted and cut.
Movements ==
  Newest(Got("movements", "search", "network") \union Got("movements", "search", "lifecycle"),
         command.limit)

-----------------------------------------------------------------------------
Init ==
  /\ now = 0
  /\ registered = [d \in Devices |-> IF d \in AtStart THEN 0 ELSE Never]
  /\ seen = registered
  /\ links = [pair \in Companies \X Devices |-> IF pair \in LinkedAtStart THEN "ACTIVE" ELSE "NONE"]
  /\ changes = 0
  /\ events = {}
  /\ command = Idle

Write ==
  \/ \E d \in Devices : RegisterDevice(d) \/ DetectMissedHeartbeats(d)
  \/ \E c \in Companies, d \in Devices :
       Link(c, d) \/ Revoke(c, d)
       \/ \E table \in {"network", "lifecycle"}, at \in 0 .. now : Ingest(table, c, d, at)

Read ==
  \/ \E name \in Commands, w \in Windows, limit \in Limits, d \in Filters :
       StartCommand(name, w, limit, d)
  \/ RequireAuditorSession \/ Query \/ CommandEnds \/ TransportError

Next == TimePasses \/ Write \/ Read

Spec == Init /\ [][Next]_vars

-----------------------------------------------------------------------------
(* Properties.                                                               *)

Instants == 0 .. MaxTime

Event == [table : {"network", "lifecycle"}, company : Companies, device : Devices,
          type : {"REPORT", "AGENT_MISSED_HEARTBEAT", "AGENT_RECOVERED"}, at : Instants]

\* The tables, and how far the command has got.
TypeOK ==
  /\ now \in Instants
  /\ registered \in [Devices -> Instants \union {Never}]
  /\ seen \in [Devices -> Instants \union {Never}]
  /\ links \in [Companies \X Devices -> {"NONE", "ACTIVE", "REVOKED_BY_DEVICE"}]
  /\ events \subseteq Event /\ \A e \in events : links[<<e.company, e.device>>] # "NONE"
  /\ Running =>
       /\ command.name \in Commands /\ command.window \in Windows /\ command.limit \in Limits
       /\ command.todo # <<>> => command.query \in 0 .. Len(Queries(Head(command.todo)))
       /\ \A q \in DOMAIN command.got : q[2] = "search" => command.got[q] \subseteq events

OwnEvents(rows, d) == {e \in rows : e.company = Own /\ e.device = d}
InWindow(e) == command.window[1] <= e.at /\ e.at <= command.window[2]

\* An incident window lists the devices of the auditor's company and no other:
\* whoever was linked when it was asked for and registered by the end of the
\* range is in it, also after its link was revoked, and nobody is in it who was
\* never linked (query_incident_window.py:105-121).
WindowIsOfTheCompany ==
  Has("incident-window") => \A d \in Devices :
    /\ d \in RelevantDevices => links[<<Own, d>>] # "NONE"
    /\ command.before.links[<<Own, d>>] # "NONE" /\ command.before.registered[d] <= command.window[2]
         => d \in RelevantDevices

\* "Esto evita que una ventana con muchos eventos o un limite bajo oculte equipos
\* que si reportaron dentro del rango" (backend/docs/backend.md:358): whatever is
\* committed while the window is put together, the devices of the events that
\* were there before, or that it lists, are listed as active.
ReportsAreNotHidden ==
  Has("incident-window") =>
    \A d \in ListedDevices \union {e.device : e \in {f \in command.before.events :
                                                f.company = Own /\ InWindow(f)}} :
      d \in RelevantDevices /\ Status(d) = "ACTIVE_IN_WINDOW"

\* A device without report had no event since the range began, and one seen
\* after the window has one after it, but for the events that were committed
\* while the request was answered (query_incident_window.py:225-230).
StatusIsReal ==
  Has("incident-window") => \A d \in RelevantDevices :
    CASE Status(d) = "ACTIVE_IN_WINDOW" -> \E e \in OwnEvents(events, d) : InWindow(e)
      [] Status(d) = "WITHOUT_REPORT_BEFORE_WINDOW" ->
           \A e \in OwnEvents(command.before.events, d) : e.at < command.window[1]
      [] Status(d) = "SEEN_AFTER_WINDOW" ->
           \E e \in OwnEvents(events, d) : e.at > command.window[2] \/ e \notin command.before.events

\* The movements of a device are its newest events in the range, of both tables
\* and of this company only: one that is left out is no newer than those listed
\* (query_device_movements.py:70-95).
MovementsAreNewest ==
  Has("movements") => \A page \in Movements :
    /\ Cardinality(page) <= command.limit
    /\ \A e \in page : e \in OwnEvents(events, command.device) /\ InWindow(e)
    /\ \A e \in OwnEvents(command.before.events, command.device) \ page : InWindow(e) =>
         Cardinality(page) = command.limit /\ \A f \in page : e.at <= f.at

\* The parts of an export, answered one after the other, do not contradict each
\* other: its events are of devices that its incident window lists as active,
\* and of movements it lists, unless newer ones fill the list (export.py:71-91).
ExportAgrees ==
  Running /\ command.name = "export-json" /\ command.todo = <<>> =>
    \A table \in {"network", "lifecycle"} : \A e \in Got(table, "search", table) :
      /\ e.company = Own /\ InWindow(e)
      /\ e.device \in RelevantDevices /\ Status(e.device) = "ACTIVE_IN_WINDOW"
      /\ command.device # AnyDevice => \A page \in Movements : e \notin page =>
           Cardinality(page) = command.limit /\ \A f \in page : e.at <= f.at

-----------------------------------------------------------------------------
(* What the documentation says and the code does not do.                     *)

\* "`ACTIVE_IN_WINDOW`: el equipo genero evento de red o ciclo de vida dentro de la
\* ventana" (docs/beta-local-historial-forense.md:127): the backend's own note that
\* a device went missing is no event that the device generated.
ActiveDevicesReported ==
  Has("incident-window") => \A d \in ActiveDevices :
    \E e \in OwnEvents(events, d) : InWindow(e) /\ e.type # "AGENT_MISSED_HEARTBEAT"
=============================================================================
