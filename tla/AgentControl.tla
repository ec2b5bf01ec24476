------------------------------ MODULE AgentControl ------------------------------
(***************************************************************************)
(* Who decides what an agent reports: the commands of the operator            *)
(* (agent/app/cli.py) write the state file (agent/app/state.py), the runner    *)
(* (agent/app/runner.py, windows_service.py) reads it before every report.      *)
(* They are processes of their own and share the file without a lock.          *)
(*                                                                         *)
(* A process is what it still has to do, step by step; it is cut wherever it    *)
(* reads or writes the file or calls the backend.  They share the local queue    *)
(* (agent/app/local_queue.py) too, and without a lock: a call reads it, sends     *)
(* what it read, rewrites it and posts or appends its own request, and another    *)
(* process can come in between.  Of the queue only the revocations matter here;    *)
(* AgentQueue has the rest of it, for one process.                              *)
(***************************************************************************)
EXTENDS Naturals, Sequences, FiniteSets

CONSTANTS
  Deployments,  \* one is chosen at the start: whether the agent runs and with which link in
                \* its environment (or None), and, as bounds, how many terminals the
                \* operator uses, how many commands he starts, and whether the machine
                \* may be renamed
  Links,        \* company links: [company, device, n], n counts the links of a pair
  Linked,       \* the links that are active at the start
  None,         \* no device, no link
  Unreadable,   \* a state file that is no JSON
  MaxScan       \* bound: new connections of one scan

Companies == {l.company : l \in Links}
Devices == {l.device : l \in Links}

\* AgentState
State == [device : Devices \union {None}, recording : BOOLEAN, selected : Links \union {None},
          known : SUBSET Links, live : SUBSET Links]

ASSUME LinksAssumption ==
  /\ Links \subseteq [company : Companies, device : Devices, n : Nat \ {0}] /\ IsFiniteSet(Links)
  /\ Linked \subseteq Links /\ None \notin Links \union Devices
  /\ \A l \in Linked, k \in Links : k.company = l.company /\ k.device = l.device => l.n <= k.n
ASSUME FilesAssumption == None # Unreadable /\ None \notin State /\ Unreadable \notin State
ASSUME BoundsAssumption ==
  /\ MaxScan \in Nat
  /\ Deployments \subseteq [terminals : Nat \ {0}, commands : Nat, agent : BOOLEAN,
                           renamed : BOOLEAN, env : Links \union {None}]

VARIABLES
  file,       \* the state file
  temporary,  \* its .tmp, or None
  backend,    \* the status of each link
  revoking,   \* links whose revocation waits in the local queue
  tail,       \* how its file ends: "clean", or "open" (without its newline)
  calls,      \* where each process is in a call, what it has read and not sent yet,
              \* and whether no other one was in a call meanwhile
  machine,    \* the device_id that this machine has now
  service,    \* what the service manager was asked for: "on", "off", "stopping", or
              \* "forgotten" (a stop that reached no runner)
  runner,     \* the process of the agent
  command,    \* the command that runs in each terminal
  deployment, \* the one of this behaviour
  commands,   \* how many commands have been started
  switch,     \* history: what the operator last asked of the recording
  unlinked,   \* history: the links an unlink removed from the file
  exposed     \* history: the revocations that another process's call, or a kill inside
              \* a write, could take out of the queue

fileVars    == <<file, temporary>>
queueVars   == <<revoking, tail, calls, exposed>>
backendVars == <<backend, queueVars>>
history     == <<switch, unlinked>>
vars == <<file, temporary, backend, revoking, tail, calls, machine, service, runner, command,
          deployment, commands, switch, unlinked, exposed>>

Terminals == 1 .. deployment.terminals
Agent == 0
Processes == Terminals \union {Agent}

\* AGENT_COMPANY_ID and AGENT_COMPANY_DEVICE_LINK_ID
EnvLink == deployment.env
SingleTerminal == deployment.terminals = 1

-----------------------------------------------------------------------------
(* AgentState.  known are the links of linked_companies, live the active ones. *)

EmptyState == [device |-> None, recording |-> FALSE, selected |-> None, known |-> {}, live |-> {}]

\* find_active_company
ActiveOf(s, c) == {l \in s.live : l.company = c}

\* active_company, whatever its status
ActiveCompany(s) == IF s.selected \in s.known THEN s.selected ELSE None

\* _require_linked_company: the backend lists the newest link of a company first.
NewestOf(s, c) ==
  CHOOSE l \in s.known : l.company = c /\ \A k \in s.known : k.company = c => k.n <= l.n

\* Wrong variant (no action uses it): the selection is kept.
ReplacedLinks(s, listed) == [s EXCEPT !.known = listed.known, !.live = listed.live]

ReplaceLinkedCompanies(s, listed) ==
  [s EXCEPT !.known = listed.known, !.live = listed.live,
            !.selected = IF @ \in listed.live THEN @ ELSE None]

SelectCompany(s, c) == [s EXCEPT !.selected = CHOOSE l \in ActiveOf(s, c) : TRUE]

RemoveCompany(s, c) ==
  [s EXCEPT !.known = {l \in @ : l.company # c}, !.live = {l \in @ : l.company # c},
            !.selected = IF @ # None /\ @.company = c THEN None ELSE @]

-----------------------------------------------------------------------------
(* A call of the queued client.                                              *)

Event(l) == [type |-> "event", link |-> l]
Revocation(l) == [type |-> "revoke", link |-> l]
Other == [type |-> "other"]

\* An event needs an active link.
Accepted(r) == r.type = "event" => backend[r.link] = "ACTIVE"

Delivered(r) ==
  /\ Accepted(r)
  /\ backend' = IF r.type = "revoke" THEN [backend EXCEPT ![r.link] = "REVOKED"] ELSE backend

NoCall == [step |-> "none", links |-> {}, alone |-> TRUE]
At(p, step) == calls[p].step = step
InCall(p) == ~At(p, "none")
Ends(p) == calls' = [calls EXCEPT ![p] = NoCall]

\* From now on every call that is under way has met this one.
Enters(p, step, links) ==
  calls' = [q \in Processes |->
    IF q = p THEN [step |-> step, links |-> links, alone |-> \A o \in Processes \ {p} : ~InCall(o)]
    ELSE IF InCall(q) THEN [calls[q] EXCEPT !.alone = FALSE] ELSE calls[q]]

\* read_all, and how flush goes on: nothing waits, something does, or something
\* does and the backoff runs.  While another process rewrites the file only a
\* part of it may be there; if that ends inside a record, it is written back.
ReadQueue(p) ==
  /\ At(p, "none")
  /\ \E found \in SUBSET revoking, step \in {"send", "append", "post"} :
       /\ found # revoking => \E o \in Processes \ {p} : At(o, "send")
       /\ step = "post" => found = {}
       /\ Enters(p, step, IF step = "send" THEN found ELSE {})
       /\ exposed' = exposed \union (revoking \ found)
       /\ \/ UNCHANGED <<revoking, tail>>
          \/ found # revoking /\ revoking' = found /\ tail' = "clean"
  /\ UNCHANGED backend

SendQueued(p) ==
  /\ At(p, "send")
  /\ \E l \in calls[p].links :
       /\ backend' = [backend EXCEPT ![l] = "REVOKED"]
       /\ calls' = [calls EXCEPT ![p].links = @ \ {l}]
  /\ UNCHANGED <<revoking, tail, exposed>>

\* Everything it read is sent: the file is removed, with what it has not read.
EmptyQueue(p) ==
  /\ At(p, "send") /\ calls[p].links = {}
  /\ revoking' = {} /\ tail' = "clean"
  /\ calls' = [calls EXCEPT ![p].step = "post"]
  /\ UNCHANGED <<backend, exposed>>

\* One is not answered, although it may have arrived: it and the rest are kept.
KeepRest(p) ==
  /\ At(p, "send")
  /\ backend' \in {backend} \union {[backend EXCEPT ![l] = "REVOKED"] : l \in calls[p].links}
  /\ revoking' = calls[p].links /\ tail' = "clean"
  /\ calls' = [calls EXCEPT ![p].step = "append", ![p].links = {}]
  /\ UNCHANGED exposed

\* The request itself is not answered.
Unanswered(p, r) ==
  /\ At(p, "post")
  /\ UNCHANGED backend \/ Delivered(r)
  /\ calls' = [calls EXCEPT ![p].step = "append"]
  /\ UNCHANGED <<revoking, tail, exposed>>

Flushing(p, r) == ReadQueue(p) \/ SendQueued(p) \/ EmptyQueue(p) \/ KeepRest(p) \/ Unanswered(p, r)

Own(r) == IF r.type = "revoke" THEN {r.link} ELSE {}

\* A record that follows a line without its newline spoils it and is spoilt.
Written(p, r) ==
  \/ /\ tail = "clean"
     /\ revoking' = revoking \union Own(r)
     /\ exposed' = IF calls[p].alone THEN exposed ELSE exposed \union Own(r)
  \/ /\ tail = "open"
     /\ \E last \in {{}} \union {{l} : l \in revoking} :
          revoking' = revoking \ last /\ exposed' = exposed \union last \union Own(r)

\* The call returns: posted, or queued.
Returns(p, r) ==
  /\ \/ At(p, "post") /\ Delivered(r) /\ UNCHANGED <<revoking, tail, exposed>>
     \/ At(p, "append") /\ Written(p, r) /\ tail' = "clean" /\ UNCHANGED backend
  /\ Ends(p)

\* It raises: its answer says no, or was cut, or a record of the queue is refused.
Raises(p, r) ==
  /\ \/ At(p, "send") /\ UNCHANGED backend
     \/ At(p, "post") /\ (UNCHANGED backend \/ Delivered(r))
  /\ Ends(p)
  /\ UNCHANGED <<revoking, tail, exposed>>

\* The process is killed: inside a rewrite, which truncates the file first, inside
\* an append, all but the newline of which may be in the file, or elsewhere.
Dropped(p, r) ==
  /\ \/ UNCHANGED <<revoking, tail, exposed>>
     \/ /\ At(p, "send")
        /\ \E kept \in SUBSET calls[p].links :
             revoking' = kept /\ exposed' = exposed \union (revoking \ kept)
        /\ tail' \in {"clean", "open"}
     \/ At(p, "append") /\ Written(p, r) /\ tail' = "open"
  /\ Ends(p)
  /\ UNCHANGED backend

-----------------------------------------------------------------------------
(* Commands.                                                                 *)

Idle == [todo |-> <<>>]
Running(t) == command[t].todo # <<>>
Does(t, step) == Running(t) /\ Head(command[t].todo) = step

\* JsonAgentStateStore.save, in the three steps at which a process can stop or
\* another one can come in between.
Save == <<"open", "write", "replace">>

\* Wrong variant: the link is removed from the file before it is revoked.
RemoveFirst(name) ==
  CASE name = "companies"       -> <<"list", "load", "sync">>
    [] name = "link"            -> <<"load">> \o Save \o <<"call", "call">>
    [] name = "use-company"     -> <<"load", "find", "select", "tell">>
    [] name = "start-recording" -> <<"load", "require", "switch", "tell">>
    [] name = "stop-recording"  -> <<"load", "require", "tell", "tell", "switch">>
    [] name = "unlink"          -> <<"load", "require", "remove", "tell", "revoke">>

\* What each command does, in its order.
Program(name) ==
  CASE name = "companies"       -> <<"list", "load", "sync">>
    [] name = "link"            -> <<"load">> \o Save \o <<"call", "call">>
    [] name = "use-company"     -> <<"load", "find", "select", "tell">>
    [] name = "start-recording" -> <<"load", "require", "switch", "tell">>
    [] name = "stop-recording"  -> <<"load", "require", "tell", "tell", "switch">>
    [] name = "unlink"          -> <<"load", "require", "tell", "revoke", "remove">>

AllCommands ==
  {"companies", "link", "use-company", "start-recording", "stop-recording", "unlink"}
NamesCompany == {"use-company", "unlink"}

StartCommand(t, name, c) ==
  /\ name \in NamesCompany <=> c # None
  /\ t \in Terminals /\ ~Running(t)
  /\ commands < deployment.commands
  /\ commands' = commands + 1
  /\ command' = [command EXCEPT ![t] =
       [todo |-> Program(name), name |-> name, company |-> c, device |-> machine,
        state |-> EmptyState, listed |-> EmptyState, link |-> None]]
  /\ UNCHANGED <<fileVars, backendVars, machine, service, runner, deployment, history>>

\* Wrong variant: the state file itself is truncated.
TruncateFile == file' = Unreadable /\ temporary' = Unreadable

\* write_text truncates the temporary file and then fills it.
Truncate == temporary' = Unreadable /\ UNCHANGED file

\* A command ends with its last step; nothing of it is left.
Becomes(t, next) == command' = [command EXCEPT ![t] = IF next.todo = <<>> THEN Idle ELSE next]
Then(t, next) == Becomes(t, [next EXCEPT !.todo = Tail(command[t].todo)])
\* What a command has computed it saves at once.
ThenSave(t, next) ==
  /\ Becomes(t, [next EXCEPT !.todo = Tail(Save) \o Tail(@)])
  /\ Truncate

Fails(t) == command' = [command EXCEPT ![t] = Idle]

OutsideCommand == <<machine, service, runner, deployment, commands>>

\* list_device_links
ListDeviceLinks(t) ==
  /\ Does(t, "list")
  /\ \/ LET listed == {l \in Links : l.device = command[t].device /\ backend[l] # "NONE"}
        IN Then(t, [command[t] EXCEPT !.listed.known = listed,
                                      !.listed.live = {l \in listed : backend[l] = "ACTIVE"}])
     \/ Fails(t)
  /\ UNCHANGED <<fileVars, backendVars, history, OutsideCommand>>

\* Wrong variant: only the runner looks whose state it is.
OfAnyDevice(s, d) == TRUE

\* _load_state_for_identity: nobody's state, or the one of this device.
OfDevice(s, d) == s.device \in {None, d}

Load(t) ==
  /\ Does(t, "load")
  /\ IF file = Unreadable \/ ~OfDevice(file, command[t].device) THEN Fails(t)
     ELSE IF file.device = None
       THEN Becomes(t, [command[t] EXCEPT !.state = [file EXCEPT !.device = command[t].device],
                                          !.todo = Save \o Tail(@)])
       ELSE Then(t, [command[t] EXCEPT !.state = file])
  /\ UNCHANGED <<fileVars, backendVars, history, OutsideCommand>>

\* _sync_linked_companies
Sync(t) ==
  /\ Does(t, "sync")
  /\ LET c == command[t]
     IN ThenSave(t, [c EXCEPT !.state = ReplaceLinkedCompanies(@, c.listed), !.listed = EmptyState])
  /\ UNCHANGED <<backendVars, history, OutsideCommand>>

\* _use_company: a company that is not known to be active is looked up first.
Find(t) ==
  /\ Does(t, "find")
  /\ LET c == command[t]
     IN Becomes(t, [c EXCEPT !.todo =
          (IF ActiveOf(c.state, c.company) = {} THEN Program("companies") ELSE <<>>) \o Tail(@)])
  /\ UNCHANGED <<fileVars, backendVars, history, OutsideCommand>>

Select(t) ==
  /\ Does(t, "select")
  /\ LET c == command[t]
     IN IF ActiveOf(c.state, c.company) = {} THEN Fails(t) /\ UNCHANGED fileVars
        ELSE LET s == SelectCompany(c.state, c.company)
             IN ThenSave(t, [c EXCEPT !.state = s, !.link = s.selected])
  /\ UNCHANGED <<backendVars, history, OutsideCommand>>

\* _require_active_company, _require_linked_company
Required(c) ==
  IF c.name = "unlink"
  THEN IF \E l \in c.state.known : l.company = c.company
         THEN NewestOf(c.state, c.company) ELSE None
  ELSE IF ActiveCompany(c.state) \in c.state.live THEN ActiveCompany(c.state) ELSE None

Require(t) ==
  /\ Does(t, "require")
  /\ LET c == command[t]
     IN IF Required(c) = None THEN Fails(t) /\ UNCHANGED switch
        ELSE /\ Then(t, [c EXCEPT !.link = Required(c)])
             /\ switch' = CASE c.name = "start-recording" -> "on"
                            [] c.name = "stop-recording" -> "off"
                            [] OTHER -> switch
  /\ UNCHANGED <<fileVars, backendVars, unlinked, OutsideCommand>>

\* with_recording_enabled
Switch(t) ==
  /\ Does(t, "switch")
  /\ ThenSave(t, [command[t] EXCEPT !.state.recording = (command[t].name = "start-recording")])
  /\ UNCHANGED <<backendVars, history, OutsideCommand>>

Remove(t) ==
  /\ Does(t, "remove")
  /\ ThenSave(t, [command[t] EXCEPT !.state = RemoveCompany(@, command[t].company)])
  /\ UNCHANGED <<backendVars, history, OutsideCommand>>

RequestOf(c) ==
  CASE Head(c.todo) = "tell"   -> Event(c.link)
    [] Head(c.todo) = "revoke" -> Revocation(c.link)
    [] OTHER                   -> Other

\* Wrong variant: the switch is left alone when its event cannot be sent.
FailsAtOnce(t) == Fails(t)

\* An exception ends the command; stop-recording switches off first (finally).
CallFails(t) ==
  IF command[t].name = "stop-recording"
  THEN Becomes(t, [command[t] EXCEPT !.todo = <<"switch">>])
  ELSE Fails(t)

Call(t) ==
  /\ \E step \in {"tell", "revoke", "call"} : Does(t, step)
  /\ LET r == RequestOf(command[t])
     IN \/ Flushing(t, r) /\ UNCHANGED command
        \/ Returns(t, r) /\ Then(t, command[t])
        \/ Raises(t, r) /\ CallFails(t)
  /\ UNCHANGED <<fileVars, history, OutsideCommand>>

OpenTemporary(t) ==
  /\ Does(t, "open")
  /\ Truncate
  /\ Then(t, command[t])
  /\ UNCHANGED <<backendVars, history, OutsideCommand>>

\* The other terminal is saving as well.
Rival(t) == \E o \in Terminals \ {t} : Does(o, "write") \/ Does(o, "replace")

\* Two processes that write one file may leave a mixture; if the other one has
\* renamed it already, the state file itself is written.
WriteTemporary(t) ==
  /\ Does(t, "write")
  /\ \E written \in {command[t].state} \union (IF Rival(t) THEN {Unreadable} ELSE {}) :
       IF temporary # None THEN temporary' = written /\ UNCHANGED file
       ELSE file' = written /\ UNCHANGED temporary
  /\ Then(t, command[t])
  /\ UNCHANGED <<backendVars, history, OutsideCommand>>

\* With its last save an unlink has removed the links.
RemovedBy(c) ==
  IF c.name = "unlink" /\ c.link # None /\ "remove" \notin {c.todo[i] : i \in DOMAIN c.todo}
  THEN {l \in Links : l.company = c.company /\ l.device = c.device /\ l.n <= c.link.n} ELSE {}

ReplaceFile(t) ==
  /\ Does(t, "replace")
  /\ IF temporary = None
     THEN Fails(t) /\ UNCHANGED <<fileVars, unlinked>>
     ELSE /\ file' = temporary
          /\ temporary' = None
          /\ Then(t, command[t])
          /\ unlinked' = unlinked \union {l \in RemovedBy(command[t]) : backend[l] # "NONE"}
  /\ UNCHANGED <<backendVars, switch, OutsideCommand>>

\* The terminal is closed: what the command was about to do does not happen.
Killed(t) ==
  /\ Running(t)
  /\ Fails(t)
  /\ Dropped(t, RequestOf(command[t]))
  /\ switch' = IF command[t].name \in {"start-recording", "stop-recording"} THEN "unknown" ELSE switch
  /\ UNCHANGED <<fileVars, unlinked, OutsideCommand>>

-----------------------------------------------------------------------------
(* The runner.                                                               *)

\* No process: it ended or was killed ("down"), or an exception ended it ("failed").
Gone(how) == [todo |-> <<how>>, device |-> None, context |-> None]
Up == runner.todo \notin {<<"down">>, <<"failed">>}
Waiting == runner.todo = <<>>
Task == Head(runner.todo)

Bootstrap == <<"check", "register", "AGENT_STARTED">>
RunOnce == Bootstrap \o <<"ready", "AGENT_HEARTBEAT", "scan", "AGENT_STOPPING", "AGENT_STOPPED", "exit">>
RunForever == Bootstrap \o <<"ready">>
Shutdown == <<"AGENT_STOPPING", "AGENT_STOPPED", "exit">>

\* _refresh_identity, when the identity changed or when it did not.
Refreshes == {<<>>, <<"register", "AGENT_CONFIG_CHANGED">>}

OutsideRunner == <<fileVars, machine, command, deployment, commands, history>>

ServiceStarts ==
  /\ service = "off" /\ ~Up /\ deployment.agent
  /\ service' = "on"
  /\ UNCHANGED <<runner, backendVars, OutsideRunner>>

Starts(todo) ==
  /\ ~Up
  /\ runner' = [todo |-> todo, device |-> machine, context |-> None]
  /\ UNCHANGED <<service, backendVars, OutsideRunner>>

\* Restart=always
StartRunner == service = "on" /\ Starts(RunForever)

\* run-once, by hand while the service is off
StartOnce == service = "off" /\ deployment.agent /\ Starts(RunOnce)

Goes(next) == runner' = next
Faces(step) == Up /\ ~Waiting /\ Task = step
Crashes == Goes(Gone("failed"))

\* Wrong variant: the runner wants a state file that knows the device.
KnownDevice(s, d) == s.device = d

\* _ensure_state_device, _load_state_for_identity
MayUse(s, d) == s.device \in {None, d}

\* _ensure_state_device
CheckState ==
  /\ Faces("check")
  /\ IF file # Unreadable /\ MayUse(file, runner.device)
       THEN Goes([runner EXCEPT !.todo = Tail(@)]) ELSE Crashes
  /\ UNCHANGED <<service, backendVars, OutsideRunner>>

\* run_forever installs the signal handlers after the bootstrap.
Ready ==
  /\ Faces("ready")
  /\ Goes([runner EXCEPT !.todo = Tail(@)])
  /\ UNCHANGED <<service, backendVars, OutsideRunner>>

\* signal.signal raises outside the main thread.
NotReady ==
  /\ Faces("ready") /\ Crashes
  /\ UNCHANGED <<service, backendVars, OutsideRunner>>

\* _require_audit_company_context
CompanyContext(s) == IF ActiveCompany(s) \in s.live THEN ActiveCompany(s) ELSE EnvLink

\* _recording_enabled
RecordingEnabled(s) ==
  IF ActiveCompany(s) # None THEN s.recording ELSE EnvLink # None

Lifecycle ==
  {"AGENT_STARTED", "AGENT_HEARTBEAT", "AGENT_CONFIG_CHANGED", "AGENT_STOPPING", "AGENT_STOPPED"}

\* The state is read before every event, and once for all events of a scan.
LoadState ==
  /\ Up /\ ~Waiting /\ Task \in Lifecycle \union {"scan"} /\ runner.context = None
  /\ IF file = Unreadable \/ ~MayUse(file, runner.device) \/ CompanyContext(file) = None
     THEN Crashes
     ELSE IF Task # "scan" THEN Goes([runner EXCEPT !.context = CompanyContext(file)])
     ELSE \E k \in 0 .. (IF RecordingEnabled(file) THEN MaxScan ELSE 0) :
            Goes([runner EXCEPT !.todo = [i \in 1 .. k |-> "network"] \o Tail(@),
                                !.context = IF k = 0 THEN None ELSE CompanyContext(file)])
  /\ UNCHANGED <<service, backendVars, OutsideRunner>>

RunnerRequest == IF Task = "register" THEN Other ELSE Event(runner.context)
Posting == Up /\ ~Waiting /\ (Task = "register" \/ runner.context # None)

\* Wrong variant: a later event goes to the company of this one.
ContextKept == [runner EXCEPT !.todo = Tail(@)]

AfterPost ==
  LET rest == Tail(runner.todo)
  IN [runner EXCEPT !.todo = rest,
                    !.context = IF rest # <<>> /\ Head(rest) = "network" THEN @ ELSE None]

PostGoesOn ==
  /\ Posting
  /\ Flushing(Agent, RunnerRequest)
  /\ UNCHANGED <<service, runner, OutsideRunner>>

Post ==
  /\ Posting
  /\ Returns(Agent, RunnerRequest)
  /\ Goes(AfterPost)
  /\ UNCHANGED <<service, OutsideRunner>>

PostFails ==
  /\ Posting
  /\ Raises(Agent, RunnerRequest)
  /\ Crashes
  /\ UNCHANGED <<service, OutsideRunner>>

\* An iteration of the loop: the identity is collected again before each task.
Begins(task) ==
  /\ Up /\ Waiting /\ service \in {"on", "forgotten"}
  /\ \E refresh \in Refreshes :
       /\ machine # runner.device => refresh # <<>>
       /\ Goes([runner EXCEPT !.todo = refresh \o <<task>>, !.device = machine])
  /\ UNCHANGED <<service, backendVars, OutsideRunner>>

HeartbeatIsDue == Begins("AGENT_HEARTBEAT")
ScanIsDue == Begins("scan")

Installed == "ready" \notin {runner.todo[i] : i \in DOMAIN runner.todo}

\* SIGTERM ends the process at once while no handler is installed; the Windows
\* service keeps the request until the loop looks at it.
ServiceStops ==
  /\ service = "on"
  /\ \/ ~Up /\ service' = "off" /\ UNCHANGED <<runner, backendVars>>
     \/ Up /\ ~Installed /\ service' = "off" /\ Goes(Gone("down")) /\ Dropped(Agent, RunnerRequest)
     \/ Up /\ service' = "stopping" /\ UNCHANGED <<runner, backendVars>>
  /\ UNCHANGED OutsideRunner

\* SvcStop before SvcDoRun has made its runner: nobody is asked to stop.
StopIsForgotten ==
  /\ service = "on" /\ Faces("check")
  /\ service' = "forgotten"
  /\ UNCHANGED <<runner, backendVars, OutsideRunner>>

\* Wrong variant: the loop looks at the stop only when nothing is due.
StopWaitsForTheService == service = "off"

StopRequested == service = "stopping"

StopSeen ==
  /\ Up /\ Waiting /\ StopRequested
  /\ Goes([runner EXCEPT !.todo = Shutdown])
  /\ UNCHANGED <<service, backendVars, OutsideRunner>>

Exit ==
  /\ Up /\ runner.todo = <<"exit">>
  /\ Goes(Gone("down"))
  /\ UNCHANGED <<service, backendVars, OutsideRunner>>

\* The service manager notes that the process it was stopping is gone.
Stopped ==
  /\ service \in {"stopping", "forgotten"} /\ ~Up
  /\ service' = "off"
  /\ UNCHANGED <<runner, backendVars, OutsideRunner>>

\* Killed, after TimeoutStopSec for instance.
RunnerKilled ==
  /\ Up
  /\ Goes(Gone("down"))
  /\ Dropped(Agent, RunnerRequest)
  /\ UNCHANGED <<service, OutsideRunner>>

-----------------------------------------------------------------------------
(* The rest.                                                                 *)

\* An auditor accepts an enrollment that this machine has asked for: one active link
\* per company and device.
LinkAccepted(l) ==
  /\ backend[l] = "NONE"
  /\ l.device = machine \/ \E k \in Linked : k.device = l.device
  /\ \A k \in Links : k.company = l.company /\ k.device = l.device /\ k.n < l.n
                        => backend[k] = "REVOKED"
  /\ backend' = [backend EXCEPT ![l] = "ACTIVE"]
  /\ UNCHANGED <<queueVars, service, runner, OutsideRunner>>

\* A new hostname makes it another device, unless AGENT_DEVICE_ID is set (bound:
\* in some deployments, once, and not back).
MachineRenamed ==
  /\ deployment.renamed /\ \E l \in Linked : l.device = machine
  /\ machine' \in Devices \ {l.device : l \in Linked}
  /\ UNCHANGED <<fileVars, backendVars, service, runner, command, deployment, commands, history>>

Configured(l, on) ==
  LET own == {k \in Linked : k.device = l.device}
  IN [device |-> l.device, recording |-> on, selected |-> l, known |-> own, live |-> own]

Init ==
  /\ deployment \in Deployments
  /\ \/ file = EmptyState /\ \E l \in Linked : machine = l.device
     \/ \E l \in Linked, on \in BOOLEAN : file = Configured(l, on) /\ machine = l.device
  /\ temporary = None
  /\ backend = [l \in Links |-> IF l \in Linked THEN "ACTIVE" ELSE "NONE"]
  /\ revoking = {} /\ tail = "clean" /\ exposed = {}
  /\ calls = [p \in Processes |-> NoCall]
  /\ service = "off"
  /\ runner = Gone("down")
  /\ command = [t \in Terminals |-> Idle]
  /\ commands = 0
  /\ switch = IF file.recording THEN "on" ELSE "off"
  /\ unlinked = {}

CommandStep(t) ==
  \/ ListDeviceLinks(t) \/ Load(t) \/ Sync(t) \/ Find(t) \/ Select(t) \/ Require(t)
  \/ Switch(t) \/ Remove(t) \/ Call(t)
  \/ OpenTemporary(t) \/ WriteTemporary(t) \/ ReplaceFile(t)

RunnerStep ==
  CheckState \/ Ready \/ NotReady \/ LoadState \/ PostGoesOn \/ Post \/ PostFails \/ StopSeen \/ Exit

Next ==
  \/ \E t \in Terminals :
       \/ \E name \in AllCommands, c \in Companies \union {None} : StartCommand(t, name, c)
       \/ CommandStep(t)
       \/ Killed(t)
  \/ ServiceStarts \/ StartRunner \/ StartOnce \/ RunnerStep
  \/ HeartbeatIsDue \/ ScanIsDue \/ ServiceStops \/ StopIsForgotten \/ Stopped \/ RunnerKilled
  \/ (\E l \in Links : LinkAccepted(l)) \/ MachineRenamed

\* Calls time out, the service manager restarts the agent, and the loop, which
\* looks at the heartbeat first, does not put it off for its scans.
Fairness == WF_vars(RunnerStep) /\ WF_vars(StartRunner) /\ SF_vars(HeartbeatIsDue)

Spec == Init /\ [][Next]_vars /\ Fairness

-----------------------------------------------------------------------------
(* Properties.                                                               *)

Steps == {"list", "load", "sync", "find", "select", "require", "switch", "remove",
          "tell", "revoke", "call", "open", "write", "replace"}

\* The file, the processes and the backend.
TypeOK ==
  /\ file \in State \union {Unreadable}
  /\ temporary \in State \union {None, Unreadable}
  /\ backend \in [Links -> {"NONE", "ACTIVE", "REVOKED"}]
  /\ revoking \subseteq {l \in Links : backend[l] # "NONE"}
  /\ tail \in {"clean", "open"} /\ exposed \subseteq Links
  /\ calls \in [Processes -> [step : {"none", "send", "post", "append"}, links : SUBSET Links,
                              alone : BOOLEAN]]
  /\ machine \in Devices /\ service \in {"on", "off", "stopping", "forgotten"}
  /\ runner.device \in Devices \union {None} /\ runner.context \in Links \union {None}
  /\ runner.context # None => ~Waiting /\ Task \in Lifecycle \union {"network"}
  /\ \A i \in DOMAIN runner.todo :
       runner.todo[i] \in Lifecycle \union {"check", "register", "ready", "scan", "network", "exit", "down", "failed"}
  /\ deployment \in Deployments /\ commands \in 0 .. deployment.commands /\ DOMAIN command = Terminals
  /\ \A t \in Terminals : Running(t) =>
       /\ command[t].name \in AllCommands /\ command[t].device \in Devices
       /\ command[t].state \in State /\ command[t].link \in Links \union {None}
       /\ \A i \in DOMAIN command[t].todo : command[t].todo[i] \in Steps
  /\ switch \in {"on", "off", "unknown"} /\ unlinked \subseteq Links

\* Every state the commands write, however they overlap, is one the runner can
\* use: the selected company is among the linked ones and active, and the links
\* belong to the device of the state (agent/app/state.py:130-179, cli.py:378).
StateIsConsistent ==
  file # Unreadable =>
    /\ file.selected # None => file.selected \in file.live
    /\ file.live \subseteq file.known
    /\ \A l \in file.known : l.device = file.device

\* A report of the runner, or an event of a command, is of a link of the device
\* that sends it, although the machine is renamed and the file is another's; only
\* the link of the environment is taken as it is (agent/app/runner.py:229-235, 258-264).
ReportsAreOfTheDevice ==
  /\ runner.context # None => runner.context = EnvLink \/ runner.context.device = runner.device
  /\ \A t \in Terminals : Running(t) /\ command[t].link # None =>
       command[t].link.device = command[t].device

\* With one terminal, between two commands the recording is as the last
\* start-recording or stop-recording wanted it that was not refused: a stop counts
\* even if it cannot be reported, and no other command brings the old switch back
\* (agent/app/cli.py:293-317).
SwitchIsObeyed ==
  SingleTerminal /\ (\A t \in Terminals : ~Running(t)) /\ switch # "unknown"
    => file.recording = (switch = "on")

\* A company that an unlink removed from the file is not left linked without
\* anybody knowing: its links are revoked, or their revocation waits in the queue,
\* whatever calls of the runner and of other commands come in between and wherever
\* they stop (agent/app/cli.py:320-339).  Excepted are the revocations that the
\* queue, which has no lock, can lose: one that is appended while a call of another
\* process is under way, whose rewrite or removal of the file takes it along
\* (agent/app/local_queue.py:54, 228-257), or behind a line that a kill left without
\* its newline; and those that wait when a rewrite of the file is cut by a kill, is
\* read half done, or is spoilt by such a line (local_queue.py:64-81, 95).
UnlinkedIsRevoked ==
  \A l \in unlinked : backend[l] = "REVOKED" \/ l \in revoking \/ l \in exposed

\* With one terminal, the runner and the commands can always read the file,
\* although a save may be killed at any of its steps (agent/app/state.py:207-215).
StateIsReadable == SingleTerminal => file # Unreadable

NoMoreCrashes == <>[][~NotReady /\ ~PostFails /\ ~RunnerKilled]_vars

\* Nobody stops the service, and what the runner finds in the file is of this
\* machine and names a company, or nothing is selected and the environment does.
Usable ==
  /\ service = "on" /\ file # Unreadable
  /\ file.device \in {None, machine} /\ CompanyContext(file) # None

\* A runner that can work sends heartbeats for ever, whatever the commands do to
\* the file meanwhile (agent/app/runner.py:114-132).
KeepsReporting ==
  <>[]Usable /\ NoMoreCrashes
    => []<><<Post /\ Task = "AGENT_HEARTBEAT">>_vars

\* A runner that is asked to stop comes to its end, whatever it is doing: before its
\* handlers are installed, inside a call, or with a task due
\* (agent/app/runner.py:116-137).  A stop of the Windows service that comes before
\* the runner is assigned asks nobody (windows_service.py:51, 57-58: "forgotten").
StopIsHonoured == service = "stopping" ~> ~Up
=============================================================================
