----------------------------- MODULE AuditorAccess -----------------------------
(***************************************************************************)
(* How a device becomes an auditor of a company for some hours: it asks for   *)
(* access (request_auditor_access.py), the backend texts a code to the         *)
(* company, the device verifies the code (verify_auditor_access.py) and gets a *)
(* session, which the auditor's command line keeps in a file                  *)
(* (auditor/app/cli.py, state.py) and the backend checks at every call         *)
(* (shared/security.py).                                                      *)
(*                                                                         *)
(* As in Enrollment, each worker runs one transaction at a time at READ        *)
(* COMMITTED, cut at each of its queries; what it writes becomes visible when  *)
(* it commits.  Both calls begin with the check of the agent's token, which    *)
(* DeviceRegistry models: it leaves the credential locked, so that the calls of *)
(* one device follow one another.  No other row is locked when it is read.      *)
(***************************************************************************)
EXTENDS Integers, Sequences, FiniteSets

CONSTANTS
  Workers,      \* backend workers that may be deployed
  Devices,      \* registered devices, each with its agent token
  Companies,    \* active companies
  Ips,          \* addresses the requests come from
  NoIp,         \* the address of a client is not known
  Nothing,      \* no session, no request
  MaxPer,       \* requests per window: of a company, a device and an address
  Window,       \* otp_rate_limit_window_seconds, in instants
  OtpTtl,       \* lifetime of a code
  SessionTtl,   \* lifetime of a session
  MaxFailed,    \* failed attempts that deny a request
  MaxRequests,  \* bound: access requests, by the number of workers deployed
  MaxTexts,     \* bound: text messages
  MaxEvents,    \* bound: events that later calls add to, likewise
  MaxTime       \* bound: the clock stops here

Limits == {"company", "device", "ip"}

\* _client_ip: of the connection, or of the header of a trusted proxy.
ClientIps == Ips \union {NoIp}

ASSUME LimitsAssumption == MaxPer \in [Limits -> Nat \ {0}]
ASSUME TimesAssumption == {Window, OtpTtl, SessionTtl, MaxFailed} \subseteq Nat \ {0}
ASSUME BoundsAssumption ==
  /\ IsFiniteSet(Workers) /\ {MaxTexts, MaxTime} \subseteq Nat
  /\ {MaxRequests, MaxEvents} \subseteq [1 .. Cardinality(Workers) -> Nat]
ASSUME NothingAssumption == NoIp \notin Ips

VARIABLES
  now,       \* the clock
  deployed,  \* the workers of this deployment
  requests,  \* the committed auditor_access_requests, by id
  sessions,  \* the committed auditor_sessions, by id
  events,    \* the committed auditor_otp_events
  texts,     \* history: the messages the provider took
  txn,       \* the transaction of each worker
  file       \* the session file of each device

tables == <<requests, sessions, events>>
vars == <<now, deployed, tables, texts, txn, file>>

RequestIds == DOMAIN requests
SessionIds == DOMAIN sessions

SingleWorker == Cardinality(deployed) = 1

\* Events and messages have no key that matters: equal ones are numbered.
Equals(rows, e) == {r \in rows : r.event = e}

WithNew(rows, new) == rows \union {[event |-> e, n |-> Cardinality(Equals(rows, e))] : e \in new}

AreRows(rows, Kind) == IsFiniteSet(rows) /\ rows \subseteq [event : Kind, n : Nat]

\* How many rows pass a test.
Count(rows, Test(_)) == Cardinality({r \in rows : Test(r.event)})

EventsFit == Cardinality(events) < MaxEvents[Cardinality(deployed)]

Adds(new) == events' = WithNew(events, new)

-----------------------------------------------------------------------------
(* Transactions.                                                             *)

Idle == [step |-> "idle"]

\* Wrong variant (no action uses it): the calls of one device overlap.
AnyDevice(d) == TRUE

\* No other call of the device is past the check of its token.
DeviceIsFree(d) == \A v \in Workers : txn[v] # Idle => txn[v].device # d

\* A worker takes a call of a device, and runs its first query.
Begin(w, start) ==
  /\ w \in deployed /\ txn[w] = Idle /\ DeviceIsFree(start.device)
  /\ txn' = [txn EXCEPT ![w] = start]
  /\ UNCHANGED <<now, deployed, tables, texts, file>>

Continue(w, step) == txn' = [txn EXCEPT ![w].step = step]

\* Committed, or rolled back.
End(w) == txn' = [txn EXCEPT ![w] = Idle]

\* The provider refuses the message, the database fails or the worker stops.
RollsBack(w) ==
  /\ txn[w] # Idle
  /\ End(w)
  /\ UNCHANGED <<now, deployed, tables, texts, file>>

TimePasses ==
  /\ now < MaxTime
  /\ now' = now + 1
  /\ UNCHANGED <<deployed, tables, texts, txn, file>>

-----------------------------------------------------------------------------
(* RequestAuditorAccessUseCase.                                              *)

\* find_by_id of the company, and requested_at.
RequestAuditorAccess(w, c, d, ip) ==
  /\ Len(requests) < MaxRequests[Cardinality(deployed)] /\ Cardinality(texts) < MaxTexts /\ EventsFit
  /\ Begin(w, [step |-> "company", company |-> c, device |-> d, ip |-> ip, at |-> now])

\* count_recent_events: since and the instant of the request belong to the window.
CountRecent(limit, t) ==
  Count(events, LAMBDA e : /\ e.type = "REQUESTED"
                   /\ e[limit] = t[limit]
                   /\ e.at >= t.at - Window)

\* Wrong variant: one request more than the limit.
LimitPassed(t) == CountRecent(t.step, t) > MaxPer[t.step]

LimitReached(t) == CountRecent(t.step, t) >= MaxPer[t.step]

\* The limits are looked up one after the other, and the one of the address
\* only when it is known.
AfterLimit(t) ==
  CASE t.step = "company" -> "device"
    [] t.step = "device" /\ t.ip # NoIp -> "ip"
    [] OTHER -> "deliver"

EnforceRateLimit(w) ==
  LET t == txn[w]
  IN /\ t.step \in Limits
     /\ \/ /\ ~LimitReached(t)
           /\ Continue(w, AfterLimit(t))
           /\ UNCHANGED events
        \/ /\ LimitReached(t)
           /\ Adds({[type |-> "BLOCKED", request |-> Nothing]})
           /\ End(w)
     /\ UNCHANGED <<now, deployed, requests, sessions, texts, file>>

\* The provider took the message.
Delivered(t) == {WithNew(texts, {t})}

\* deliver_auditor_otp, before the commit: when the answer of the provider is
\* lost, the transaction rolls back although the message was taken.
DeliverOtp(w) ==
  LET t == txn[w]
  IN /\ t.step = "deliver"
     /\ texts' \in Delivered([company |-> t.company, device |-> t.device, at |-> t.at])
     /\ Continue(w, "request")
     /\ UNCHANGED <<now, deployed, tables, file>>

RequestedEvent(t) ==
  [type |-> "REQUESTED", company |-> t.company, device |-> t.device, ip |-> t.ip, at |-> t.at]

SaveRequest(w) ==
  LET t == txn[w]
  IN /\ t.step = "request"
     /\ requests' = Append(requests, [company |-> t.company, device |-> t.device,
                                      at |-> t.at, status |-> "PENDING", failed |-> 0])
     /\ Adds({RequestedEvent(t)})
     /\ End(w)
     /\ UNCHANGED <<now, deployed, sessions, texts, file>>

-----------------------------------------------------------------------------
(* VerifyAuditorAccessUseCase.                                               *)

BelongsTo(row, c, d) == row.company = c /\ row.device = d

\* Wrong variant: only a verified request is refused.
MayBeVerifiedUnlessDone(row) == row.status # "VERIFIED"

MayBeVerified(row) == row.status = "PENDING"

\* Wrong variant: a code never expires.
NeverExpires(row) == FALSE

\* not is_pending
HasExpired(row) == now > row.at + OtpTtl

\* Wrong variant: the last attempt is one too late.
DeniedLater(row) == [row EXCEPT !.failed = @ + 1,
                                !.status = IF row.failed + 1 > MaxFailed THEN "DENIED" ELSE @]

RegisterFailedAttempt(row) ==
  [row EXCEPT !.failed = @ + 1,
              !.status = IF row.failed + 1 >= MaxFailed THEN "DENIED" ELSE @]

\* What becomes of the request that was read.
Verified(row, right) ==
  CASE HasExpired(row) -> [row EXCEPT !.status = "EXPIRED"]
    [] ~HasExpired(row) /\ right -> [row EXCEPT !.status = "VERIFIED"]
    [] OTHER -> RegisterFailedAttempt(row)

\* find_by_id, and the checks.  A refusal without a write is no step.
VerifyAuditorAccess(w, i, c, d, right) ==
  /\ i \in RequestIds /\ EventsFit
  /\ BelongsTo(requests[i], c, d) /\ MayBeVerified(requests[i])
  /\ Begin(w, [step |-> "save", request |-> i, company |-> c, device |-> d, at |-> now,
               row |-> Verified(requests[i], right)])

\* The row is written as it was read and changed.
Saved(t) == [requests EXCEPT ![t.request] = t.row]

SaveExpired(w) ==
  LET t == txn[w]
  IN /\ t.step = "save" /\ t.row.status = "EXPIRED"
     /\ requests' = Saved(t)
     /\ End(w)
     /\ UNCHANGED <<now, deployed, sessions, events, texts, file>>

\* A failed attempt, and the block that the last of them causes.
FailureEvents(t) ==
  {[type |-> "FAILED", request |-> t.request]}
  \union IF t.row.status = "DENIED" THEN {[type |-> "BLOCKED", request |-> t.request]} ELSE {}

SaveFailure(w) ==
  LET t == txn[w]
  IN /\ t.step = "save" /\ t.row.status \in {"PENDING", "DENIED"}
     /\ requests' = Saved(t)
     /\ Adds(FailureEvents(t))
     /\ End(w)
     /\ UNCHANGED <<now, deployed, sessions, texts, file>>

\* A command line that verified writes the session over its file.
KeepsSession(d, i) == [file EXCEPT ![d] = i]

SaveVerified(w) ==
  LET t == txn[w]
  IN /\ t.step = "save" /\ t.row.status = "VERIFIED"
     /\ requests' = Saved(t)
     /\ sessions' = Append(sessions, [company |-> t.company, device |-> t.device,
                                      at |-> t.at, request |-> t.request])
     /\ Adds({[type |-> "VERIFIED", request |-> t.request]})
     /\ file' \in {file, KeepsSession(t.device, Len(sessions'))}  \* the answer may be lost
     /\ End(w)
     /\ UNCHANGED <<now, deployed, texts>>

-----------------------------------------------------------------------------
(* The session is used.                                                      *)

ExpiresAt(i) == sessions[i].at + SessionTtl

\* AuditorSessionState.is_expired: the command line gives up at the last instant.
ExpiredForClient(i) == ExpiresAt(i) <= now

\* AuditorSession.is_active: the backend still takes it then.
IsActive(i) == now <= ExpiresAt(i)

\* _load_required_session: a command starts with the session of its file.
CommandStarts(d) == file[d] # Nothing /\ ~ExpiredForClient(file[d])

\* require_auditor_session, and the endpoints that ask whether the session is
\* one of the company of the path.  The command line names the company of its
\* session; a call made without it may name any.
RequireAuditorSession(i, c) == IsActive(i) /\ sessions[i].company = c

-----------------------------------------------------------------------------
Init ==
  /\ now = 0
  /\ deployed \in (SUBSET Workers) \ {{}}
  /\ requests = <<>> /\ sessions = <<>> /\ events = {} /\ texts = {}
  /\ txn = [w \in Workers |-> Idle]
  /\ file = [d \in Devices |-> Nothing]

Arrive(w) ==
  \E c \in Companies, d \in Devices :
    \/ \E ip \in ClientIps : RequestAuditorAccess(w, c, d, ip)
    \/ \E i \in RequestIds, right \in BOOLEAN : VerifyAuditorAccess(w, i, c, d, right)

Work(w) ==
  \/ EnforceRateLimit(w) \/ DeliverOtp(w) \/ SaveRequest(w)
  \/ SaveExpired(w) \/ SaveFailure(w) \/ SaveVerified(w)

Next ==
  \/ TimePasses
  \/ \E w \in Workers : Arrive(w) \/ Work(w) \/ RollsBack(w)

Spec == Init /\ [][Next]_vars

-----------------------------------------------------------------------------
(* Properties.                                                               *)

Request == [company : Companies, device : Devices, at : 0 .. MaxTime,
            status : {"PENDING", "VERIFIED", "EXPIRED", "DENIED"}, failed : 0 .. MaxFailed]
Session == [company : Companies, device : Devices, at : 0 .. MaxTime, request : RequestIds]
Text == [company : Companies, device : Devices, at : 0 .. MaxTime]

Event ==
  [type : {"REQUESTED"}, company : Companies, device : Devices, ip : ClientIps,
   at : 0 .. MaxTime]
  \union [type : {"FAILED", "BLOCKED", "VERIFIED"}, request : RequestIds]
  \union [type : {"BLOCKED"}, request : {Nothing}]

Transaction ==
  {Idle}
  \union [step : Limits \union {"deliver", "request"}, company : Companies, device : Devices,
          ip : ClientIps, at : 0 .. now]
  \union [step : {"save"}, request : RequestIds, company : Companies, device : Devices,
          at : 0 .. now, row : Request]

\* The rows, the transactions and the files of the auditors.
TypeOK ==
  /\ now \in 0 .. MaxTime
  /\ deployed \subseteq Workers /\ deployed # {}
  /\ requests \in Seq(Request) /\ sessions \in Seq(Session)
  /\ AreRows(events, Event) /\ AreRows(texts, Text)
  /\ txn \in [Workers -> Transaction]
  /\ file \in [Devices -> SessionIds \union {Nothing}]

OfRequest(type, i) == Cardinality(Equals(events, [type |-> type, request |-> i]))

\* In no window does a device get more requests than its limit; a company and an
\* address may get one more for each further worker, because the limits are
\* looked up before the request is saved (request_auditor_access.py:137-174).
RequestsAreLimited ==
  \A limit \in Limits, t \in 0 .. now :
    \A r \in events : r.event.type = "REQUESTED" /\ r.event[limit] # NoIp =>
      Count(events, LAMBDA e : /\ e.type = "REQUESTED" /\ e[limit] = r.event[limit]
                       /\ t - Window <= e.at /\ e.at <= t)
        <= IF limit = "device" THEN MaxPer[limit] ELSE MaxPer[limit] + Cardinality(deployed) - 1

\* With any number of workers, the failed attempts of a request are its FAILED
\* events, the last of them denies it, and a denied request opens no session
\* (verify_auditor_access.py:92-117).
AttemptsAreCounted ==
  \A i \in RequestIds :
    /\ requests[i].failed = OfRequest("FAILED", i)
    /\ requests[i].failed <= MaxFailed
    /\ requests[i].status = "DENIED" <=> requests[i].failed = MaxFailed
    /\ requests[i].status = "DENIED" => \A s \in SessionIds : sessions[s].request # i

\* A code opens one session, and exactly if it was verified, however often it is
\* sent and whatever workers take it (verify_auditor_access.py:79-82).
OneSessionPerCode ==
  \A i \in RequestIds :
    Cardinality({s \in SessionIds : sessions[s].request = i})
      = IF requests[i].status = "VERIFIED" THEN 1 ELSE 0

\* "Solo auditores con sesion activa" (docs/auth-multiempresa-terminal.md:283):
\* with any number of workers, the backend answers a call for a company only with
\* the session of a device that asked that company for access and verified its
\* code while the code was valid, and no longer than the session lasts; a command
\* that starts is answered, because the command line gives up first.
OnlyAuditorsAreServed ==
  /\ \A s \in SessionIds, c \in Companies : RequireAuditorSession(s, c) =>
       LET row == requests[sessions[s].request]
       IN /\ row.company = c /\ row.device = sessions[s].device
          /\ row.at <= sessions[s].at /\ sessions[s].at <= row.at + OtpTtl
          /\ now <= sessions[s].at + SessionTtl
  /\ \A d \in Devices : CommandStarts(d) =>
       /\ sessions[file[d]].device = d
       /\ RequireAuditorSession(file[d], sessions[file[d]].company)

-----------------------------------------------------------------------------
(* What the documentation says and the code does not do.                     *)

\* "Rate limit de OTP por empresa" (CHANGELOG.md:12): with one worker, no company
\* is texted more often than its limit in any window.
TextsAreLimited ==
  SingleWorker => \A c \in Companies, t \in 0 .. now :
    Count(texts, LAMBDA x : x.company = c /\ t - Window <= x.at /\ x.at <= t)
      <= MaxPer["company"]
=============================================================================
