----------------------------- MODULE DeviceRegistry -----------------------------
(***************************************************************************)
(* What the backend knows of the machines themselves (backend/app/devices):   *)
(* the row of each registered device, and the token with which its agent      *)
(* proves who it is (shared/security.py).  The administrator provisions and   *)
(* rotates tokens; the agent registers and reports with the token it was       *)
(* configured with.                                                          *)
(*                                                                         *)
(* As in AuditorAccess, each worker runs one transaction at a time at READ      *)
(* COMMITTED, cut at each of its queries, and no row is locked when it is read: *)
(* save() reads the row again and writes the columns in which its object        *)
(* differs from that second reading.  A row that a transaction has written is    *)
(* locked until it ends.                                                      *)
(***************************************************************************)
EXTENDS Naturals, FiniteSets

CONSTANTS
  Workers,      \* backend workers that may be deployed
  Devices,
  Versions,     \* agent versions, host names and so on: what a registration describes
  Nobody,       \* holds a row that is free
  MaxTokens,    \* bound: tokens generated
  MaxTime       \* bound: the clock stops here

ASSUME BoundsAssumption == {MaxTokens, MaxTime} \subseteq Nat
ASSUME NobodyAssumption == Nobody \notin Workers

NoToken == 0
Unknown == [exists |-> FALSE]

VARIABLES
  now,          \* the clock
  deployed,     \* the workers of this deployment
  devices,      \* the committed rows of devices
  credentials,  \* the committed rows of agent_credentials: the current token, or NoToken
  holder,       \* the transaction that has written each credential
  txn,          \* the transaction of each worker
  generated,    \* how many tokens have been generated
  answered,     \* the last token the administrator was shown for each device
  configured,   \* AGENT_TOKEN of each agent
  rotated,      \* history: the token that the last provisioning committed
  described,    \* history: what the last registration that committed said
  overtaken     \* history: devices provisioned while a call of theirs was being checked

rows == <<devices, credentials>>
tokens == <<generated, answered, configured>>
history == <<rotated, described, overtaken>>
vars == <<now, deployed, rows, holder, txn, tokens, history>>

SingleWorker == \A v, w \in deployed : v = w

TimePasses ==
  /\ now < MaxTime
  /\ now' = now + 1
  /\ UNCHANGED <<deployed, rows, holder, txn, tokens, history>>

-----------------------------------------------------------------------------
(* Transactions.                                                             *)

Idle == [step |-> "idle"]

Begin(w, start) ==
  /\ w \in deployed /\ txn[w] = Idle
  /\ txn' = [txn EXCEPT ![w] = start]
  /\ UNCHANGED <<now, deployed, rows, holder, history>>

Continue(w, next) ==
  /\ txn' = [txn EXCEPT ![w] = next]
  /\ UNCHANGED <<now, deployed, rows, tokens, history>>

\* Wrong variant (no action uses it): the locks outlive the transaction.
StillHeld(w) == holder

Released(w) == [d \in Devices |-> IF holder[d] = w THEN Nobody ELSE holder[d]]

End(w) ==
  /\ txn' = [txn EXCEPT ![w] = Idle]
  /\ holder' = Released(w)
  /\ UNCHANGED <<now, deployed, tokens, overtaken, rotated>>

Rejects(w) == End(w) /\ UNCHANGED <<rows, described>>

\* The database fails, or the worker stops.
RollsBack(w) == txn[w] # Idle /\ Rejects(w)

-----------------------------------------------------------------------------
(* ProvisionAgentCredentialUseCase.                                          *)

\* A token is generated, and save() looks for the row.
ProvisionAgentCredential(w, d) ==
  /\ generated < MaxTokens
  /\ Begin(w, [step |-> "provision", device |-> d, token |-> generated + 1,
               found |-> credentials[d] # NoToken])
  /\ generated' = generated + 1
  /\ UNCHANGED <<answered, configured>>

\* A call of the device has read its credential, and checks the token.
BeingChecked(d) == \E v \in Workers : txn[v].step = "reload" /\ txn[v].device = d

\* Wrong variant: a credential that exists keeps its token.
FirstToken(d, token) == IF credentials[d] = NoToken THEN token ELSE credentials[d]

NewToken(d, token) == token

\* Somebody else has inserted the row that was not found.
CredentialConflict(w) ==
  /\ txn[w].step = "provision"
  /\ ~txn[w].found /\ credentials[txn[w].device] # NoToken
  /\ Rejects(w)

\* The insert, or the update, which waits for the row; and the commit.  The
\* answer with the token may be lost.
SaveCredential(w) ==
  LET t == txn[w]
  IN /\ t.step = "provision" /\ holder[t.device] = Nobody
     /\ t.found \/ credentials[t.device] = NoToken
     /\ credentials' = [credentials EXCEPT ![t.device] = NewToken(t.device, t.token)]
     /\ rotated' = [rotated EXCEPT ![t.device] = t.token]
     /\ overtaken' = IF BeingChecked(t.device) THEN overtaken \union {t.device} ELSE overtaken
     /\ answered' \in {answered, [answered EXCEPT ![t.device] = t.token]}
     /\ txn' = [txn EXCEPT ![w] = Idle]
     /\ UNCHANGED <<now, deployed, devices, holder, generated, configured, described>>

\* The administrator writes the token he was shown into the agent's environment.
Configure(d) ==
  /\ configured[d] # answered[d]
  /\ configured' = [configured EXCEPT ![d] = answered[d]]
  /\ UNCHANGED <<now, deployed, rows, holder, txn, generated, answered, history>>

-----------------------------------------------------------------------------
(* require_agent_token, with which every call of an agent begins.            *)

\* POST /devices; the reports, which mark the device as seen; the other calls,
\* which write no row of this module but the credential's.
Register(version) == [name |-> "register", version |-> version]
Calls == {Register(v) : v \in Versions} \union {[name |-> "report"], [name |-> "other"]}

\* Wrong variant: a registration asks for a registered device as well.
AllRequireDevice(call) == TRUE

\* require_registered_device
RequiresDevice(call) == call.name # "register"

\* find_by_device_id, and the token is right.
Authenticate(w, d, call) ==
  /\ configured[d] # NoToken /\ credentials[d] = configured[d]
  /\ Begin(w, [step |-> "reload", device |-> d, call |-> call, token |-> credentials[d]])
  /\ UNCHANGED tokens

\* mark_used is saved: save() reads the credential again ...
ReloadCredential(w) ==
  /\ txn[w].step = "reload"
  /\ Continue(w, [step |-> "use", device |-> txn[w].device, call |-> txn[w].call,
                  stale |-> credentials[txn[w].device] # txn[w].token, token |-> txn[w].token])
  /\ UNCHANGED holder

\* Wrong variant: nothing is locked.
NotLocked(d, w) == holder

\* A row that was written is locked until its transaction ends.
Locked(d, w) == [holder EXCEPT ![d] = w]

\* ... and writes last_used_at, and the token if it is not the one it has read
\* first, as soon as no other transaction holds the row.
UseCredential(w) ==
  LET t == txn[w]
  IN /\ t.step = "use" /\ holder[t.device] = Nobody
     /\ holder' = Locked(t.device, w)
     /\ Continue(w, [step |-> IF RequiresDevice(t.call) THEN "registered" ELSE "find",
                     device |-> t.device, call |-> t.call, stale |-> t.stale,
                     token |-> t.token, at |-> now])

\* The credential when the transaction commits.
Credentials(w) ==
  [d \in Devices |-> IF holder[d] = w /\ txn[w].stale THEN txn[w].token ELSE credentials[d]]

Commit(w) == End(w) /\ credentials' = Credentials(w)

\* "Dispositivo no registrado"
NotRegistered(w) ==
  /\ txn[w].step = "registered" /\ devices[txn[w].device] = Unknown
  /\ Rejects(w)

\* find_by_id.  A report is received now.
FindRegistered(w) ==
  LET t == txn[w]
  IN /\ t.step = "registered" /\ devices[t.device] # Unknown
     /\ Continue(w, [t EXCEPT !.step = IF t.call.name = "report" THEN "find" ELSE "done", !.at = now])
     /\ UNCHANGED holder

\* The call ends without a change of the device.
OtherCommits(w) ==
  /\ txn[w].step = "done"
  /\ Commit(w)
  /\ UNCHANGED <<devices, described>>

-----------------------------------------------------------------------------
(* RegisterDeviceUseCase, MarkDeviceSeenUseCase.                             *)

Row(version, since, seen) == [exists |-> TRUE, version |-> version, since |-> since, seen |-> seen]

\* The object that will be saved: a new device, the device described anew, or
\* the device seen when its report was received.
Changed(row, call, at) ==
  CASE call.name = "report" -> [row EXCEPT !.seen = at]
    [] call.name = "register" /\ row = Unknown -> Row(call.version, now, now)
    [] OTHER -> [row EXCEPT !.version = call.version, !.seen = now]

\* find_by_id
FindDevice(w) ==
  LET t == txn[w]
  IN /\ t.step = "find"
     /\ Continue(w, [step |-> "refresh", device |-> t.device, call |-> t.call, stale |-> t.stale,
                     token |-> t.token, object |-> Changed(devices[t.device], t.call, t.at)])
     /\ UNCHANGED holder

\* save() reads the row again.
RefreshDevice(w) ==
  LET t == txn[w]
  IN /\ t.step = "refresh"
     /\ Continue(w, [step |-> "save", device |-> t.device, call |-> t.call, stale |-> t.stale,
                     token |-> t.token, object |-> t.object, fresh |-> devices[t.device]])
     /\ UNCHANGED holder

\* A row that the second reading found is updated: the columns in which the
\* object differs from that reading are written over what the row is now.
Saved(object, fresh, row) ==
  IF fresh = Unknown THEN object
  ELSE [col \in DOMAIN row |-> IF object[col] = fresh[col] THEN row[col] ELSE object[col]]

\* A row that was not found is inserted; the calls of one device wait for each
\* other at its credential, so that nobody else has inserted it.
SaveDevice(w) ==
  LET t == txn[w]
  IN /\ t.step = "save"
     /\ t.fresh = Unknown => devices[t.device] = Unknown
     /\ devices' = [devices EXCEPT ![t.device] = Saved(t.object, t.fresh, @)]
     /\ described' = IF t.call.name = "register"
                       THEN [described EXCEPT ![t.device] = t.call.version] ELSE described
     /\ Commit(w)

-----------------------------------------------------------------------------
Init ==
  /\ now = 0
  /\ deployed \in (SUBSET Workers) \ {{}}
  /\ devices = [d \in Devices |-> Unknown]
  /\ credentials = [d \in Devices |-> NoToken]
  /\ holder = [d \in Devices |-> Nobody]
  /\ txn = [w \in Workers |-> Idle]
  /\ generated = 0
  /\ answered = [d \in Devices |-> NoToken] /\ configured = answered
  /\ rotated = [d \in Devices |-> NoToken]
  /\ described \in [Devices -> Versions]  \* nothing yet
  /\ overtaken = {}

Work(w) ==
  \/ SaveCredential(w) \/ CredentialConflict(w)
  \/ ReloadCredential(w) \/ UseCredential(w)
  \/ NotRegistered(w) \/ FindRegistered(w) \/ OtherCommits(w)
  \/ FindDevice(w) \/ RefreshDevice(w) \/ SaveDevice(w)

Registers(d) == \E w \in Workers, v \in Versions : Authenticate(w, d, Register(v))

Next ==
  \/ TimePasses
  \/ \E d \in Devices :
       \/ Configure(d)
       \/ \E w \in Workers :
            \/ ProvisionAgentCredential(w, d)
            \/ \E call \in Calls : Authenticate(w, d, call)
  \/ \E w \in Workers : Work(w) \/ RollsBack(w)

\* A transaction goes on or fails, and an agent that is not registered
\* tries again, at each start and from its queue.
Fairness ==
  /\ \A w \in Workers : WF_vars(Work(w) \/ RollsBack(w))
  /\ \A d \in Devices : SF_vars(Registers(d))

Spec == Init /\ [][Next]_vars /\ Fairness

-----------------------------------------------------------------------------
(* Properties.                                                               *)

DeviceRow == [exists : {TRUE}, version : Versions, since : 0 .. now, seen : 0 .. now]

\* The rows, the tokens that are known, and a lock is held by a call that has
\* written its credential and not ended.
TypeOK ==
  /\ now \in 0 .. MaxTime /\ generated \in 0 .. MaxTokens
  /\ deployed \subseteq Workers /\ deployed # {}
  /\ devices \in [Devices -> DeviceRow \union {Unknown}]
  /\ {credentials, answered, configured, rotated} \subseteq [Devices -> 0 .. generated]
  /\ described \in [Devices -> Versions] /\ overtaken \subseteq Devices
  /\ \A d \in Devices : holder[d] # Nobody =>
       /\ txn[holder[d]].step \in {"registered", "done", "find", "refresh", "save"}
       /\ txn[holder[d]].device = d

\* The token of the last provisioning that committed is the one that counts:
\* only a call that is being checked while it commits can bring the one before
\* it back, and with one worker no call is (provision_agent_credential.py:31-45,
\* authenticate_agent.py:22-35).
RotationIsKept ==
  /\ \A d \in Devices \ overtaken : credentials[d] = rotated[d]
  /\ SingleWorker => overtaken = {}

\* A device is as its last registration described it: no report that overlaps
\* with a registration writes the old description back (register_device.py:21-29,
\* sqlalchemy_device_repository.py:25-53).
LastDescriptionCounts ==
  \A d \in Devices : devices[d] # Unknown => devices[d].version = described[d]

\* A device is registered once and for good, and it is never seen earlier than
\* it was, however registrations and reports overlap: registered_at decides in
\* which incident windows a device is listed, last_seen_at whether it is missed
\* (register_device.py:22-40, mark_device_seen.py:19-25).
RegistryGrows ==
  [][\A d \in Devices : devices[d] # Unknown =>
       /\ devices'[d] # Unknown
       /\ devices'[d].since = devices[d].since
       /\ devices[d].seen <= devices'[d].seen]_vars

\* A rollback that is not the answer to a call.
Fails(w) == RollsBack(w) /\ ~NotRegistered(w) /\ ~CredentialConflict(w)

\* An agent whose token is right from some point on gets registered, if its
\* transactions do not fail for ever, whatever other calls it overlaps with
\* (devices/presentation/router.py:42-56).
EventuallyRegistered ==
  (\A w \in Workers : <>[][~Fails(w)]_vars)
    => \A d \in Devices :
         <>[](configured[d] # NoToken /\ credentials[d] = configured[d]) => <>(devices[d] # Unknown)
=============================================================================
