------------------------------ MODULE AgentQueue ------------------------------
(***************************************************************************)
(* The agent's local queue: QueuedAuditApiClient over a JSONL file          *)
(* (agent/app/local_queue.py) and the HTTP client under it                  *)
(* (agent/app/transport.py), used by one agent process at a time.           *)
(*                                                                         *)
(* A call of _post_or_queue is cut where the process can die or where the    *)
(* backend acts: reading the file, each POST, each write of the file.  The   *)
(* file survives a crash; the rest of the process state does not.           *)
(*                                                                         *)
(* The backend is modelled by what the client can observe of it: which       *)
(* requests it refuses for good, and whether it committed a request whose    *)
(* answer never came back.                                                  *)
(***************************************************************************)
EXTENDS Naturals, Sequences

CONSTANTS
  Audit,      \* lifecycle and network events, captured for one company link
  Revoke,     \* "revoke this link" requests of the unlink command
  Other,      \* registrations and enrollments: no company context
  Legacy,     \* audit records of an older version, without company context
  None,       \* no request in hand
  Backoff,    \* request_retry_backoff_seconds, in ticks
  TornWrites  \* whether a crash may happen inside a write of the file

Requests == Audit \union Revoke \union Other \union Legacy

\* The constructor forces the backoff to at least one second.
ASSUME BackoffAssumption == Backoff \in Nat \ {0}
ASSUME RequestsAssumption ==
  /\ None \notin Requests
  /\ Legacy \intersect (Audit \union Revoke \union Other) = {}
ASSUME TornAssumption == TornWrites \in BOOLEAN

VARIABLES
  queue,      \* the valid records of the file, oldest first
  tail,       \* how the file ends: "clean", "open" (last record complete, but
              \* without its newline) or "torn" (last line is not valid JSON)
  pc,         \* where the process is in _post_or_queue
  current,    \* the request handed to _post_or_queue
  next,       \* how many records the running flush has disposed of
  backoff,    \* ticks until the next flush may start
  network,    \* "up", or "down": refused, timed out, or answering 408/429/5xx
  tokenValid, \* the backend accepts the agent token
  linked,     \* the company link of the Audit requests is active
  received,   \* requests committed by the backend since their capture
  promised,   \* requests whose call returned normally
  damaged     \* records that a crash inside a write cut out of the file

fileVars    == <<queue, tail, damaged>>
processVars == <<pc, current, next, backoff, promised>>
worldVars   == <<network, tokenValid>>
backendVars == <<linked, received>>
vars == <<queue, tail, pc, current, next, backoff, network, tokenValid,
          linked, received, promised, damaged>>

Contents(s) == {s[i] : i \in DOMAIN s}

-----------------------------------------------------------------------------
(* The backend, as the client sees it.                                       *)

\* 401 for a bad token, 422 for an event of a link that is not active, 422
\* for a record without company context: not retryable.
Refused(r) ==
  \/ ~tokenValid
  \/ r \in Legacy
  \/ r \in Audit /\ ~linked

BackendCommits(r) ==
  /\ received' = received \union {r}
  /\ linked' = (linked /\ r \notin Revoke)

\* A 2xx answer.
Confirmed(r) == network = "up" /\ ~Refused(r) /\ BackendCommits(r)

\* No usable answer: the request never arrived, or it was committed and only
\* the answer was lost.
Unanswered(r) ==
  /\ network = "down"
  /\ \/ UNCHANGED backendVars
     \/ ~Refused(r) /\ BackendCommits(r)

-----------------------------------------------------------------------------
(* Starting a call.                                                          *)

\* With every request of the model in the file, the records behind it are not
\* represented any more: the call keeps nothing in hand (bound: Requests).
InHand(r) == r \in Requests \ Contents(queue)

PostOrQueue(r) ==
  /\ pc = "idle"
  /\ InHand(r)
  /\ r \notin Legacy
  /\ pc' = "read"
  /\ current' = r
  /\ received' = received \ {r}
  /\ promised' = promised \ {r}
  /\ damaged' = damaged \ {r}
  /\ UNCHANGED <<queue, tail, next, backoff, linked, worldVars>>

PostOrQueueBeyondBound ==
  /\ pc = "idle"
  /\ \A r \in Requests \ Legacy : ~InHand(r)
  /\ pc' = "read"
  /\ UNCHANGED <<fileVars, current, next, backoff, promised, worldVars, backendVars>>

\* Wrong variant (no action uses it): a corrupt line is skipped, but the file is
\* left as it is.
InvalidRecordsIgnored == FALSE

\* read_all skips a corrupt line and then rewrites the file with the rest.
FoundInvalidRecords == tail = "torn"

\* Wrong variant: the comparison with the end of the backoff is reversed.
FlushOnlyInBackoff == backoff > 0

\* The flush waits for the end of the backoff.
MayFlush == backoff = 0

\* Wrong variant: the request in hand is posted although older ones wait.
NewestOvertakes == "post"

\* When flush returns False the request in hand is put behind the pending ones.
NotFlushed == "append"

\* read_all, and the decision flush takes on its result.
ReadAll ==
  /\ pc = "read"
  /\ next' = 0
  /\ \/ /\ FoundInvalidRecords
        /\ pc' = "repair"
        /\ UNCHANGED backoff
     \/ /\ ~FoundInvalidRecords /\ queue = <<>>
        /\ pc' = "post"
        /\ backoff' = 0
     \/ /\ ~FoundInvalidRecords /\ queue # <<>>
        /\ pc' = IF MayFlush THEN "flush" ELSE NotFlushed
        /\ UNCHANGED backoff
  /\ UNCHANGED <<fileVars, current, promised, worldVars, backendVars>>

\* The rewrite of the valid records; the flush then goes on with them.
Repair ==
  /\ pc = "repair"
  /\ tail' = "clean"
  /\ pc' = "read"
  /\ UNCHANGED <<queue, damaged, current, next, backoff, promised, worldVars, backendVars>>

-----------------------------------------------------------------------------
(* flush: the records of the file are posted one after the other.            *)

Flushing == pc = "flush" /\ next < Len(queue)
HeadOfFlush == queue[next + 1]

FlushConfirmed ==
  /\ Flushing
  /\ Confirmed(HeadOfFlush)
  /\ next' = next + 1
  /\ UNCHANGED <<fileVars, pc, current, backoff, promised, worldVars>>

\* An audit record without company context that got a 422 is dropped.
FlushDiscardsLegacy ==
  /\ Flushing
  /\ network = "up"
  /\ HeadOfFlush \in Legacy
  /\ next' = next + 1
  /\ UNCHANGED <<fileVars, pc, current, backoff, promised, worldVars, backendVars>>

FlushDeferred ==
  /\ Flushing
  /\ Unanswered(HeadOfFlush)
  /\ pc' = "rewrite"
  /\ UNCHANGED <<fileVars, current, next, backoff, promised, worldVars>>

\* Any other refusal, and a timeout while the answer is read (which is not a
\* URLError), leave flush by an exception before the file is touched.
FlushRaises ==
  /\ Flushing
  /\ \/ /\ network = "up" /\ Refused(HeadOfFlush) /\ HeadOfFlush \notin Legacy
        /\ UNCHANGED backendVars
     \/ Unanswered(HeadOfFlush)
  /\ pc' = "raise"
  /\ UNCHANGED <<fileVars, current, next, backoff, promised, worldVars>>

\* Everything is disposed of: the file is unlinked.
FlushDone ==
  /\ pc = "flush" /\ next = Len(queue)
  /\ queue' = <<>>
  /\ tail' = "clean"
  /\ pc' = "post"
  /\ next' = 0
  /\ backoff' = 0
  /\ UNCHANGED <<damaged, current, promised, worldVars, backendVars>>

\* Wrong variant, off by one: the record that failed is not written back.
RemainingWithoutFailed == SubSeq(queue, next + 2, Len(queue))

\* replace_all with the record that failed and the ones behind it.
Remaining == SubSeq(queue, next + 1, Len(queue))

RewriteRemaining ==
  /\ pc = "rewrite"
  /\ queue' = Remaining
  /\ tail' = "clean"
  /\ backoff' = Backoff
  /\ pc' = NotFlushed
  /\ next' = 0
  /\ UNCHANGED <<damaged, current, promised, worldVars, backendVars>>

-----------------------------------------------------------------------------
(* The request in hand, once nothing is ahead of it or it must wait.         *)

PostConfirmed ==
  /\ pc = "post" /\ current # None
  /\ Confirmed(current)
  /\ pc' = "return"
  /\ UNCHANGED <<fileVars, current, next, backoff, promised, worldVars>>

PostDeferred ==
  /\ pc = "post" /\ current # None
  /\ Unanswered(current)
  /\ pc' = "append"
  /\ backoff' = Backoff
  /\ UNCHANGED <<fileVars, current, next, promised, worldVars>>

PostRaises ==
  /\ pc = "post" /\ current # None
  /\ \/ network = "up" /\ Refused(current) /\ UNCHANGED backendVars
     \/ Unanswered(current)
  /\ pc' = "raise"
  /\ UNCHANGED <<fileVars, current, next, backoff, promised, worldVars>>

\* The process is gone, and with it everything that is not in the file.
Exits(how) ==
  /\ pc' = how
  /\ current' = None
  /\ next' = 0
  /\ backoff' = 0

\* The exception reaches the command line and ends the process; what it had in
\* hand is neither posted nor in the file.
Raise ==
  /\ pc = "raise"
  /\ Exits("failed")
  /\ UNCHANGED <<fileVars, promised, worldVars, backendVars>>

Enqueue ==
  /\ pc = "append" /\ current # None
  /\ queue' = Append(queue, current)
  /\ promised' = promised \union {current}
  /\ current' = None
  /\ pc' = "idle"
  /\ UNCHANGED <<tail, damaged, next, backoff, worldVars, backendVars>>

Return ==
  /\ pc = "return"
  /\ promised' = promised \union {current}
  /\ current' = None
  /\ pc' = "idle"
  /\ UNCHANGED <<fileVars, next, backoff, worldVars, backendVars>>

\* The call beyond the bound posts or enqueues a request that is not modelled.
ReturnBeyondBound ==
  /\ pc \in {"post", "append"} /\ current = None
  /\ pc' = "idle"
  /\ UNCHANGED <<fileVars, current, next, backoff, promised, worldVars, backendVars>>

-----------------------------------------------------------------------------
(* Crashes, and what the process does not control.                           *)

Running == pc \notin {"down", "failed"}

\* Killed anywhere: what is in the file stays there.
Crash ==
  /\ Running
  /\ Exits("down")
  /\ UNCHANGED <<fileVars, promised, worldVars, backendVars>>

\* Killed inside the append of a record: part of its line is in the file, or
\* all of it but the newline.
CrashInAppend ==
  /\ TornWrites
  /\ pc = "append" /\ current # None
  /\ Exits("down")
  /\ \/ tail' = "torn" /\ UNCHANGED queue
     \/ tail' = "open" /\ queue' = Append(queue, current)
  /\ UNCHANGED <<damaged, promised, worldVars, backendVars>>

\* Killed inside a rewrite: write_text truncates the file and then fills it,
\* so a prefix of the new contents is left and the other records are gone.
CrashInRewrite ==
  /\ TornWrites
  /\ pc \in {"repair", "rewrite"}
  /\ Exits("down")
  /\ \E k \in 0 .. Len(Remaining) :
       /\ queue' = SubSeq(Remaining, 1, k)
       /\ damaged' = damaged \union Contents(SubSeq(Remaining, k + 1, Len(Remaining)))
       /\ \/ tail' = "clean"
          \/ tail' = "open" /\ k > 0
          \/ tail' = "torn" /\ k < Len(Remaining)
  /\ UNCHANGED <<promised, worldVars, backendVars>>

\* The service manager restarts the agent (Restart=always).
Restart ==
  /\ ~Running
  /\ pc' = "idle"
  /\ UNCHANGED <<fileVars, current, next, backoff, promised, worldVars, backendVars>>

Tick ==
  /\ backoff > 0
  /\ backoff' = backoff - 1
  /\ UNCHANGED <<fileVars, pc, current, next, promised, worldVars, backendVars>>

NetworkChanges ==
  /\ network' \in {"up", "down"} \ {network}
  /\ UNCHANGED <<fileVars, processVars, tokenValid, backendVars>>

\* The credential is rotated on one side only, or the agent gets the new one.
TokenChanges ==
  /\ tokenValid' = ~tokenValid
  /\ UNCHANGED <<fileVars, processVars, network, backendVars>>

Init ==
  /\ queue \in {<<>>} \union {<<r>> : r \in Legacy}
  /\ tail = "clean"
  /\ pc = "idle"
  /\ current = None
  /\ next = 0
  /\ backoff = 0
  /\ network = "up"
  /\ tokenValid = TRUE
  /\ linked = TRUE
  /\ received = {}
  /\ promised = {}
  /\ damaged = {}

Call == (\E r \in Requests : PostOrQueue(r)) \/ PostOrQueueBeyondBound

Step ==
  \/ ReadAll \/ Repair
  \/ FlushConfirmed \/ FlushDiscardsLegacy \/ FlushDeferred \/ FlushRaises \/ FlushDone
  \/ RewriteRemaining
  \/ PostConfirmed \/ PostDeferred \/ PostRaises \/ Raise
  \/ Enqueue \/ Return \/ ReturnBeyondBound

Next ==
  \/ Call \/ Step
  \/ Crash \/ CrashInAppend \/ CrashInRewrite \/ Restart
  \/ Tick \/ NetworkChanges \/ TokenChanges

Spec == Init /\ [][Next]_vars

\* The runner calls again at every heartbeat and scan, a call that is running
\* goes on, time passes and the service manager restarts a dead agent.
Fairness ==
  /\ WF_vars(Call)
  /\ WF_vars(Step)
  /\ WF_vars(Restart)
  /\ WF_vars(Tick)

FairSpec == Spec /\ Fairness

-----------------------------------------------------------------------------
(* Properties.                                                               *)

TypeOK ==
  /\ queue \in Seq(Requests)
  /\ tail \in {"clean", "open", "torn"}
  /\ pc \in {"idle", "read", "repair", "flush", "rewrite", "post", "append",
             "return", "raise", "down", "failed"}
  /\ current \in Requests \union {None}
  /\ next \in 0 .. Len(queue)
  /\ backoff \in 0 .. Backoff
  /\ network \in {"up", "down"}
  /\ tokenValid \in BOOLEAN
  /\ linked \in BOOLEAN
  /\ received \in SUBSET Requests
  /\ promised \in SUBSET Requests
  /\ damaged \in SUBSET Requests

\* A call of _post_or_queue that returned normally means that the backend has
\* the request or that the file has it, whatever retries, refusals, lost
\* answers and process deaths follow; only a crash inside a rewrite of the
\* file can break that (agent/docs/agent.md:107-109).
KeptPromise ==
  \A r \in promised : r \in received \/ r \in Contents(queue) \/ r \in damaged

\* enqueue opens the file in append mode and trusts its last line: it never
\* runs on a file whose last line is torn or has no newline, where it would
\* spoil the new record and perhaps the one before.
AppendsToCleanFile == pc = "append" => tail = "clean"

\* What is ahead of a request that is in the file or in hand.
AheadOf(r) ==
  IF r = current THEN Contents(queue)
  ELSE {queue[i] : i \in {j \in DOMAIN queue : \E k \in DOMAIN queue : j < k /\ queue[k] = r}}

\* The backend gets requests for the first time in the order of their capture:
\* nothing overtakes a pending request (agent/docs/agent.md:130).
FirstDeliveryInOrder ==
  [][\A r \in received' \ received : AheadOf(r) \subseteq received \union Legacy]_vars

\* The inductive invariant behind KeptPromise, AppendsToCleanFile and
\* FirstDeliveryInOrder.
QueueInv ==
  /\ \A i, j \in DOMAIN queue : queue[i] = queue[j] => i = j
  /\ current \notin Contents(queue)
  \* The records the backend has are a prefix of the file, and so is what the
  \* running flush has disposed of.
  /\ \A i, j \in DOMAIN queue :
       i < j /\ queue[j] \in received => queue[i] \in received \union Legacy
  /\ \A i \in 1 .. next : queue[i] \in received \union Legacy
  /\ pc \notin {"flush", "rewrite", "raise"} => next = 0
  /\ pc = "rewrite" => next < Len(queue)

HandInv ==
  /\ current # None => Running /\ pc # "idle" /\ current \notin Legacy
  /\ current \in received => queue = <<>>
  /\ pc \in {"post", "return"} => queue = <<>>
  /\ pc = "return" => current \in received
  /\ promised \intersect Legacy = {}

TailInv ==
  /\ tail = "open" => queue # <<>>
  /\ tail # "clean" => backoff = 0 /\ pc \notin {"post", "append", "return"}
  /\ tail = "torn" => pc \notin {"flush", "rewrite"}

IInv == TypeOK /\ QueueInv /\ HandInv /\ TailInv /\ KeptPromise

NoMoreCrashes == <>[][~Crash /\ ~CrashInAppend /\ ~CrashInRewrite]_vars

\* From some point on nothing disturbs the delivery: the backend is reachable
\* and refuses no record of the file, and nobody kills the process.
Calm ==
  /\ <>[](network = "up" /\ \A r \in Contents(queue) \ Legacy : ~Refused(r))
  /\ NoMoreCrashes

\* Once the outage is over, every queued request is delivered, however often
\* the process was killed before (agent/docs/agent.md:109).
EventuallyDelivered ==
  Calm => \A r \in Requests \ Legacy :
            (r \in Contents(queue)) ~> (r \in received \union damaged)

\* The abstract outbox: what is pending is the file and, behind it, the
\* request in hand.
Pending == IF current = None THEN queue ELSE Append(queue, current)

Abstract == INSTANCE OrderedOutbox
              WITH Disposable <- Legacy, pending <- Pending, delivered <- received

\* The queue is an ordered outbox, as long as no crash happens inside a write.
OutboxSpec == Abstract!Outbox

-----------------------------------------------------------------------------
(* What the documentation says and the code does not do.                     *)

\* "Los errores fatales ... no se encolan indefinidamente"
\* (agent/docs/agent.md:136): with a reachable backend and a valid token, a
\* record that was queued and is refused does not stay in the file for ever.
RefusedNotQueuedForever ==
  <>[](network = "up" /\ tokenValid) /\ NoMoreCrashes
    => \A r \in Audit : []<>(r \notin Contents(queue))
=============================================================================
