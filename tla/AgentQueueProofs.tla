--------------------------- MODULE AgentQueueProofs ---------------------------
(***************************************************************************)
(* Theorems about AgentQueue, for all sets of requests and every backoff.   *)
(*                                                                         *)
(* The argument is one inductive invariant, IInv.  QueueInv says that what   *)
(* the backend has of the file is a prefix of it, and that the running       *)
(* flush is inside that prefix; HandInv that the request in hand is new, and *)
(* alone when it is posted; TailInv that a file that does not end cleanly is *)
(* rewritten before anything is appended.  A rewrite may then drop the       *)
(* records the flush disposed of without breaking a promise.                 *)
(***************************************************************************)
EXTENDS AgentQueue, SequenceTheorems, TLAPS

\* The records of the file, by position.
LEMMA ContentsDef ==
  ASSUME NEW S, NEW s \in Seq(S), NEW x
  PROVE  x \in Contents(s) <=> \E i \in 1 .. Len(s) : s[i] = x
BY DEF Contents

\* enqueue puts one line behind the others and leaves them alone.
LEMMA AppendDef ==
  ASSUME NEW S, NEW s \in Seq(S), NEW x \in S
  PROVE  /\ Append(s, x) \in Seq(S)
         /\ Len(Append(s, x)) = Len(s) + 1
         /\ \A i \in 1 .. Len(s) : Append(s, x)[i] = s[i]
         /\ Append(s, x)[Len(s) + 1] = x
OBVIOUS

\* What remains of the file when its first n records are disposed of
\* (remaining_requests of flush).
LEMMA SuffixDef ==
  ASSUME NEW S, NEW s \in Seq(S), NEW n \in 0 .. Len(s)
  PROVE  LET t == SubSeq(s, n + 1, Len(s)) IN
         /\ t \in Seq(S)
         /\ Len(t) = Len(s) - n
         /\ \A i \in 1 .. Len(t) : t[i] = s[n + i]
OBVIOUS

\* What a cut inside a rewrite leaves of the file.
LEMMA PrefixDef ==
  ASSUME NEW S, NEW s \in Seq(S), NEW n \in 0 .. Len(s)
  PROVE  LET t == SubSeq(s, 1, n) IN
         /\ t \in Seq(S)
         /\ Len(t) = n
         /\ \A i \in 1 .. n : t[i] = s[i]
OBVIOUS

\* What a cut leaves and what it takes away make up the whole sequence.
LEMMA CutContents ==
  ASSUME NEW S, NEW s \in Seq(S), NEW k \in 0 .. Len(s)
  PROVE  /\ Contents(SubSeq(s, k + 1, Len(s))) \subseteq S
         /\ \A x \in Contents(s) : \/ x \in Contents(SubSeq(s, 1, k))
                                 \/ x \in Contents(SubSeq(s, k + 1, Len(s)))
<1> DEFINE p == SubSeq(s, 1, k)
           t == SubSeq(s, k + 1, Len(s))
<1>1. /\ p \in Seq(S) /\ Len(p) = k
      /\ \A i \in 1 .. k : p[i] = s[i]
  BY PrefixDef
<1>2. /\ t \in Seq(S) /\ Len(t) = Len(s) - k
      /\ \A i \in 1 .. Len(t) : t[i] = s[k + i]
  BY SuffixDef
<1> HIDE DEF p, t
<1>3. ASSUME NEW x \in Contents(s), x \notin Contents(p)
      PROVE  x \in Contents(t)
  <2>1. PICK i \in 1 .. Len(s) : s[i] = x
    BY ContentsDef
  <2>2. i > k
    BY <1>1, <1>3, <2>1, ContentsDef
  <2>3. i - k \in 1 .. Len(t) /\ t[i - k] = x
    BY <1>2, <2>1, <2>2
  <2> QED
    BY <1>2, <2>3, ContentsDef
<1>4. Contents(t) \subseteq S
  BY <1>2 DEF Contents
<1> QED
  BY <1>3, <1>4 DEF p, t

\* A rewrite of the file keeps every record the flush has not disposed of.
LEMMA RemainingDef ==
  ASSUME IInv
  PROVE  /\ Remaining \in Seq(Requests)
         /\ Len(Remaining) = Len(queue) - next
         /\ \A i \in 1 .. Len(Remaining) : Remaining[i] = queue[next + i]
         /\ \A r \in promised : r \in received \/ r \in Contents(Remaining) \/ r \in damaged
<1>1. /\ Remaining \in Seq(Requests)
      /\ Len(Remaining) = Len(queue) - next
      /\ \A i \in 1 .. Len(Remaining) : Remaining[i] = queue[next + i]
  BY SuffixDef DEF IInv, TypeOK, Remaining
<1>2. ASSUME NEW r \in promised, r \notin received, r \notin damaged
      PROVE  r \in Contents(Remaining)
  <2>1. PICK i \in 1 .. Len(queue) : queue[i] = r
    BY <1>2 DEF IInv, TypeOK, KeptPromise, Contents
  <2>2. ~(i \in 1 .. next)
    BY <1>2, <2>1 DEF IInv, QueueInv, HandInv
  <2>3. i - next \in 1 .. Len(Remaining) /\ Remaining[i - next] = r
    BY <1>1, <2>1, <2>2 DEF IInv, TypeOK
  <2> QED
    BY <1>1, <2>3, ContentsDef
<1> QED BY <1>1, <1>2

\* A new process finds an empty file, or one of an older version.
LEMMA InitIInv == Init => IInv
<1> SUFFICES ASSUME Init PROVE IInv
  OBVIOUS
<1> USE RequestsAssumption DEF Init, Contents
<1>1. CASE queue = <<>>
  BY <1>1, BackoffAssumption DEF IInv, TypeOK, QueueInv, HandInv, TailInv, KeptPromise, Running
<1>2. ASSUME NEW r \in Legacy, queue = <<r>> PROVE IInv
  <2>1. queue \in Seq(Requests) /\ Len(queue) = 1 /\ queue[1] = r
    BY <1>2 DEF Requests
  <2>2. TypeOK
    BY <2>1, BackoffAssumption DEF TypeOK
  <2>3. QueueInv
    BY <2>1 DEF QueueInv, Requests
  <2> QED
    BY <2>1, <2>2, <2>3 DEF IInv, HandInv, TailInv, KeptPromise, Running
<1> QED BY <1>1, <1>2 DEF Init

\* A call of _post_or_queue that begins keeps the invariant.
LEMMA CallIInv == IInv /\ Call => IInv'
<1> SUFFICES ASSUME IInv, Call PROVE IInv'
  OBVIOUS
<1> USE RequestsAssumption DEF Contents
<1>1. ASSUME NEW r \in Requests, PostOrQueue(r) PROVE IInv'
  BY <1>1 DEF PostOrQueue, InHand, IInv, TypeOK, QueueInv, HandInv, TailInv, KeptPromise, worldVars, Running
<1>2. CASE PostOrQueueBeyondBound
  BY <1>2 DEF PostOrQueueBeyondBound, IInv, TypeOK, QueueInv, HandInv, TailInv, KeptPromise,
     worldVars, backendVars, fileVars, Running
<1> QED BY <1>1, <1>2 DEF Call

\* A request the backend may have committed leaves its state well typed.
LEMMA BackendType ==
  ASSUME TypeOK, NEW r \in Requests, BackendCommits(r) \/ UNCHANGED backendVars
  PROVE  linked' \in BOOLEAN /\ received' \in SUBSET Requests
<1>1. CASE BackendCommits(r)
  <2>1. linked' \in BOOLEAN
    BY <1>1, Zenon DEF BackendCommits
  <2> QED BY <1>1, <2>1 DEF BackendCommits, TypeOK
<1>2. CASE UNCHANGED backendVars
  BY <1>2 DEF backendVars, TypeOK
<1> QED BY <1>1, <1>2

\* So does a request without an answer.
LEMMA UnansweredType ==
  ASSUME TypeOK, NEW r \in Requests, Unanswered(r)
  PROVE  linked' \in BOOLEAN /\ received' \in SUBSET Requests
BY BackendType DEF Unanswered

\* The record the flush is about to post is one of the file.
LEMMA HeadInFile == IInv /\ Flushing => HeadOfFlush \in Requests
BY DEF IInv, TypeOK, Flushing, HeadOfFlush

\* Every step of a running call, of its flush and of its file operations keeps
\* the invariant.
LEMMA StepIInv == IInv /\ Step => IInv'
<1> SUFFICES ASSUME IInv, Step PROVE IInv'
  OBVIOUS
<1> USE RequestsAssumption, BackoffAssumption DEF Contents, fileVars, worldVars, backendVars, Running,
     IInv, TypeOK, QueueInv, HandInv, TailInv, KeptPromise
<1>1. CASE ReadAll
  BY <1>1 DEF ReadAll, FoundInvalidRecords, MayFlush, NotFlushed
<1>2. CASE Repair
  BY <1>2 DEF Repair
<1>3. CASE FlushConfirmed
  BY <1>3 DEF FlushConfirmed, Flushing, HeadOfFlush, Confirmed, Refused, BackendCommits
<1>4. CASE FlushDiscardsLegacy
  BY <1>4 DEF FlushDiscardsLegacy, Flushing, HeadOfFlush
<1>5. CASE FlushDeferred
  <2>1. TypeOK'
    BY <1>5, HeadInFile, UnansweredType DEF FlushDeferred
  <2>2. QueueInv'
    BY <1>5 DEF FlushDeferred, Flushing, HeadOfFlush, Unanswered, Refused, BackendCommits
  <2>3. HandInv'
    BY <1>5 DEF FlushDeferred, Flushing, HeadOfFlush, Unanswered, Refused, BackendCommits
  <2>4. TailInv'
    BY <1>5 DEF FlushDeferred, Flushing, HeadOfFlush, Unanswered, Refused, BackendCommits
  <2>5. KeptPromise'
    BY <1>5 DEF FlushDeferred, Flushing, HeadOfFlush, Unanswered, Refused, BackendCommits
  <2> QED
    BY <2>1, <2>2, <2>3, <2>4, <2>5
<1>6. CASE FlushRaises
  <2>1. TypeOK'
    BY <1>6, HeadInFile, UnansweredType DEF FlushRaises
  <2>2. QueueInv'
    BY <1>6 DEF FlushRaises, Flushing, HeadOfFlush, Unanswered, Refused, BackendCommits
  <2>3. HandInv'
    BY <1>6 DEF FlushRaises, Flushing, HeadOfFlush, Unanswered, Refused, BackendCommits
  <2>4. TailInv'
    BY <1>6 DEF FlushRaises, Flushing, HeadOfFlush, Unanswered, Refused, BackendCommits
  <2>5. KeptPromise'
    BY <1>6 DEF FlushRaises, Flushing, HeadOfFlush, Unanswered, Refused, BackendCommits
  <2> QED
    BY <2>1, <2>2, <2>3, <2>4, <2>5
<1>7. CASE FlushDone
  BY <1>7 DEF FlushDone
<1>8. CASE RewriteRemaining
  <2>1. TypeOK'
    BY <1>8, SuffixDef DEF RewriteRemaining, Remaining, NotFlushed
  <2>2. QueueInv'
    BY <1>8, SuffixDef DEF RewriteRemaining, Remaining, NotFlushed
  <2>3. HandInv'
    BY <1>8, SuffixDef DEF RewriteRemaining, Remaining, NotFlushed
  <2>4. TailInv'
    BY <1>8, SuffixDef DEF RewriteRemaining, Remaining, NotFlushed
  <2>5. KeptPromise'
    BY <1>8, RemainingDef DEF RewriteRemaining
  <2> QED
    BY <2>1, <2>2, <2>3, <2>4, <2>5
<1>9. CASE PostConfirmed
  BY <1>9 DEF PostConfirmed, Confirmed, BackendCommits
<1>10. CASE PostDeferred
  <2>1. TypeOK'
    BY <1>10, UnansweredType DEF PostDeferred
  <2>2. QueueInv'
    BY <1>10 DEF PostDeferred, Unanswered, BackendCommits
  <2>3. HandInv'
    BY <1>10 DEF PostDeferred, Unanswered, BackendCommits
  <2>4. TailInv'
    BY <1>10 DEF PostDeferred, Unanswered, BackendCommits
  <2>5. KeptPromise'
    BY <1>10 DEF PostDeferred, Unanswered, BackendCommits
  <2> QED
    BY <2>1, <2>2, <2>3, <2>4, <2>5
<1>11. CASE PostRaises
  BY <1>11 DEF PostRaises, Unanswered, BackendCommits
<1>12. CASE Raise
  BY <1>12 DEF Raise, Exits
<1>13. CASE Enqueue
  BY <1>13, AppendDef DEF Enqueue
<1>14. CASE Return
  BY <1>14 DEF Return
<1>15. CASE ReturnBeyondBound
  BY <1>15 DEF ReturnBeyondBound
<1> QED
  BY <1>1, <1>2, <1>3, <1>4, <1>5, <1>6, <1>7, <1>8, <1>9, <1>10, <1>11, <1>12, <1>13, <1>14, <1>15 DEF Step

\* So do crashes, restarts, the passing of time, and changes of the network and
\* of the token.
LEMMA EnvironmentIInv ==
  IInv /\ (Crash \/ CrashInAppend \/ CrashInRewrite \/ Restart \/ Tick \/ NetworkChanges
          \/ TokenChanges)
    => IInv'
<1> SUFFICES ASSUME IInv,
                    Crash \/ CrashInAppend \/ CrashInRewrite \/ Restart \/ Tick
                      \/ NetworkChanges \/ TokenChanges
             PROVE  IInv'
  OBVIOUS
<1> USE RequestsAssumption, BackoffAssumption DEF Contents, fileVars, worldVars, backendVars,
     processVars, Running, IInv, TypeOK, QueueInv, HandInv, TailInv, KeptPromise
<1>1. CASE Crash
  BY <1>1 DEF Crash, Exits
<1>2. CASE CrashInAppend
  BY <1>2, AppendDef DEF CrashInAppend, Exits
<1>3. CASE CrashInRewrite
  <2>1. PICK k \in 0 .. Len(Remaining) :
          /\ queue' = SubSeq(Remaining, 1, k)
          /\ damaged' = damaged \union Contents(SubSeq(Remaining, k + 1, Len(Remaining)))
          /\ \/ tail' = "clean"
             \/ tail' = "open" /\ k > 0
             \/ tail' = "torn" /\ k < Len(Remaining)
    BY <1>3 DEF CrashInRewrite
  <2>2. /\ queue' \in Seq(Requests)
        /\ Len(queue') = k
        /\ \A i \in 1 .. k : queue'[i] = queue[next + i]
    BY <2>1, PrefixDef, RemainingDef
  <2>3. /\ \A r \in Contents(Remaining) : r \in Contents(queue') \/ r \in damaged'
        /\ damaged' \in SUBSET Requests
    <3> HIDE DEF Contents
    <3>1. Remaining \in Seq(Requests)
      BY RemainingDef
    <3>2. /\ Contents(SubSeq(Remaining, k + 1, Len(Remaining))) \subseteq Requests
          /\ \A r \in Contents(Remaining) :
               \/ r \in Contents(SubSeq(Remaining, 1, k))
               \/ r \in Contents(SubSeq(Remaining, k + 1, Len(Remaining)))
      BY <3>1, CutContents
    <3>3. damaged \in SUBSET Requests
      OBVIOUS
    <3> QED
      BY <2>1, <3>2, <3>3
  <2>4. TypeOK'
    BY <1>3, <2>1, <2>2, <2>3 DEF CrashInRewrite, Exits
  <2>5. QueueInv'
    <3>1. /\ current' = None /\ next' = 0 /\ pc' = "down" /\ received' = received
          /\ DOMAIN queue' = 1 .. k
      BY <1>3, <2>2 DEF CrashInRewrite, Exits
    <3>2. \A i \in 1 .. k : next + i \in DOMAIN queue
      BY RemainingDef
    <3>3. \A i, j \in 1 .. k : next + i = next + j => i = j
      OBVIOUS
    <3>4. \A i, j \in 1 .. k : queue'[i] = queue'[j] => i = j
      BY <2>2, <3>2, <3>3
    <3>5. \A i, j \in 1 .. k :
            i < j /\ queue'[j] \in received => queue'[i] \in received \union Legacy
      <4> TAKE i, j \in 1 .. k
      <4>1. i < j => next + i < next + j
        OBVIOUS
      <4> QED
        BY <2>2, <3>2, <4>1
    <3>6. None \notin Contents(queue')
      BY <2>2
    <3> QED
      BY <3>1, <3>4, <3>5, <3>6
  <2>6. HandInv' /\ TailInv'
    <3>1. queue' # <<>> \/ k = 0
      BY <2>2
    <3>2. current' = None /\ backoff' = 0 /\ pc' = "down" /\ promised' = promised
          /\ received' = received
      BY <1>3 DEF CrashInRewrite, Exits
    <3> QED
      BY <2>1, <3>1, <3>2
  <2>7. KeptPromise'
    BY <1>3, <2>1, <2>3, RemainingDef DEF CrashInRewrite
  <2> QED
    BY <2>4, <2>5, <2>6, <2>7
<1>4. CASE Restart
  BY <1>4 DEF Restart
<1>5. CASE Tick
  BY <1>5 DEF Tick
<1>6. CASE NetworkChanges
  BY <1>6 DEF NetworkChanges
<1>7. CASE TokenChanges
  BY <1>7 DEF TokenChanges
<1> QED
  BY <1>1, <1>2, <1>3, <1>4, <1>5, <1>6, <1>7

\* The invariant of the queue holds in every state: every call, retry, refusal
\* and crash of the agent preserves it.
THEOREM QueueInvariance == Spec => []IInv
<1>1. IInv /\ UNCHANGED vars => IInv'
  BY DEF vars, IInv, TypeOK, QueueInv, HandInv, TailInv, KeptPromise, Contents, Running
<1>2. IInv /\ [Next]_vars => IInv'
  BY <1>1, CallIInv, StepIInv, EnvironmentIInv DEF Next
<1> QED
  BY InitIInv, <1>2, PTL DEF Spec

\* The values the program keeps are of their types, for any set of requests.
THEOREM TypeCorrect == Spec => []TypeOK
<1>1. IInv => TypeOK
  BY DEF IInv
<1> QED BY QueueInvariance, <1>1, PTL

\* A call that returned normally is backed by the backend or by the file.
THEOREM PromisesKept == Spec => []KeptPromise
<1>1. IInv => KeptPromise
  BY DEF IInv
<1> QED BY QueueInvariance, <1>1, PTL

\* No record is ever appended to a torn or unterminated line.
THEOREM CleanAppends == Spec => []AppendsToCleanFile
<1>1. IInv => AppendsToCleanFile
  BY DEF IInv, TypeOK, TailInv, AppendsToCleanFile
<1> QED BY QueueInvariance, <1>1, PTL

-----------------------------------------------------------------------------
(* The order of first deliveries.                                            *)

\* The backend gets a request it did not have only from the running flush, at
\* its position, or from the call itself, with an empty file.
LEMMA NewlyReceived ==
  ASSUME IInv, Next, NEW r \in received' \ received
  PROVE  \/ Flushing /\ r = HeadOfFlush
         \/ pc = "post" /\ r = current
<1>1. ASSUME Call PROVE FALSE
  BY <1>1 DEF Call, PostOrQueue, PostOrQueueBeyondBound, backendVars
<1>2. ASSUME Step PROVE (Flushing /\ r = HeadOfFlush) \/ (pc = "post" /\ r = current)
  <2>1. CASE FlushConfirmed \/ FlushDeferred \/ FlushRaises
    <3>1. Flushing /\ (BackendCommits(HeadOfFlush) \/ UNCHANGED backendVars)
      BY <2>1 DEF FlushConfirmed, FlushDeferred, FlushRaises, Confirmed, Unanswered
    <3>2. received' = received \union {HeadOfFlush} \/ received' = received
      BY <3>1 DEF BackendCommits, backendVars
    <3> QED BY <3>1, <3>2
  <2>2. CASE PostConfirmed \/ PostDeferred \/ PostRaises
    BY <2>2 DEF PostConfirmed, PostDeferred, PostRaises, Confirmed, Unanswered, BackendCommits,
       backendVars
  <2>3. CASE ReadAll \/ Repair \/ FlushDiscardsLegacy \/ FlushDone \/ RewriteRemaining
    BY <2>3 DEF ReadAll, Repair, FlushDiscardsLegacy, FlushDone, RewriteRemaining, backendVars
  <2>4. CASE Raise \/ Enqueue \/ Return \/ ReturnBeyondBound
    BY <2>4 DEF Raise, Enqueue, Return, ReturnBeyondBound, backendVars
  <2> QED BY <1>2, <2>1, <2>2, <2>3, <2>4 DEF Step
<1>3. ASSUME Crash \/ CrashInAppend \/ CrashInRewrite \/ Restart \/ Tick \/ NetworkChanges
               \/ TokenChanges
      PROVE FALSE
  BY <1>3 DEF Crash, CrashInAppend, CrashInRewrite, Restart, Tick, NetworkChanges, TokenChanges,
     backendVars
<1> QED BY <1>1, <1>2, <1>3 DEF Next

\* Requests reach the backend for the first time in the order of capture.
THEOREM DeliveryInOrder == Spec => FirstDeliveryInOrder
<1>1. ASSUME IInv, Next, NEW r \in received' \ received
      PROVE  AheadOf(r) \subseteq received \union Legacy
  <2>1. CASE pc = "post" /\ r = current
    BY <1>1, <2>1 DEF AheadOf, IInv, HandInv, Contents
  <2>2. CASE Flushing /\ r = HeadOfFlush
    <3>1. next + 1 \in DOMAIN queue /\ queue[next + 1] = r
      BY <1>1, <2>2 DEF IInv, TypeOK, Flushing, HeadOfFlush
    <3>2. r # current
      BY <1>1, <3>1 DEF IInv, QueueInv, Contents
    <3>3. ASSUME NEW j \in DOMAIN queue, NEW k \in DOMAIN queue, j < k, queue[k] = r
          PROVE  queue[j] \in received \union Legacy
      <4>1. k = next + 1
        BY <1>1, <3>1, <3>3 DEF IInv, QueueInv
      <4>2. j \in 1 .. next
        BY <1>1, <3>3, <4>1 DEF IInv, TypeOK
      <4> QED BY <1>1, <4>2 DEF IInv, QueueInv
    <3> QED BY <3>2, <3>3 DEF AheadOf
  <2> QED BY <1>1, <2>1, <2>2, NewlyReceived
<1>2. IInv /\ [Next]_vars
        => [\A r \in received' \ received : AheadOf(r) \subseteq received \union Legacy]_vars
  BY <1>1
<1> QED
  BY QueueInvariance, <1>2, PTL DEF Spec, FirstDeliveryInOrder

-----------------------------------------------------------------------------
(* The refinement of the ordered outbox.                                     *)

\* The queue starts as an outbox with nothing delivered.
LEMMA InitOutbox == Init => Abstract!OutboxInit
BY DEF Init, Abstract!OutboxInit, Pending

\* What is pending: the records of the file and then the request in hand.
LEMMA PendingDef ==
  ASSUME IInv
  PROVE  /\ Pending \in Seq(Requests)
         /\ Len(Pending) = Len(queue) + (IF current = None THEN 0 ELSE 1)
         /\ \A i \in 1 .. Len(queue) : Pending[i] = queue[i]
         /\ current # None => Pending[Len(queue) + 1] = current
BY AppendDef DEF IInv, TypeOK, Pending

\* Two sequences with the same elements at the same places are equal.
LEMMA SamePending ==
  ASSUME NEW s \in Seq(Requests), NEW t \in Seq(Requests), Len(s) = Len(t),
         \A i \in 1 .. Len(s) : s[i] = t[i]
  PROVE  s = t
BY SeqEqual

\* A POST of a record of the file that the backend may have committed.
LEMMA FlushPost ==
  ASSUME IInv, Flushing, UNCHANGED Pending,
         BackendCommits(HeadOfFlush) \/ UNCHANGED backendVars
  PROVE  [Abstract!OutboxNext]_Abstract!outboxVars
<1>1. CASE BackendCommits(HeadOfFlush)
  <2>1. next + 1 \in 1 .. Len(Pending) /\ Pending[next + 1] = HeadOfFlush
    BY PendingDef DEF IInv, TypeOK, Flushing, HeadOfFlush
  <2>2. \A j \in 1 .. (next + 1) - 1 : Abstract!Settled(Pending[j])
    BY PendingDef DEF IInv, TypeOK, QueueInv, Flushing, Abstract!Settled
  <2>3. Abstract!Deliver(next + 1)
    BY <1>1, <2>1, <2>2 DEF Abstract!Deliver, BackendCommits
  <2> QED BY <2>1, <2>3 DEF Abstract!OutboxNext
<1>2. CASE UNCHANGED backendVars
  BY <1>2 DEF backendVars, Abstract!outboxVars
<1> QED BY <1>1, <1>2

\* The same for the request in hand, which is alone.
LEMMA HandPost ==
  ASSUME IInv, pc = "post", current # None, UNCHANGED Pending,
         BackendCommits(current) \/ UNCHANGED backendVars
  PROVE  [Abstract!OutboxNext]_Abstract!outboxVars
<1>1. CASE BackendCommits(current)
  <2>1. Len(Pending) = 1 /\ Pending[1] = current
    BY PendingDef DEF IInv, HandInv
  <2>2. Abstract!Deliver(1)
    BY <1>1, <2>1 DEF Abstract!Deliver, BackendCommits
  <2> QED BY <2>1, <2>2 DEF Abstract!OutboxNext
<1>2. CASE UNCHANGED backendVars
  BY <1>2 DEF backendVars, Abstract!outboxVars
<1> QED BY <1>1, <1>2

\* Losing the request in hand gives up the newest pending request.
LEMMA ExitOutbox ==
  ASSUME IInv, current' = None, UNCHANGED <<queue, received>>
  PROVE  [Abstract!OutboxNext]_Abstract!outboxVars
<1>1. CASE current = None
  BY <1>1 DEF Pending, Abstract!outboxVars
<1>2. CASE current # None
  <2>1. Pending # <<>> /\ Len(Pending) - 1 = Len(queue)
    BY <1>2, PendingDef DEF IInv, TypeOK
  <2>2. SubSeq(Pending, 1, Len(Pending) - 1) = queue
    <3> DEFINE p == SubSeq(Pending, 1, Len(queue))
    <3>1. p \in Seq(Requests) /\ Len(p) = Len(queue) /\ \A i \in 1 .. Len(queue) : p[i] = queue[i]
      BY PendingDef, PrefixDef DEF IInv, TypeOK
    <3>2. queue \in Seq(Requests)
      BY DEF IInv, TypeOK
    <3> HIDE DEF p
    <3>3. p = queue
      BY <3>1, <3>2, SamePending
    <3> QED BY <2>1, <3>3 DEF p
  <2>3. Pending' = queue
    BY DEF Pending
  <2> QED
    BY <2>1, <2>2, <2>3 DEF Abstract!OutboxNext, Abstract!Abandon
<1> QED BY <1>1, <1>2

\* Taking the first k records out of the file forgets the oldest k requests.
LEMMA ForgetPrefix ==
  ASSUME IInv, IInv', NEW k \in 0 .. Len(queue),
         \A i \in 1 .. k : queue[i] \in received \union Legacy,
         Len(queue') = Len(queue) - k,
         \A i \in 1 .. Len(queue') : queue'[i] = queue[k + i],
         UNCHANGED <<current, received>>
  PROVE  [Abstract!OutboxNext]_Abstract!outboxVars
<1> DEFINE rest == SubSeq(Pending, k + 1, Len(Pending))
<1>1. /\ k <= Len(Pending)
      /\ rest \in Seq(Requests) /\ Len(rest) = Len(Pending) - k
      /\ \A i \in 1 .. Len(rest) : rest[i] = Pending[k + i]
  BY PendingDef, SuffixDef DEF IInv, TypeOK
<1>2. /\ Pending' \in Seq(Requests)
      /\ Len(Pending') = Len(queue') + (IF current = None THEN 0 ELSE 1)
      /\ \A i \in 1 .. Len(queue') : Pending'[i] = queue'[i]
      /\ current # None => Pending'[Len(queue') + 1] = current
  BY AppendDef DEF IInv, TypeOK, Pending
<1> HIDE DEF rest
<1>3. Len(Pending') = Len(rest)
  BY <1>1, <1>2, PendingDef DEF IInv, TypeOK
<1>4. ASSUME NEW i \in 1 .. Len(rest) PROVE Pending'[i] = rest[i]
  <2>1. CASE i <= Len(queue')
    <3>1. i \in 1 .. Len(queue') /\ k + i \in 1 .. Len(queue)
      BY <1>1, <2>1, PendingDef DEF IInv, TypeOK
    <3>2. Pending'[i] = queue[k + i]
      BY <1>2, <3>1
    <3> QED BY <1>1, <3>1, <3>2, PendingDef
  <2>2. CASE i > Len(queue')
    <3>1. Len(queue) \in Nat /\ Len(queue') \in Nat
      BY DEF IInv, TypeOK
    <3>2. i \in Nat /\ i <= Len(queue') + (IF current = None THEN 0 ELSE 1)
      BY <1>1, <1>2, <1>3
    <3>3. current # None /\ i = Len(queue') + 1
      BY <2>2, <3>1, <3>2
    <3>4. k + i = Len(queue) + 1
      BY <3>1, <3>3
    <3> QED BY <1>1, <1>2, <3>3, <3>4, PendingDef
  <2> QED BY <2>1, <2>2, <1>2 DEF IInv, TypeOK
<1>5. Pending' = rest
  BY <1>1, <1>2, <1>3, <1>4, SamePending
<1>6. CASE k = 0
  <2>1. rest = Pending
    BY <1>1, <1>6, PendingDef, SamePending
  <2> QED BY <1>5, <2>1 DEF Abstract!outboxVars
<1>7. CASE k > 0
  <2>1. k \in 1 .. Len(Pending)
    BY <1>1, <1>7, PendingDef
  <2>2. \A j \in 1 .. k : Abstract!Settled(Pending[j])
    <3> TAKE j \in 1 .. k
    <3>1. j \in 1 .. Len(queue)
      BY DEF IInv, TypeOK
    <3>2. Pending[j] = queue[j]
      BY <3>1, PendingDef
    <3> QED BY <3>2 DEF Abstract!Settled
  <2> QED BY <1>5, <2>1, <2>2 DEF rest, Abstract!Forget, Abstract!OutboxNext
<1> QED BY <1>6, <1>7

\* Every step of a running call delivers a pending request, forgets settled ones,
\* gives up the newest one, or changes nothing the outbox shows.
LEMMA StepOutbox ==
  ASSUME IInv, IInv', Step
  PROVE  [Abstract!OutboxNext]_Abstract!outboxVars
<1> USE DEF fileVars, worldVars, backendVars
<1>1. CASE ReadAll \/ Repair \/ FlushDiscardsLegacy \/ ReturnBeyondBound
  BY <1>1 DEF ReadAll, Repair, FlushDiscardsLegacy, ReturnBeyondBound, Pending, Abstract!outboxVars
<1>2. CASE FlushConfirmed
  BY <1>2, FlushPost DEF FlushConfirmed, Confirmed, Pending
<1>3. CASE FlushDeferred \/ FlushRaises
  BY <1>3, FlushPost DEF FlushDeferred, FlushRaises, Unanswered, Pending
<1>4. CASE FlushDone
  BY <1>4, ForgetPrefix DEF FlushDone, IInv, TypeOK, QueueInv
<1>5. CASE RewriteRemaining
  <2>1. /\ Len(queue') = Len(queue) - next
        /\ \A i \in 1 .. Len(queue') : queue'[i] = queue[next + i]
    BY <1>5, RemainingDef DEF RewriteRemaining
  <2> QED
    BY <1>5, <2>1, ForgetPrefix DEF RewriteRemaining, IInv, TypeOK, QueueInv
<1>6. CASE PostConfirmed \/ PostDeferred \/ PostRaises
  BY <1>6, HandPost DEF PostConfirmed, PostDeferred, PostRaises, Confirmed, Unanswered, Pending
<1>7. CASE Raise
  BY <1>7, ExitOutbox DEF Raise, Exits
<1>8. CASE Enqueue
  BY <1>8 DEF Enqueue, Pending, Abstract!outboxVars
<1>9. CASE Return
  <2>1. Pending = <<current>> /\ Pending' = <<>> /\ current \in received
    BY <1>9, RequestsAssumption DEF Return, Pending, IInv, HandInv, TypeOK
  <2>2. Abstract!Forget(1)
    BY <1>9, <2>1 DEF Return, Abstract!Forget, Abstract!Settled
  <2> QED BY <2>1, <2>2 DEF Abstract!OutboxNext
<1> QED
  BY <1>1, <1>2, <1>3, <1>4, <1>5, <1>6, <1>7, <1>8, <1>9 DEF Step

\* A new call captures its request; a crash that does not cut a write gives up at
\* most the newest request.
LEMMA OtherOutbox ==
  ASSUME IInv, IInv', ~TornWrites,
         Call \/ Crash \/ CrashInAppend \/ CrashInRewrite \/ Restart \/ Tick
           \/ NetworkChanges \/ TokenChanges
  PROVE  [Abstract!OutboxNext]_Abstract!outboxVars
<1> USE DEF fileVars, processVars, worldVars, backendVars
<1>1. ASSUME NEW r \in Requests, PostOrQueue(r)
      PROVE  [Abstract!OutboxNext]_Abstract!outboxVars
  <2>1. Pending = queue
    BY <1>1 DEF PostOrQueue, IInv, HandInv, Pending
  <2>2. Pending' = Append(queue, r)
    BY <1>1, RequestsAssumption DEF PostOrQueue, Pending
  <2>3. r \notin Abstract!Contents(Pending)
    BY <1>1, <2>1 DEF PostOrQueue, InHand, Contents, Abstract!Contents
  <2> QED
    BY <1>1, <2>1, <2>2, <2>3 DEF PostOrQueue, Abstract!Capture, Abstract!OutboxNext
<1>2. CASE PostOrQueueBeyondBound \/ Restart \/ Tick \/ NetworkChanges \/ TokenChanges
  BY <1>2 DEF PostOrQueueBeyondBound, Restart, Tick, NetworkChanges, TokenChanges, Pending,
     Abstract!outboxVars
<1>3. CASE Crash
  BY <1>3, ExitOutbox DEF Crash, Exits
<1>4. CASE CrashInAppend \/ CrashInRewrite
  BY <1>4 DEF CrashInAppend, CrashInRewrite
<1> QED
  BY <1>1, <1>2, <1>3, <1>4 DEF Call

\* Without crashes inside a write of the file, the queue is an ordered outbox.
THEOREM QueueIsOutbox == ASSUME ~TornWrites PROVE Spec => OutboxSpec
<1>1. IInv /\ IInv' /\ [Next]_vars => [Abstract!OutboxNext]_Abstract!outboxVars
  <2>1. CASE Next
    BY <2>1, StepOutbox, OtherOutbox DEF Next
  <2>2. CASE UNCHANGED vars
    BY <2>2 DEF vars, Pending, Abstract!outboxVars
  <2> QED BY <2>1, <2>2
<1> QED
  BY InitOutbox, QueueInvariance, <1>1, PTL DEF Spec, OutboxSpec, Abstract!Outbox
=============================================================================
