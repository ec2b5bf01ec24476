---------------------------- MODULE OrderedOutbox ----------------------------
(***************************************************************************)
(* What the agent's local queue promises to the code that reports audit    *)
(* evidence, with no file, no retry loop and no process in it: captured     *)
(* requests wait in the order of their capture, the backend gets them for   *)
(* the first time in that order, and one is forgotten only once the backend *)
(* has it.  The only exception is the newest request, whose caller may still *)
(* be told that the call failed.                                            *)
(*                                                                         *)
(* AgentQueue implements this specification (AgentQueue!OutboxSpec).        *)
(***************************************************************************)
EXTENDS Naturals, Sequences

CONSTANTS
  Requests,     \* every request that can be captured
  Disposable    \* the ones that may be forgotten without being delivered

VARIABLES
  pending,      \* captured requests not yet forgotten, oldest first
  delivered     \* requests the backend has committed since their capture

outboxVars == <<pending, delivered>>

Contents(s) == {s[i] : i \in DOMAIN s}

Settled(r) == r \in delivered \/ r \in Disposable

OutboxInit ==
  /\ pending \in {<<>>} \union {<<r>> : r \in Disposable}
  /\ delivered = {}

\* A caller hands over a request; an older delivery of an equal request does
\* not count for this capture.
Capture(r) ==
  /\ r \notin Contents(pending)
  /\ pending' = Append(pending, r)
  /\ delivered' = delivered \ {r}

\* The backend gets the i-th pending request, possibly again.
Deliver(i) ==
  /\ \A j \in 1 .. i - 1 : Settled(pending[j])
  /\ delivered' = delivered \union {pending[i]}
  /\ UNCHANGED pending

\* The oldest k requests are forgotten: all of them are settled.
Forget(k) ==
  /\ \A j \in 1 .. k : Settled(pending[j])
  /\ pending' = SubSeq(pending, k + 1, Len(pending))
  /\ UNCHANGED delivered

\* The newest request is given up: its caller got an exception, or died.
Abandon ==
  /\ pending # <<>>
  /\ pending' = SubSeq(pending, 1, Len(pending) - 1)
  /\ UNCHANGED delivered

OutboxNext ==
  \/ \E r \in Requests : Capture(r)
  \/ \E i \in 1 .. Len(pending) : Deliver(i)
  \/ \E k \in 1 .. Len(pending) : Forget(k)
  \/ Abandon

Outbox == OutboxInit /\ [][OutboxNext]_outboxVars
=============================================================================
