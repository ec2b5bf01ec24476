-------------------------- MODULE AuditorAccessProofs --------------------------
(***************************************************************************)
(* Theorems about AuditorAccess, for any workers, devices, companies,        *)
(* addresses, limits and lifetimes.                                          *)
(*                                                                         *)
(* verify_auditor_access.py reads its request without a lock and writes it    *)
(* back as it was read.  What makes that sound is the credential: the calls   *)
(* of one device follow one another (CallsApart), and a request is verified   *)
(* by its own device only, so the row that a transaction has read is still    *)
(* the committed one when it is written (RowsAreTrue).  A session is then opened *)
(* by a request that waits, which it decides.  The limits are looked up before   *)
(* anything is saved: the calls in between count with the saved requests         *)
(* (LimitInv).                                                                   *)
(***************************************************************************)
EXTENDS AuditorAccess, FiniteSetTheorems, SequenceTheorems, TLAPS

-----------------------------------------------------------------------------
(* The inductive invariant.                                                  *)

\* Two calls that are past the check of their token are of different devices.
CallsApart ==
  \A v, w \in Workers :
    txn[v] # Idle /\ txn[w] # Idle /\ txn[v].device = txn[w].device => v = w

\* The request that a verification has read still waits, as it was read, and what
\* is about to be written is one of the outcomes of Verified.
RowIsTrue(t) ==
  LET row == requests[t.request]
  IN /\ row.status = "PENDING" /\ row.company = t.company /\ row.device = t.device
     /\ row.at <= t.at
     /\ \/ t.row = [row EXCEPT !.status = "EXPIRED"]
        \/ t.row = [row EXCEPT !.status = "VERIFIED"] /\ t.at <= row.at + OtpTtl
        \/ t.row = RegisterFailedAttempt(row)

RowsAreTrue == \A w \in Workers : txn[w].step = "save" => RowIsTrue(txn[w])

RequestsArePast == \A i \in RequestIds : requests[i].at <= now

FailuresAreCounted ==
  \A i \in RequestIds :
    /\ requests[i].failed = OfRequest("FAILED", i)
    /\ requests[i].status = "DENIED" <=> requests[i].failed = MaxFailed

\* Sessions and verified requests correspond to each other, one to one.
SessionIsVerified(s) ==
  LET row == requests[sessions[s].request]
  IN /\ row.status = "VERIFIED"
     /\ row.company = sessions[s].company /\ row.device = sessions[s].device
     /\ row.at <= sessions[s].at /\ sessions[s].at <= row.at + OtpTtl

SessionsMatchRequests ==
  /\ \A s \in SessionIds : SessionIsVerified(s)
  /\ \A r, s \in SessionIds : sessions[r].request = sessions[s].request => r = s
  /\ \A i \in RequestIds : requests[i].status = "VERIFIED" =>
       \E s \in SessionIds : sessions[s].request = i

FilesAreOwn == \A d \in Devices : file[d] # Nothing => sessions[file[d]].device = d

\* Equal events have the numbers below their count, so the next number is free.
EventsAreNumbered == \A r \in events : r.n < Cardinality(Equals(events, r.event))

IInv ==
  /\ TypeOK /\ EventsAreNumbered /\ CallsApart /\ RowsAreTrue /\ RequestsArePast
  /\ FailuresAreCounted /\ SessionsMatchRequests /\ FilesAreOwn

-----------------------------------------------------------------------------
(* The operators of the model.                                               *)

Copies(e) == Cardinality(Equals(events, e))

\* The table has the new events too, and is a finite table of numbered events.
EventsGrow(new) ==
  /\ EventsAreNumbered' /\ IsFiniteSet(events')
  /\ events' \subseteq events \union [event : new, n : Nat]

\* Adds puts one more copy of each new event into the table.
LEMMA AddsDef ==
  ASSUME TypeOK, EventsAreNumbered, NEW new, IsFiniteSet(new), Adds(new)
  PROVE  /\ EventsGrow(new)
         /\ \A e : Copies(e) \in Nat /\ Copies(e)' = Copies(e) + IF e \in new THEN 1 ELSE 0
<1>0. IsFiniteSet(events) /\ \A r \in events : r.n \in Nat
  BY DEF TypeOK, AreRows
<1>1. PICK row : row = [e \in new |-> [event |-> e, n |-> Cardinality(Equals(events, e))]]
  OBVIOUS
<1>2. /\ events' = events \union {row[e] : e \in new}
      /\ \A e \in new : row[e].event = e /\ row[e].n = Cardinality(Equals(events, e))
  BY <1>1 DEF Adds, WithNew
<1>3. \A e : IsFiniteSet(Equals(events, e)) /\ Cardinality(Equals(events, e)) \in Nat
  <2>1. \A e : Equals(events, e) \subseteq events
    BY DEF Equals
  <2> QED
    BY <1>0, <2>1, FS_Subset, FS_CardinalityType
<1>4. IsFiniteSet(events')
  <2>1. IsFiniteSet({row[e] : e \in new})
    <3>1. row \in Surjection(new, {row[e] : e \in new})
      BY <1>1 DEF Surjection
    <3> QED
      BY <3>1, FS_Surjection
  <2> QED
    BY <1>0, <1>2, <2>1, FS_Union
<1>5. events' \subseteq events \union [event : new, n : Nat]
  BY <1>1, <1>2, <1>3
<1>6. ASSUME NEW e
      PROVE  Cardinality(Equals(events', e)) = Cardinality(Equals(events, e)) + IF e \in new THEN 1 ELSE 0
  <2>1. CASE e \notin new
    <3>1. \A r : r \in Equals(events', e) <=> r \in Equals(events, e)
      <4>1. \A r \in events' \ events : r.event # e
        BY <1>2, <2>1
      <4> QED
        BY <1>2, <4>1 DEF Equals
    <3>2. Equals(events', e) = Equals(events, e)
      BY <3>1
    <3> QED
      BY <1>3, <2>1, <3>2
  <2>2. CASE e \in new
    <3>0. \A r : r \in Equals(events', e) <=> r \in Equals(events, e) \/ r = row[e]
      <4>1. \A r \in events' \ events : r.event = e => r = row[e]
        BY <1>2, <2>2
      <4>2. row[e] \in events' /\ row[e].event = e
        BY <1>2, <2>2
      <4> QED
        BY <1>2, <4>1, <4>2 DEF Equals
    <3>1. Equals(events', e) = Equals(events, e) \union {row[e]}
      BY <3>0
    <3>2. row[e] \notin Equals(events, e)
      <4>1. row[e].event = e /\ ~(row[e].n < Cardinality(Equals(events, e)))
        BY <1>2, <1>3, <2>2
      <4>2. row[e] \notin events
        BY <4>1 DEF EventsAreNumbered
      <4> QED
        BY <4>2 DEF Equals
    <3> QED
      BY <1>3, <2>2, <3>1, <3>2, FS_AddElement
  <2> QED
    BY <2>1, <2>2
<1>7. ASSUME NEW r \in events'
      PROVE  r.n < Cardinality(Equals(events', r.event))
  <2>1. PICK k : k = Cardinality(Equals(events, r.event))
    OBVIOUS
  <2>2. k \in Nat /\ Cardinality(Equals(events', r.event)) = k + IF r.event \in new THEN 1 ELSE 0
    BY <1>3, <1>6, <2>1
  <2>3. CASE r \in events
    <3>1. r.n < k /\ r.n \in Nat
      BY <1>0, <2>1, <2>3 DEF EventsAreNumbered
    <3> QED
      BY <2>2, <3>1
  <2>4. CASE r \notin events
    <3>1. r.event \in new /\ r.n = k
      BY <1>2, <2>1, <2>4
    <3> QED
      BY <2>2, <3>1
  <2> QED
    BY <2>3, <2>4
<1> QED
  BY <1>3, <1>4, <1>5, <1>6, <1>7 DEF Copies, EventsAreNumbered, EventsGrow

\* Events that are no failed attempts leave the count of the attempts alone.
LEMMA FailuresStay ==
  ASSUME TypeOK, EventsAreNumbered, NEW new, IsFiniteSet(new), Adds(new),
         \A e \in new : e.type # "FAILED"
  PROVE  EventsGrow(new) /\ \A j : OfRequest("FAILED", j)' = OfRequest("FAILED", j)
<1>1. /\ EventsGrow(new)
      /\ \A e : Copies(e) \in Nat /\ Copies(e)' = Copies(e) + IF e \in new THEN 1 ELSE 0
  BY AddsDef
<1>2. ASSUME NEW j
      PROVE  OfRequest("FAILED", j)' = OfRequest("FAILED", j)
  <2> DEFINE e == [type |-> "FAILED", request |-> j]
  <2>1. e \notin new
    OBVIOUS
  <2>2. OfRequest("FAILED", j) = Copies(e) /\ OfRequest("FAILED", j)' = Copies(e)'
    BY DEF OfRequest, Copies
  <2> QED
    BY <1>1, <2>1, <2>2
<1> QED
  BY <1>1, <1>2

\* What a transaction carries, by its step.
LEMMA Shapes ==
  ASSUME TypeOK, NEW w \in Workers
  PROVE  /\ txn[w] # Idle => txn[w].device \in Devices /\ txn[w].at \in 0 .. now
         /\ txn[w].step \in Limits \union {"deliver", "request"} =>
              txn[w] \in [step : Limits \union {"deliver", "request"}, company : Companies,
                          device : Devices, ip : ClientIps, at : 0 .. now]
         /\ txn[w].step = "save" =>
              txn[w] \in [step : {"save"}, request : RequestIds, company : Companies,
                          device : Devices, at : 0 .. now, row : Request]
         /\ txn[w].step \in Limits \union {"deliver", "request", "save"} => txn[w] # Idle
<1>1. txn[w] \in Transaction
  BY DEF TypeOK
<1> QED
  BY <1>1 DEF Transaction, Idle, Limits

\* A request that is written keeps its place, its company, its device and its
\* instant; what becomes of it is its status.
LEMMA SavedDef ==
  ASSUME IInv, NEW w \in Workers, txn[w].step = "save", requests' = Saved(txn[w])
  PROVE  /\ requests' \in Seq(Request) /\ RequestIds' = RequestIds
         /\ txn[w].request \in RequestIds
         /\ \A i \in RequestIds :
              /\ i # txn[w].request => requests'[i] = requests[i]
              /\ requests'[i].company = requests[i].company
              /\ requests'[i].device = requests[i].device
              /\ requests'[i].at = requests[i].at
         /\ requests'[txn[w].request] = txn[w].row
<1> DEFINE i == txn[w].request
           row == txn[w].row
<1>1. i \in RequestIds /\ row \in Request
  BY Shapes DEF IInv
<1>2. requests \in Seq(Request) /\ requests' = [requests EXCEPT ![i] = row]
  BY DEF Saved, IInv, TypeOK
<1>3. requests[i] \in Request
  BY <1>1, <1>2 DEF RequestIds
<1>4. row.company = requests[i].company /\ row.device = requests[i].device /\ row.at = requests[i].at
  BY <1>3 DEF IInv, RowsAreTrue, RowIsTrue, RegisterFailedAttempt, Request
<1> HIDE DEF i, row
<1>5. /\ requests' \in Seq(Request) /\ RequestIds' = RequestIds
      /\ \A j \in RequestIds : requests'[j] = IF j = i THEN row ELSE requests[j]
  BY <1>1, <1>2 DEF RequestIds
<1> QED
  BY <1>1, <1>4, <1>5 DEF i, row

\* The request that a verification has read, as it still is.
LEMMA ReadRow ==
  ASSUME IInv, NEW w \in Workers, txn[w].step = "save"
  PROVE  /\ txn[w].request \in RequestIds
         /\ requests[txn[w].request] \in Request
         /\ requests[txn[w].request].status = "PENDING"
         /\ requests[txn[w].request].failed # MaxFailed
         /\ requests[txn[w].request].failed = OfRequest("FAILED", txn[w].request)
<1>1. txn[w].request \in RequestIds
  BY Shapes DEF IInv
<1>2. requests \in Seq(Request)
  BY DEF IInv, TypeOK
<1>3. requests[txn[w].request] \in Request
  BY <1>1, <1>2 DEF RequestIds
<1>4. requests[txn[w].request].status = "PENDING"
  BY DEF IInv, RowsAreTrue, RowIsTrue
<1>5. /\ requests[txn[w].request].failed # MaxFailed
      /\ requests[txn[w].request].failed = OfRequest("FAILED", txn[w].request)
  BY <1>1, <1>4 DEF IInv, FailuresAreCounted
<1> QED
  BY <1>1, <1>3, <1>4, <1>5

\* A failed attempt more is still a request, unless the attempts are used up.
LEMMA AttemptIsRequest ==
  ASSUME NEW row \in Request, row.failed # MaxFailed
  PROVE  /\ RegisterFailedAttempt(row) \in Request
         /\ RegisterFailedAttempt(row).failed = row.failed + 1
         /\ RegisterFailedAttempt(row).status
              = IF row.failed + 1 >= MaxFailed THEN "DENIED" ELSE row.status
<1> DEFINE status == IF row.failed + 1 >= MaxFailed THEN "DENIED" ELSE row.status
<1>1. row.failed + 1 \in 0 .. MaxFailed
  BY TimesAssumption DEF Request
<1>2. status \in {"PENDING", "VERIFIED", "EXPIRED", "DENIED"}
  BY DEF Request
<1>3. RegisterFailedAttempt(row) = [row EXCEPT !.failed = row.failed + 1, !.status = status]
  BY DEF RegisterFailedAttempt
<1> HIDE DEF status
<1>4. /\ [row EXCEPT !.failed = row.failed + 1, !.status = status] \in Request
      /\ [row EXCEPT !.failed = row.failed + 1, !.status = status].failed = row.failed + 1
      /\ [row EXCEPT !.failed = row.failed + 1, !.status = status].status = status
  BY <1>1, <1>2 DEF Request
<1> QED
  BY <1>3, <1>4 DEF status

\* Rows are only added, so what a transaction refers to stays there.
LEMMA TransactionsStay ==
  ASSUME RequestIds \subseteq RequestIds', now' \in Int, now \in Int, now <= now'
  PROVE  Transaction \subseteq Transaction'
<1>1. 0 .. now \subseteq 0 .. now'
  OBVIOUS
<1> QED
  BY <1>1 DEF Transaction, ClientIps

-----------------------------------------------------------------------------
(* The steps that write no request and no session.                           *)

LEMMA InitIInv == Init => IInv
<1> SUFFICES ASSUME Init PROVE IInv
  OBVIOUS
<1>1. TypeOK
  <2>1. Idle \in Transaction
    BY DEF Transaction
  <2>2. txn \in [Workers -> Transaction]
    BY <2>1 DEF Init
  <2>3. requests \in Seq(Request) /\ sessions \in Seq(Session)
    BY DEF Init
  <2>4. AreRows(events, Event) /\ AreRows(texts, Text)
    BY FS_EmptySet DEF Init, AreRows
  <2>5. now \in 0 .. MaxTime
    BY BoundsAssumption DEF Init
  <2>6. deployed \subseteq Workers /\ deployed # {}
    BY DEF Init
  <2>7. file \in [Devices -> SessionIds \union {Nothing}]
    BY DEF Init
  <2> QED
    BY <2>2, <2>3, <2>4, <2>5, <2>6, <2>7 DEF TypeOK
<1>2. CallsApart /\ RowsAreTrue /\ EventsAreNumbered
  BY DEF Init, CallsApart, RowsAreTrue, Idle, EventsAreNumbered
<1>3. RequestIds = {} /\ SessionIds = {}
  BY DEF Init, RequestIds, SessionIds
<1>4. RequestsArePast /\ FailuresAreCounted /\ SessionsMatchRequests
  BY <1>3 DEF RequestsArePast, FailuresAreCounted, SessionsMatchRequests
<1>5. FilesAreOwn
  BY DEF Init, FilesAreOwn
<1> QED
  BY <1>1, <1>2, <1>4, <1>5 DEF IInv

\* The clock runs: what is past stays past.
LEMMA ClockIInv ==
  ASSUME IInv, TimePasses
  PROVE  IInv'
<1>1. /\ now' \in 0 .. MaxTime /\ now <= now' /\ now \in Int /\ now' \in Int
      /\ UNCHANGED <<deployed, requests, sessions, events, texts, txn, file>>
  BY BoundsAssumption DEF TimePasses, IInv, TypeOK, tables
<1>2. RequestIds' = RequestIds /\ SessionIds' = SessionIds
  BY <1>1 DEF RequestIds, SessionIds
<1>3. Transaction \subseteq Transaction'
  BY <1>1, <1>2, TransactionsStay
<1>4. Session' = Session /\ Event' = Event
  BY <1>2 DEF Session, Event
<1>5. TypeOK'
  BY <1>1, <1>2, <1>3, <1>4 DEF IInv, TypeOK
<1>6. RequestsArePast'
  <2>1. \A i \in RequestIds : requests[i] \in Request
    BY DEF IInv, TypeOK, RequestIds
  <2> QED
    BY <1>1, <1>2, <2>1 DEF IInv, RequestsArePast, Request
<1>7. RowsAreTrue'
  <2>1. \A u : RowIsTrue(u)' = RowIsTrue(u)
    BY <1>1 DEF RowIsTrue, RegisterFailedAttempt
  <2> QED
    BY <1>1, <2>1 DEF IInv, RowsAreTrue
<1>8. FailuresAreCounted'
  BY <1>1, <1>2 DEF IInv, FailuresAreCounted, OfRequest, Equals
<1>9. EventsAreNumbered' /\ CallsApart' /\ SessionsMatchRequests' /\ FilesAreOwn'
  BY <1>1, <1>2 DEF IInv, EventsAreNumbered, CallsApart, SessionsMatchRequests, SessionIsVerified, FilesAreOwn
<1> QED
  BY <1>5, <1>6, <1>7, <1>8, <1>9 DEF IInv

\* A query, or the end of a transaction that wrote at most a BLOCKED event: what
\* the transaction goes on with must be apart from the others, and true.
LEMMA QueryIInv ==
  ASSUME IInv, NEW w \in Workers, NEW t \in Transaction,
         txn' = [txn EXCEPT ![w] = t],
         \A v \in Workers \ {w} : t # Idle /\ txn[v] # Idle => txn[v].device # t.device,
         t.step = "save" => RowIsTrue(t),
         UNCHANGED <<now, deployed, requests, sessions, file>>,
         AreRows(texts', Text),
         \/ events' = events
         \/ Adds({[type |-> "BLOCKED", request |-> Nothing]})
  PROVE  IInv'
<1>1. RequestIds' = RequestIds /\ SessionIds' = SessionIds
  BY DEF RequestIds, SessionIds
<1>2. Transaction' = Transaction /\ Session' = Session /\ Event' = Event
  BY <1>1 DEF Transaction, Session, Event
<1>3. \A v \in Workers : txn'[v] = IF v = w THEN t ELSE txn[v]
  BY DEF IInv, TypeOK
<1>4. /\ AreRows(events', Event) /\ EventsAreNumbered'
      /\ \A i \in RequestIds : OfRequest("FAILED", i)' = OfRequest("FAILED", i)
  <2>1. CASE events' = events
    BY <2>1 DEF IInv, TypeOK, OfRequest, Equals, EventsAreNumbered
  <2>2. CASE Adds({[type |-> "BLOCKED", request |-> Nothing]})
    <3>1. PICK new : new = {[type |-> "BLOCKED", request |-> Nothing]}
      OBVIOUS
    <3>2. IsFiniteSet(new) /\ Adds(new)
      BY <2>2, <3>1, FS_Singleton
    <3>4. new \subseteq Event /\ \A e \in new : e.type # "FAILED"
      BY <3>1 DEF Event
    <3>3. EventsGrow(new) /\ \A i : OfRequest("FAILED", i)' = OfRequest("FAILED", i)
      BY <3>2, <3>4, FailuresStay DEF IInv
    <3> QED
      BY <3>3, <3>4 DEF IInv, TypeOK, EventsGrow, AreRows
  <2> QED
    BY <2>1, <2>2
<1>5. TypeOK'
  BY <1>1, <1>2, <1>4 DEF IInv, TypeOK
<1>6. CallsApart'
  BY <1>3 DEF IInv, CallsApart
<1>7. RowsAreTrue'
  <2>1. \A u : RowIsTrue(u)' = RowIsTrue(u)
    BY DEF RowIsTrue, RegisterFailedAttempt
  <2> QED
    BY <1>3, <2>1 DEF IInv, RowsAreTrue
<1>8. FailuresAreCounted'
  BY <1>1, <1>4 DEF IInv, FailuresAreCounted
<1>9. RequestsArePast' /\ SessionsMatchRequests' /\ FilesAreOwn'
  BY <1>1 DEF IInv, RequestsArePast, SessionsMatchRequests, SessionIsVerified, FilesAreOwn
<1> QED
  BY <1>4, <1>5, <1>6, <1>7, <1>8, <1>9 DEF IInv

\* Nothing is left of a transaction that ends.
LEMMA EndIInv ==
  ASSUME IInv, NEW w \in Workers, End(w),
         UNCHANGED <<now, deployed, requests, sessions, texts, file>>,
         events' = events \/ Adds({[type |-> "BLOCKED", request |-> Nothing]})
  PROVE  IInv'
<1>1. Idle \in Transaction /\ Idle.step # "save"
  BY DEF Transaction, Idle
<1>2. AreRows(texts', Text)
  BY DEF IInv, TypeOK, Text
<1> QED
  BY <1>1, <1>2, QueryIInv DEF End

\* A call begins when no other call of its device is being served.
LEMMA ArriveIInv ==
  ASSUME IInv, NEW w \in Workers, Arrive(w)
  PROVE  IInv'
<1>1. PICK c \in Companies, d \in Devices :
        \/ \E ip \in ClientIps : RequestAuditorAccess(w, c, d, ip)
        \/ \E i \in RequestIds, right \in BOOLEAN : VerifyAuditorAccess(w, i, c, d, right)
  BY DEF Arrive
<1>2. AreRows(texts, Text) /\ now \in 0 .. now /\ now \in Nat
  BY BoundsAssumption DEF IInv, TypeOK
<1>3. ASSUME NEW t \in Transaction, Begin(w, t), t.device = d, t.step = "save" => RowIsTrue(t)
      PROVE  IInv'
  <2>1. \A v \in Workers \ {w} : t # Idle /\ txn[v] # Idle => txn[v].device # t.device
    BY <1>3 DEF Begin, DeviceIsFree
  <2>2. UNCHANGED <<now, deployed, requests, sessions, events, texts, file>> /\ txn' = [txn EXCEPT ![w] = t]
    BY <1>3 DEF Begin, tables
  <2>3. AreRows(texts', Text)
    BY <1>2, <2>2 DEF Text
  <2> QED
    BY <1>3, <2>1, <2>2, <2>3, QueryIInv
<1>4. CASE \E ip \in ClientIps : RequestAuditorAccess(w, c, d, ip)
  <2>1. PICK ip \in ClientIps : RequestAuditorAccess(w, c, d, ip)
    BY <1>4
  <2> DEFINE t == [step |-> "company", company |-> c, device |-> d, ip |-> ip, at |-> now]
  <2>2. t \in Transaction /\ t.device = d /\ t.step # "save"
    BY <1>2 DEF Transaction, Limits
  <2>3. Begin(w, t)
    BY <2>1 DEF RequestAuditorAccess
  <2> HIDE DEF t
  <2> QED
    BY <1>3, <2>2, <2>3
<1>5. CASE \E i \in RequestIds, right \in BOOLEAN : VerifyAuditorAccess(w, i, c, d, right)
  <2>1. PICK i \in RequestIds, right \in BOOLEAN : VerifyAuditorAccess(w, i, c, d, right)
    BY <1>5
  <2> DEFINE new == Verified(requests[i], right)
             t == [step |-> "save", request |-> i, company |-> c, device |-> d, at |-> now,
                   row |-> new]
  <2>2. /\ requests[i].company = c /\ requests[i].device = d /\ requests[i].status = "PENDING"
        /\ Begin(w, t)
    BY <2>1 DEF VerifyAuditorAccess, BelongsTo, MayBeVerified
  <2>3. requests[i] \in Request /\ requests[i].at <= now /\ requests[i].failed # MaxFailed
    BY <2>2 DEF IInv, TypeOK, RequestIds, RequestsArePast, FailuresAreCounted
  <2>4. \/ new = [requests[i] EXCEPT !.status = "EXPIRED"]
        \/ new = [requests[i] EXCEPT !.status = "VERIFIED"] /\ now <= requests[i].at + OtpTtl
        \/ new = RegisterFailedAttempt(requests[i])
    <3>1. ~HasExpired(requests[i]) => now <= requests[i].at + OtpTtl
      BY <1>2, <2>3, TimesAssumption DEF HasExpired, Request
    <3> QED
      BY <3>1 DEF Verified
  <2>5. new \in Request
    <3>1. RegisterFailedAttempt(requests[i]) \in Request
      BY <2>3, AttemptIsRequest
    <3> QED
      BY <2>3, <2>4, <3>1 DEF Request
  <2> HIDE DEF new
  <2>6. t \in Transaction /\ t.device = d
    BY <1>2, <2>5 DEF Transaction
  <2>7. RowIsTrue(t)
    BY <2>2, <2>3, <2>4 DEF RowIsTrue
  <2> HIDE DEF t
  <2> QED
    BY <1>3, <2>2, <2>6, <2>7
<1> QED
  BY <1>1, <1>4, <1>5

\* The limits are looked up, and the code is texted.
LEMMA RequestingIInv ==
  ASSUME IInv, NEW w \in Workers, EnforceRateLimit(w) \/ DeliverOtp(w)
  PROVE  IInv'
<1>1. txn[w] \in [step : Limits \union {"deliver", "request"}, company : Companies,
                  device : Devices, ip : ClientIps, at : 0 .. now]
  BY Shapes DEF IInv, EnforceRateLimit, DeliverOtp
<1>2. txn[w] # Idle
  BY Shapes DEF IInv, EnforceRateLimit, DeliverOtp
<1>3. ASSUME NEW step \in Limits \union {"deliver", "request"}, Continue(w, step),
             UNCHANGED <<now, deployed, requests, sessions, events, file>>,
             AreRows(texts', Text)
      PROVE  IInv'
  <2> DEFINE t == [txn[w] EXCEPT !.step = step]
  <2>1. t \in Transaction /\ t.device = txn[w].device /\ t.step # "save"
    BY <1>1 DEF Transaction, Limits
  <2>2. txn' = [txn EXCEPT ![w] = t]
    BY <1>3 DEF Continue
  <2> HIDE DEF t
  <2>3. \A v \in Workers \ {w} : t # Idle /\ txn[v] # Idle => txn[v].device # t.device
    BY <1>2, <2>1 DEF IInv, CallsApart
  <2> QED
    BY <1>3, <2>1, <2>2, <2>3, QueryIInv
<1>4. CASE EnforceRateLimit(w)
  <2>1. UNCHANGED <<now, deployed, requests, sessions, texts, file>>
    BY <1>4 DEF EnforceRateLimit
  <2>2. CASE Continue(w, AfterLimit(txn[w])) /\ UNCHANGED events
    <3>1. AfterLimit(txn[w]) \in Limits \union {"deliver", "request"}
      BY DEF AfterLimit, Limits
    <3>2. AreRows(texts', Text)
      BY <2>1 DEF IInv, TypeOK, Text
    <3> QED
      BY <1>3, <2>1, <2>2, <3>1, <3>2
  <2>3. CASE Adds({[type |-> "BLOCKED", request |-> Nothing]}) /\ End(w)
    BY <2>1, <2>3, EndIInv
  <2> QED
    BY <1>4, <2>2, <2>3 DEF EnforceRateLimit
<1>5. CASE DeliverOtp(w)
  <2> DEFINE x == [company |-> txn[w].company, device |-> txn[w].device, at |-> txn[w].at]
  <2>1. /\ Continue(w, "request") /\ texts' = WithNew(texts, {x})
        /\ UNCHANGED <<now, deployed, requests, sessions, events, file>>
    BY <1>5 DEF DeliverOtp, Delivered, tables
  <2>2. x \in Text
    <3>1. 0 .. now \subseteq 0 .. MaxTime
      BY BoundsAssumption DEF IInv, TypeOK
    <3> QED
      BY <1>1, <3>1 DEF Text
  <2> HIDE DEF x
  <2>3. AreRows(texts, Text)
    BY DEF IInv, TypeOK
  <2>4. Cardinality(Equals(texts, x)) \in Nat
    <3>1. Equals(texts, x) \subseteq texts
      BY DEF Equals
    <3> QED
      BY <2>3, <3>1, FS_Subset, FS_CardinalityType DEF AreRows
  <2>5. PICK row : row = [event |-> x, n |-> Cardinality(Equals(texts, x))]
    OBVIOUS
  <2>6. texts' = texts \union {row} /\ row \in [event : Text, n : Nat]
    BY <2>1, <2>2, <2>4, <2>5 DEF WithNew
  <2>7. AreRows(texts', Text)
    BY <2>3, <2>6, FS_AddElement DEF AreRows
  <2> QED
    BY <1>3, <2>1, <2>7 DEF Text
<1> QED
  BY <1>4, <1>5

-----------------------------------------------------------------------------
(* The steps that write requests and sessions.                               *)

\* A transaction that writes the request it has read: the other verifications
\* that run are of other devices, hence of other requests.
LEMMA SaveKeeps ==
  ASSUME IInv, NEW w \in Workers, txn[w].step = "save", requests' = Saved(txn[w]), End(w),
         UNCHANGED <<now, deployed>>
  PROVE  /\ txn' \in [Workers -> Transaction']
         /\ CallsApart' /\ RowsAreTrue' /\ RequestsArePast'
<1>1. /\ RequestIds' = RequestIds /\ txn[w].request \in RequestIds
      /\ \A i \in RequestIds :
           /\ i # txn[w].request => requests'[i] = requests[i]
           /\ requests'[i].at = requests[i].at
  BY SavedDef
<1>2. Transaction' = Transaction
  BY <1>1 DEF Transaction
<1>3. \A v \in Workers : txn'[v] = IF v = w THEN Idle ELSE txn[v]
  BY DEF End, IInv, TypeOK
<1>4. Idle \in Transaction /\ Idle.step # "save"
  BY DEF Transaction, Idle
<1>5. txn' \in [Workers -> Transaction']
  BY <1>2, <1>4 DEF End, IInv, TypeOK
<1>6. CallsApart'
  BY <1>3 DEF IInv, CallsApart
<1>7. ASSUME NEW v \in Workers, txn'[v].step = "save"
      PROVE  RowIsTrue(txn[v])'
  <2>1. v # w /\ txn'[v] = txn[v]
    BY <1>3, <1>4, <1>7
  <2>2. txn[v].device # txn[w].device
    BY <1>7, <2>1, Shapes DEF IInv, CallsApart
  <2>3. txn[v].request \in RequestIds /\ txn[v].request # txn[w].request
    BY <1>7, <2>1, <2>2, Shapes DEF IInv, RowsAreTrue, RowIsTrue
  <2>4. requests'[txn[v].request] = requests[txn[v].request]
    BY <1>1, <2>3
  <2>5. RowIsTrue(txn[v])
    BY <1>7, <2>1 DEF IInv, RowsAreTrue
  <2> QED
    BY <2>1, <2>4, <2>5 DEF RowIsTrue, RegisterFailedAttempt
<1>8. RequestsArePast'
  BY <1>1 DEF IInv, RequestsArePast
<1> QED
  BY <1>5, <1>6, <1>7, <1>8 DEF RowsAreTrue

\* A request that is decided otherwise than by its code has no session, and gets
\* none.
LEMMA SaveKeepsSessions ==
  ASSUME IInv, NEW w \in Workers, txn[w].step = "save", requests' = Saved(txn[w]),
         txn[w].row.status # "VERIFIED", UNCHANGED <<sessions, file>>
  PROVE  /\ sessions' \in Seq(Session') /\ file' \in [Devices -> SessionIds' \union {Nothing}]
         /\ SessionsMatchRequests' /\ FilesAreOwn'
<1>1. /\ RequestIds' = RequestIds /\ txn[w].request \in RequestIds
      /\ \A i \in RequestIds : i # txn[w].request => requests'[i] = requests[i]
      /\ requests'[txn[w].request] = txn[w].row
  BY SavedDef
<1>2. Session' = Session /\ SessionIds' = SessionIds
  BY <1>1 DEF Session, SessionIds
<1>3. sessions' \in Seq(Session') /\ file' \in [Devices -> SessionIds' \union {Nothing}]
  BY <1>2 DEF IInv, TypeOK
<1>4. requests[txn[w].request].status = "PENDING"
  BY DEF IInv, RowsAreTrue, RowIsTrue
<1>5. \A s \in SessionIds : sessions[s].request \in RequestIds
  <2>1. sessions \in Seq(Session)
    BY DEF IInv, TypeOK
  <2>2. \A s \in SessionIds : sessions[s] \in Session
    BY <2>1 DEF SessionIds
  <2> QED
    BY <2>2 DEF Session
<1>6. \A s \in SessionIds : requests'[sessions[s].request] = requests[sessions[s].request]
  BY <1>1, <1>4, <1>5 DEF IInv, SessionsMatchRequests, SessionIsVerified
<1>7. \A i \in RequestIds : requests'[i].status = "VERIFIED" => requests[i].status = "VERIFIED"
  BY <1>1
<1>8. SessionsMatchRequests'
  <2>1. \A s \in SessionIds : SessionIsVerified(s)'
    BY <1>6 DEF IInv, SessionsMatchRequests, SessionIsVerified
  <2> QED
    BY <1>1, <1>2, <1>7, <2>1 DEF IInv, SessionsMatchRequests
<1>9. FilesAreOwn'
  BY DEF IInv, FilesAreOwn
<1> QED
  BY <1>3, <1>8, <1>9

LEMMA ExpiryIInv ==
  ASSUME IInv, NEW w \in Workers, SaveExpired(w)
  PROVE  IInv'
<1>1. /\ txn[w].step = "save" /\ txn[w].row.status = "EXPIRED"
      /\ requests' = Saved(txn[w]) /\ End(w)
      /\ UNCHANGED <<now, deployed, sessions, events, texts, file>>
  BY DEF SaveExpired
<1>2. /\ requests' \in Seq(Request) /\ RequestIds' = RequestIds /\ txn[w].request \in RequestIds
      /\ \A i \in RequestIds : i # txn[w].request => requests'[i] = requests[i]
      /\ requests'[txn[w].request] = txn[w].row
  BY <1>1, SavedDef
<1>3. /\ txn' \in [Workers -> Transaction'] /\ CallsApart' /\ RowsAreTrue' /\ RequestsArePast'
      /\ sessions' \in Seq(Session') /\ file' \in [Devices -> SessionIds' \union {Nothing}]
      /\ SessionsMatchRequests' /\ FilesAreOwn'
  BY <1>1, SaveKeeps, SaveKeepsSessions
<1>4. Event' = Event
  BY <1>2 DEF Event
<1>5. TypeOK'
  BY <1>1, <1>2, <1>3, <1>4 DEF IInv, TypeOK
<1>7. EventsAreNumbered'
  BY <1>1 DEF IInv, EventsAreNumbered
<1>6. FailuresAreCounted'
  <2> DEFINE i == txn[w].request
             row == requests[i]
  <2>1. row \in Request /\ row.status = "PENDING" /\ row.failed # MaxFailed
    BY <1>1, ReadRow
  <2>2. txn[w].row = [row EXCEPT !.status = "EXPIRED"]
    <3>1. RegisterFailedAttempt(row).status # "EXPIRED" /\ [row EXCEPT !.status = "VERIFIED"].status # "EXPIRED"
      BY <2>1, AttemptIsRequest DEF Request
    <3> QED
      BY <1>1, <3>1 DEF IInv, RowsAreTrue, RowIsTrue
  <2>3. txn[w].row.failed = row.failed
    BY <2>1, <2>2 DEF Request
  <2>4. \A j \in RequestIds : OfRequest("FAILED", j)' = OfRequest("FAILED", j)
    BY <1>1 DEF OfRequest
  <2> QED
    BY <1>1, <1>2, <2>1, <2>3, <2>4 DEF IInv, FailuresAreCounted
<1> QED
  BY <1>3, <1>5, <1>6, <1>7 DEF IInv

\* The last attempt denies the request; each leaves one FAILED event of it.
LEMMA FailureIInv ==
  ASSUME IInv, NEW w \in Workers, SaveFailure(w)
  PROVE  IInv'
<1> DEFINE i == txn[w].request
           row == requests[i]
           new == FailureEvents(txn[w])
<1>1. /\ txn[w].step = "save" /\ txn[w].row.status \in {"PENDING", "DENIED"}
      /\ requests' = Saved(txn[w]) /\ Adds(new) /\ End(w)
      /\ UNCHANGED <<now, deployed, sessions, texts, file>>
  BY DEF SaveFailure
<1>2. /\ requests' \in Seq(Request) /\ RequestIds' = RequestIds /\ i \in RequestIds
      /\ \A j \in RequestIds : j # i => requests'[j] = requests[j]
      /\ requests'[i] = txn[w].row
  BY <1>1, SavedDef
<1>3. /\ txn' \in [Workers -> Transaction'] /\ CallsApart' /\ RowsAreTrue' /\ RequestsArePast'
      /\ sessions' \in Seq(Session') /\ file' \in [Devices -> SessionIds' \union {Nothing}]
      /\ SessionsMatchRequests' /\ FilesAreOwn'
  BY <1>1, SaveKeeps, SaveKeepsSessions
<1>4. row \in Request /\ row.status = "PENDING" /\ row.failed # MaxFailed /\ row.failed = OfRequest("FAILED", i)
  BY <1>1, ReadRow
<1>5. txn[w].row = RegisterFailedAttempt(row)
  <2>1. /\ [row EXCEPT !.status = "EXPIRED"].status \notin {"PENDING", "DENIED"}
        /\ [row EXCEPT !.status = "VERIFIED"].status \notin {"PENDING", "DENIED"}
    BY <1>4 DEF Request
  <2> QED
    BY <1>1, <2>1 DEF IInv, RowsAreTrue, RowIsTrue
<1>6. /\ requests'[i].failed = row.failed + 1
      /\ requests'[i].status = "DENIED" <=> requests'[i].failed = MaxFailed
  <2>1. /\ txn[w].row.failed = row.failed + 1
        /\ txn[w].row.status = IF row.failed + 1 >= MaxFailed THEN "DENIED" ELSE row.status
    BY <1>4, <1>5, AttemptIsRequest
  <2>2. row.failed \in Nat /\ row.failed <= MaxFailed /\ MaxFailed \in Nat
    BY <1>4, TimesAssumption DEF Request
  <2> QED
    BY <1>2, <1>4, <2>1, <2>2
<1>7. /\ new \subseteq Event
      /\ \A j \in RequestIds :
           ([type |-> "FAILED", request |-> j] \in new) <=> (j = i)
  BY <1>2 DEF FailureEvents, Event
<1>8. /\ EventsGrow(new)
      /\ \A e : Copies(e) \in Nat /\ Copies(e)' = Copies(e) + IF e \in new THEN 1 ELSE 0
  <2>1. IsFiniteSet(new)
    BY FS_Singleton, FS_EmptySet, FS_Union DEF FailureEvents
  <2> HIDE DEF new
  <2> QED
    BY <1>1, <2>1, AddsDef DEF IInv
<1>9. TypeOK'
  <2>1. Event' = Event
    BY <1>2 DEF Event
  <2> HIDE DEF new
  <2> QED
    BY <1>1, <1>2, <1>3, <1>7, <1>8, <2>1 DEF IInv, TypeOK, AreRows, EventsGrow
<1>10. \A j \in RequestIds :
         OfRequest("FAILED", j)' = OfRequest("FAILED", j) + IF j = i THEN 1 ELSE 0
  <2>1. ASSUME NEW j \in RequestIds
        PROVE  /\ OfRequest("FAILED", j) = Copies([type |-> "FAILED", request |-> j])
               /\ OfRequest("FAILED", j)' = Copies([type |-> "FAILED", request |-> j])'
    BY DEF OfRequest, Copies
  <2> QED
    BY <1>7, <1>8, <2>1
<1>11. FailuresAreCounted'
  <2>0. requests \in Seq(Request)
    BY DEF IInv, TypeOK
  <2>1. \A j \in RequestIds : requests[j] \in Request
    BY <2>0 DEF RequestIds
  <2>2. \A j \in RequestIds : requests[j].failed \in Nat
    BY <2>1, TimesAssumption DEF Request
  <2>3. \A j \in RequestIds : j # i => OfRequest("FAILED", j)' = OfRequest("FAILED", j)
    BY <1>10, <2>2 DEF IInv, FailuresAreCounted
  <2>4. \A j \in RequestIds : j = i => OfRequest("FAILED", j)' = row.failed + 1
    BY <1>4, <1>10
  <2>5. \A j \in RequestIds :
           /\ requests'[j].failed = OfRequest("FAILED", j)'
           /\ requests'[j].status = "DENIED" <=> requests'[j].failed = MaxFailed
    BY <1>2, <1>6, <2>3, <2>4 DEF IInv, FailuresAreCounted
  <2> QED
    BY <1>2, <2>5 DEF FailuresAreCounted
<1> QED
  BY <1>3, <1>8, <1>9, <1>11 DEF IInv, EventsGrow

\* The code is right: the request is decided, and gets the only session it has.
LEMMA VerifiedIInv ==
  ASSUME IInv, NEW w \in Workers, SaveVerified(w)
  PROVE  IInv'
<1> DEFINE t == txn[w]
           i == txn[w].request
           row == requests[i]
           q == [company |-> t.company, device |-> t.device, at |-> t.at, request |-> i]
           n == Len(sessions) + 1
           new == {[type |-> "VERIFIED", request |-> i]}
<1>1. /\ t.step = "save" /\ t.row.status = "VERIFIED"
      /\ requests' = Saved(t) /\ sessions' = Append(sessions, q) /\ Adds(new) /\ End(w)
      /\ file' \in {file, KeepsSession(t.device, Len(sessions'))}
      /\ UNCHANGED <<now, deployed, texts>>
  BY DEF SaveVerified
<1>2. /\ requests' \in Seq(Request) /\ RequestIds' = RequestIds /\ i \in RequestIds
      /\ \A j \in RequestIds : j # i => requests'[j] = requests[j]
      /\ requests'[i] = t.row
  BY <1>1, SavedDef
<1>3. txn' \in [Workers -> Transaction'] /\ CallsApart' /\ RowsAreTrue' /\ RequestsArePast'
  BY <1>1, SaveKeeps
<1>4. row \in Request /\ row.status = "PENDING" /\ row.failed # MaxFailed
  BY <1>1, ReadRow
<1>5. /\ t.row = [row EXCEPT !.status = "VERIFIED"] /\ t.at <= row.at + OtpTtl
      /\ row.company = t.company /\ row.device = t.device /\ row.at <= t.at
  <2>1. /\ [row EXCEPT !.status = "EXPIRED"].status # "VERIFIED"
        /\ RegisterFailedAttempt(row).status # "VERIFIED"
    BY <1>4, AttemptIsRequest DEF Request
  <2> QED
    BY <1>1, <2>1 DEF IInv, RowsAreTrue, RowIsTrue
<1>6. /\ t.row.status = "VERIFIED" /\ t.row.failed = row.failed /\ t.row.at = row.at
      /\ t.row.company = t.company /\ t.row.device = t.device
  BY <1>4, <1>5 DEF Request
<1>7. t.company \in Companies /\ t.device \in Devices /\ t.at \in 0 .. MaxTime
  <2>1. 0 .. now \subseteq 0 .. MaxTime
    BY BoundsAssumption DEF IInv, TypeOK
  <2> QED
    BY <1>1, <2>1, Shapes DEF IInv
<1>8. q \in Session /\ q.request = i /\ q.device = t.device /\ q.company = t.company /\ q.at = t.at
  BY <1>2, <1>7 DEF Session
<1>9. sessions \in Seq(Session) /\ \A s \in SessionIds : sessions[s] \in Session
  <2>1. sessions \in Seq(Session)
    BY DEF IInv, TypeOK
  <2> QED
    BY <2>1 DEF SessionIds
<1> HIDE DEF q
<1>10. /\ sessions' \in Seq(Session) /\ SessionIds' = SessionIds \union {n} /\ n \notin SessionIds
       /\ Len(sessions') = n /\ sessions'[n] = q
       /\ \A s \in SessionIds : sessions'[s] = sessions[s]
  BY <1>1, <1>8, <1>9 DEF SessionIds
<1> HIDE DEF n
<1>11. Session' = Session /\ Event' = Event
  BY <1>2 DEF Session, Event
<1>12. /\ EventsGrow(new)
       /\ \A j : OfRequest("FAILED", j)' = OfRequest("FAILED", j)
  <2>1. \A e \in new : e.type # "FAILED"
    OBVIOUS
  <2>2. TypeOK /\ EventsAreNumbered /\ IsFiniteSet(new)
    BY FS_Singleton DEF IInv
  <2> HIDE DEF new
  <2> QED
    BY <1>1, <2>1, <2>2, FailuresStay
<1>13. file' \in [Devices -> SessionIds' \union {Nothing}]
  BY <1>1, <1>7, <1>10 DEF IInv, TypeOK, KeepsSession
<1>14. TypeOK'
  <2>1. new \subseteq Event
    BY <1>2 DEF Event
  <2> HIDE DEF new
  <2> QED
    BY <1>1, <1>2, <1>3, <1>10, <1>11, <1>12, <1>13, <2>1 DEF IInv, TypeOK, AreRows, EventsGrow
<1>15. FailuresAreCounted'
  BY <1>2, <1>4, <1>6, <1>12 DEF IInv, FailuresAreCounted
<1>16. \A s \in SessionIds : sessions[s].request \in RequestIds /\ sessions[s].request # i
  <2>1. \A s \in SessionIds : sessions[s].request \in RequestIds
    BY <1>9 DEF Session
  <2>2. \A s \in SessionIds : requests[sessions[s].request].status = "VERIFIED"
    BY DEF IInv, SessionsMatchRequests, SessionIsVerified
  <2> QED
    BY <1>4, <2>1, <2>2
<1>17. SessionsMatchRequests'
  <2>1. ASSUME NEW s \in SessionIds'
        PROVE  SessionIsVerified(s)'
    <3>1. CASE s = n
      BY <1>2, <1>5, <1>6, <1>8, <1>10, <3>1 DEF SessionIsVerified
    <3>2. CASE s \in SessionIds
      <4>1. requests'[sessions[s].request] = requests[sessions[s].request]
        BY <1>2, <1>16, <3>2
      <4>2. SessionIsVerified(s)
        BY <3>2 DEF IInv, SessionsMatchRequests
      <4> QED
        BY <1>10, <3>2, <4>1, <4>2 DEF SessionIsVerified
    <3> QED
      BY <1>10, <2>1, <3>1, <3>2
  <2>2. \A r, s \in SessionIds' : sessions'[r].request = sessions'[s].request => r = s
    BY <1>8, <1>10, <1>16 DEF IInv, SessionsMatchRequests
  <2>3. ASSUME NEW j \in RequestIds, requests'[j].status = "VERIFIED"
        PROVE  \E s \in SessionIds' : sessions'[s].request = j
    <3>1. CASE j = i
      BY <1>8, <1>10, <3>1
    <3>2. CASE j # i
      BY <1>2, <1>10, <2>3, <3>2 DEF IInv, SessionsMatchRequests
    <3> QED
      BY <3>1, <3>2
  <2> QED
    BY <1>2, <2>1, <2>2, <2>3 DEF SessionsMatchRequests
<1>18. FilesAreOwn'
  <2>1. file \in [Devices -> SessionIds \union {Nothing}]
    BY DEF IInv, TypeOK
  <2>2. ASSUME NEW d \in Devices, file'[d] # Nothing
        PROVE  sessions'[file'[d]].device = d
    <3>1. CASE file'[d] = file[d]
      BY <1>10, <2>1, <2>2, <3>1 DEF IInv, FilesAreOwn
    <3>2. CASE file'[d] # file[d]
      <4>1. d = t.device /\ file'[d] = n
        BY <1>1, <1>10, <2>1, <3>2 DEF KeepsSession
      <4> QED
        BY <1>8, <1>10, <4>1
    <3> QED
      BY <3>1, <3>2
  <2> QED
    BY <2>2 DEF FilesAreOwn
<1> QED
  BY <1>3, <1>12, <1>14, <1>15, <1>17, <1>18 DEF IInv, EventsGrow

\* A request is added, and waits.
LEMMA RequestIInv ==
  ASSUME IInv, NEW w \in Workers, SaveRequest(w)
  PROVE  IInv'
<1> DEFINE t == txn[w]
           q == [company |-> t.company, device |-> t.device, at |-> t.at,
                 status |-> "PENDING", failed |-> 0]
           n == Len(requests) + 1
           new == {RequestedEvent(t)}
<1>1. /\ t.step = "request" /\ requests' = Append(requests, q) /\ Adds(new) /\ End(w)
      /\ UNCHANGED <<now, deployed, sessions, texts, file>>
  BY DEF SaveRequest
<1>2. /\ t \in [step : Limits \union {"deliver", "request"}, company : Companies,
                device : Devices, ip : ClientIps, at : 0 .. now]
      /\ now \in Nat /\ t.at \in 0 .. MaxTime
  <2>1. 0 .. now \subseteq 0 .. MaxTime /\ now \in Nat
    BY BoundsAssumption DEF IInv, TypeOK
  <2>2. t \in [step : Limits \union {"deliver", "request"}, company : Companies,
                device : Devices, ip : ClientIps, at : 0 .. now]
    BY <1>1, Shapes DEF IInv
  <2> QED
    BY <2>1, <2>2
<1>3. q \in Request /\ q.at = t.at /\ q.status = "PENDING" /\ q.failed = 0
  BY <1>2, TimesAssumption DEF Request
<1>4. requests \in Seq(Request)
  BY DEF IInv, TypeOK
<1> HIDE DEF q
<1>5. /\ requests' \in Seq(Request) /\ RequestIds' = RequestIds \union {n} /\ n \notin RequestIds
      /\ requests'[n] = q /\ \A i \in RequestIds : requests'[i] = requests[i]
  BY <1>1, <1>3, <1>4 DEF RequestIds
<1> HIDE DEF n
<1>6. Transaction \subseteq Transaction'
  BY <1>1, <1>2, <1>5, TransactionsStay
<1>7. /\ EventsGrow(new)
      /\ \A j : OfRequest("FAILED", j)' = OfRequest("FAILED", j)
  <2>1. \A e \in new : e.type # "FAILED"
    BY DEF RequestedEvent
  <2>2. TypeOK /\ EventsAreNumbered /\ IsFiniteSet(new)
    BY FS_Singleton DEF IInv
  <2> HIDE DEF new
  <2> QED
    BY <1>1, <2>1, <2>2, FailuresStay
<1>8. Event \subseteq Event' /\ new \subseteq Event'
  <2>1. Event \subseteq Event'
    BY <1>5 DEF Event, ClientIps
  <2>2. RequestedEvent(t) \in Event
    BY <1>2 DEF RequestedEvent, Event
  <2> QED
    BY <2>1, <2>2
<1>9. \A v \in Workers : txn'[v] = IF v = w THEN Idle ELSE txn[v]
  BY <1>1 DEF End, IInv, TypeOK
<1>10. Idle \in Transaction /\ Idle.step # "save"
  BY DEF Transaction, Idle
<1>11. TypeOK'
  <2>1. txn' \in [Workers -> Transaction']
    BY <1>1, <1>6, <1>10 DEF End, IInv, TypeOK
  <2>2. sessions' \in Seq(Session')
    <3>1. Session \subseteq Session'
      BY <1>5 DEF Session
    <3>2. sessions \in Seq(Session)
      BY DEF IInv, TypeOK
    <3> QED
      BY <1>1, <3>1, <3>2
  <2>3. file' \in [Devices -> SessionIds' \union {Nothing}]
    BY <1>1 DEF IInv, TypeOK, SessionIds
  <2>4. AreRows(events', Event')
    BY <1>7, <1>8 DEF IInv, TypeOK, EventsGrow, AreRows
  <2>5. /\ now' \in 0 .. MaxTime /\ deployed' \subseteq Workers /\ deployed' # {}
        /\ AreRows(texts', Text)
    BY <1>1 DEF IInv, TypeOK
  <2>6. requests' \in Seq(Request)
    BY <1>5
  <2>7. Text' = Text /\ Request' = Request
    BY DEF Text, Request
  <2> QED
    BY <2>1, <2>2, <2>3, <2>4, <2>5, <2>6, <2>7 DEF TypeOK
<1>12. CallsApart'
  BY <1>9 DEF IInv, CallsApart
<1>13. RowsAreTrue'
  <2>1. ASSUME NEW v \in Workers, txn'[v].step = "save"
        PROVE  RowIsTrue(txn[v])'
    <3>1. txn'[v] = txn[v]
      BY <1>9, <1>10, <2>1
    <3>2. txn[v].request \in RequestIds /\ RowIsTrue(txn[v])
      BY <2>1, <3>1, ReadRow DEF IInv, RowsAreTrue
    <3>3. requests'[txn[v].request] = requests[txn[v].request]
      BY <1>5, <3>2
    <3> QED
      BY <3>1, <3>2, <3>3 DEF RowIsTrue, RegisterFailedAttempt
  <2> QED
    BY <2>1 DEF RowsAreTrue
<1>14. RequestsArePast'
  <2>1. t.at <= now /\ now' = now
    BY <1>1, <1>2
  <2>2. q.at <= now
    BY <1>3, <2>1
  <2> HIDE DEF t
  <2> QED
    BY <1>5, <2>1, <2>2 DEF IInv, RequestsArePast
<1>15. FailuresAreCounted'
  <2>1. OfRequest("FAILED", n) = 0
    <3>1. [type |-> "FAILED", request |-> n] \notin Event
      BY <1>5 DEF Event
    <3>2. Equals(events, [type |-> "FAILED", request |-> n]) = {}
      BY <3>1 DEF IInv, TypeOK, Equals, AreRows
    <3> QED
      BY <3>2, FS_EmptySet DEF OfRequest
  <2>2. 0 # MaxFailed
    BY TimesAssumption
  <2>3. \A j \in RequestIds' :
           /\ requests'[j].failed = OfRequest("FAILED", j)
           /\ requests'[j].status = "DENIED" <=> requests'[j].failed = MaxFailed
    BY <1>3, <1>5, <2>1, <2>2 DEF IInv, FailuresAreCounted
  <2> QED
    BY <1>7, <2>3 DEF FailuresAreCounted
<1>16. SessionsMatchRequests'
  <2>1. \A s \in SessionIds : sessions[s].request \in RequestIds
    <3>1. sessions \in Seq(Session)
      BY DEF IInv, TypeOK
    <3>2. \A s \in SessionIds : sessions[s] \in Session
      BY <3>1 DEF SessionIds
    <3> QED
      BY <3>2 DEF Session
  <2>2. SessionIds' = SessionIds /\ sessions' = sessions
    BY <1>1 DEF SessionIds
  <2>3. \A s \in SessionIds : SessionIsVerified(s)'
    BY <1>5, <2>1, <2>2 DEF IInv, SessionsMatchRequests, SessionIsVerified
  <2>4. \A j \in RequestIds' : requests'[j].status = "VERIFIED" =>
          \E s \in SessionIds : sessions[s].request = j
    BY <1>3, <1>5 DEF IInv, SessionsMatchRequests
  <2> QED
    BY <2>2, <2>3, <2>4 DEF IInv, SessionsMatchRequests
<1>17. FilesAreOwn'
  BY <1>1 DEF IInv, FilesAreOwn
<1> QED
  BY <1>7, <1>11, <1>12, <1>13, <1>14, <1>15, <1>16, <1>17 DEF IInv, EventsGrow

LEMMA NextIInv == IInv /\ [Next]_vars => IInv'
<1> SUFFICES ASSUME IInv, [Next]_vars PROVE IInv'
  OBVIOUS
<1>1. CASE TimePasses
  BY <1>1, ClockIInv
<1>2. ASSUME NEW w \in Workers, Arrive(w)
      PROVE  IInv'
  BY <1>2, ArriveIInv
<1>3. ASSUME NEW w \in Workers, Work(w)
      PROVE  IInv'
  BY <1>3, RequestingIInv, RequestIInv, ExpiryIInv, FailureIInv, VerifiedIInv DEF Work
<1>4. ASSUME NEW w \in Workers, RollsBack(w)
      PROVE  IInv'
  BY <1>4, EndIInv DEF RollsBack, tables
<1>5. CASE UNCHANGED vars
  <2>1. UNCHANGED <<now, deployed, requests, sessions, events, texts, txn, file>>
    BY <1>5 DEF vars, tables
  <2>2. RequestIds' = RequestIds /\ SessionIds' = SessionIds
    BY <2>1 DEF RequestIds, SessionIds
  <2>3. Transaction' = Transaction /\ Session' = Session /\ Event' = Event
    BY <2>1, <2>2 DEF Transaction, Session, Event
  <2>4. TypeOK'
    BY <2>1, <2>2, <2>3 DEF IInv, TypeOK
  <2>5. RowsAreTrue' /\ CallsApart' /\ RequestsArePast'
    BY <2>1, <2>2 DEF IInv, RowsAreTrue, RowIsTrue, RegisterFailedAttempt, CallsApart, RequestsArePast
  <2>6. FailuresAreCounted'
    BY <2>1, <2>2 DEF IInv, FailuresAreCounted, OfRequest, Equals
  <2>8. EventsAreNumbered'
    BY <2>1 DEF IInv, EventsAreNumbered
  <2>7. SessionsMatchRequests' /\ FilesAreOwn'
    BY <2>1, <2>2 DEF IInv, SessionsMatchRequests, SessionIsVerified, FilesAreOwn
  <2> QED
    BY <2>4, <2>5, <2>6, <2>7, <2>8 DEF IInv
<1> QED
  BY <1>1, <1>2, <1>3, <1>4, <1>5 DEF Next

-----------------------------------------------------------------------------
(* The limits.  A call that is past a limit and has not saved its request yet   *)
(* counts with the saved ones: the count may not rise later.                   *)

\* The steps at which a limit has been looked up.
Passed(limit) ==
  {"deliver", "request"} \union CASE limit = "company" -> {"device", "ip"}
                                  [] limit = "device" -> {"ip"}
                                  [] limit = "ip" -> {}

InWindow(at, t) == t - Window <= at /\ at <= t

\* Whom a limit may be about.
Named == (Companies \union Devices \union Ips) \ {NoIp}

\* The requests of x that are saved, and the calls that are going to save one.
Requested(limit, x, t) ==
  {r \in events : r.event.type = "REQUESTED" /\ r.event[limit] = x /\ InWindow(r.event.at, t)}
Opening(limit, x, t) ==
  {w \in Workers : txn[w].step \in Passed(limit) /\ txn[w][limit] = x /\ InWindow(txn[w].at, t)}

\* How many calls may be past the limit at once.
AtOnce(limit) == IF limit = "device" THEN 1 ELSE Cardinality(deployed)

Limited(limit, x, t) ==
  Cardinality(Requested(limit, x, t)) + Cardinality(Opening(limit, x, t))
    <= MaxPer[limit] + AtOnce(limit) - 1

WorkersAreDeployed == \A w \in Workers : txn[w] # Idle => w \in deployed

LimitInv ==
  /\ WorkersAreDeployed
  /\ \A limit \in Limits, x \in Named, t \in 0 .. MaxTime :
       Limited(limit, x, t)

\* The deployment has workers, and can be counted.
LEMMA DeploymentFits ==
  ASSUME TypeOK
  PROVE  /\ IsFiniteSet(deployed) /\ Cardinality(deployed) \in Nat /\ Cardinality(deployed) >= 1
         /\ \A limit \in Limits : AtOnce(limit) \in Nat /\ AtOnce(limit) >= 1
<1>1. deployed \subseteq Workers /\ deployed # {} /\ IsFiniteSet(deployed)
  BY BoundsAssumption, FS_Subset DEF TypeOK
<1>2. Cardinality(deployed) \in Nat /\ Cardinality(deployed) >= 1
  BY <1>1, FS_CardinalityType, FS_EmptySet
<1> QED
  BY <1>1, <1>2 DEF AtOnce

\* The calls that count are served by deployed workers.
LEMMA OpeningCalls ==
  ASSUME TypeOK, WorkersAreDeployed, NEW limit \in Limits, NEW x, NEW t
  PROVE  /\ Opening(limit, x, t) \subseteq deployed \intersect Workers
         /\ \A w \in Opening(limit, x, t) :
              txn[w] # Idle /\ (limit = "device" => txn[w].device = x)
<1>1. ASSUME NEW w \in Opening(limit, x, t)
      PROVE  /\ w \in Workers /\ txn[w] # Idle /\ (limit = "device" => txn[w].device = x)
  <2>1. w \in Workers /\ txn[w].step \in Limits \union {"deliver", "request"} /\ txn[w][limit] = x
    BY <1>1 DEF Opening, Passed, Limits
  <2> QED
    BY <2>1, Shapes
<1> QED
  BY <1>1 DEF WorkersAreDeployed

\* One call, or one of each deployed worker.
LEMMA CallsFit ==
  ASSUME TypeOK, NEW limit \in Limits, NEW S, S \subseteq deployed,
         limit = "device" => \A v, w \in S : v = w
  PROVE  IsFiniteSet(S) /\ Cardinality(S) \in Nat /\ Cardinality(S) <= AtOnce(limit)
<1>1. IsFiniteSet(S) /\ Cardinality(S) \in Nat /\ Cardinality(S) <= Cardinality(deployed)
  BY DeploymentFits, FS_Subset, FS_CardinalityType
<1>2. (\A v, w \in S : v = w) => Cardinality(S) <= 1
  <2>1. CASE S = {}
    BY <2>1, FS_EmptySet
  <2>2. ASSUME NEW w \in S, \A u, v \in S : u = v
        PROVE  Cardinality(S) <= 1
    <3>1. S = {w}
      BY <2>2
    <3> QED
      BY <3>1, FS_Singleton
  <2> QED
    BY <2>1, <2>2
<1> QED
  BY <1>1, <1>2 DEF AtOnce

LEMMA RequestedFits ==
  ASSUME TypeOK, NEW limit, NEW x, NEW t
  PROVE  IsFiniteSet(Requested(limit, x, t)) /\ Cardinality(Requested(limit, x, t)) \in Nat
<1>1. Requested(limit, x, t) \subseteq events /\ IsFiniteSet(events)
  BY DEF Requested, TypeOK, AreRows
<1> QED
  BY <1>1, FS_Subset, FS_CardinalityType

\* A step that saves no request and takes no call past a limit.
LEMMA LimitedStays ==
  ASSUME IInv, IInv', WorkersAreDeployed, WorkersAreDeployed', UNCHANGED deployed,
         NEW limit \in Limits, NEW x, NEW t, Limited(limit, x, t),
         Requested(limit, x, t)' = Requested(limit, x, t),
         Opening(limit, x, t)' \subseteq Opening(limit, x, t)
  PROVE  Limited(limit, x, t)'
<1>1. PICK S, T : S = Opening(limit, x, t) /\ T = Opening(limit, x, t)'
  OBVIOUS
<1>2. IsFiniteSet(S) /\ Cardinality(S) \in Nat /\ T \subseteq S
  <2>1. S \subseteq deployed /\ IsFiniteSet(deployed)
    BY <1>1, OpeningCalls, DeploymentFits DEF IInv
  <2> QED
    BY <1>1, <2>1, FS_Subset, FS_CardinalityType
<1>3. Cardinality(T) \in Nat /\ Cardinality(T) <= Cardinality(S)
  BY <1>2, FS_Subset, FS_CardinalityType
<1>4. PICK k : k = Cardinality(Requested(limit, x, t)) /\ k \in Nat
  BY RequestedFits DEF IInv
<1>5. PICK m : m = MaxPer[limit] + AtOnce(limit) - 1 /\ m \in Int
  BY DeploymentFits, LimitsAssumption DEF IInv
<1>6. k + Cardinality(S) <= m
  BY <1>1, <1>4, <1>5 DEF Limited
<1>7. k + Cardinality(T) <= m
  BY <1>2, <1>3, <1>4, <1>5, <1>6
<1>8. AtOnce(limit)' = AtOnce(limit)
  BY DEF AtOnce
<1> QED
  BY <1>1, <1>4, <1>5, <1>7, <1>8 DEF Limited

\* Events of other types do not count.
LEMMA RequestedStays ==
  ASSUME NEW new, Adds(new), \A e \in new : e.type # "REQUESTED", NEW limit, NEW x, NEW t
  PROVE  Requested(limit, x, t)' = Requested(limit, x, t)
<1>1. events \subseteq events' /\ \A r \in events' \ events : r.event \in new
  BY DEF Adds, WithNew
<1>2. \A r : r \in Requested(limit, x, t)' <=> r \in Requested(limit, x, t)
  BY <1>1 DEF Requested, InWindow
<1> QED
  BY <1>2

\* A call that is not past the limit is none of those that count.
LEMMA OpeningShrinks ==
  ASSUME NEW w \in Workers, \A v \in Workers \ {w} : txn'[v] = txn[v],
         NEW limit, NEW x, NEW t, txn'[w].step \notin Passed(limit)
  PROVE  Opening(limit, x, t)' \subseteq Opening(limit, x, t)
BY DEF Opening, Passed, InWindow

\* A worker of the deployment takes a call, and the deployment stays.
LEMMA DeployedStays ==
  ASSUME TypeOK, WorkersAreDeployed, [Next]_vars
  PROVE  WorkersAreDeployed' /\ UNCHANGED deployed
<1>1. ASSUME NEW w \in Workers, NEW t, txn' = [txn EXCEPT ![w] = t], UNCHANGED deployed,
             t # Idle => w \in deployed
      PROVE  WorkersAreDeployed' /\ UNCHANGED deployed
  BY <1>1 DEF TypeOK, WorkersAreDeployed
<1>2. CASE TimePasses \/ UNCHANGED vars
  BY <1>2 DEF TimePasses, vars, WorkersAreDeployed
<1>3. ASSUME NEW w \in Workers, Arrive(w)
      PROVE  WorkersAreDeployed' /\ UNCHANGED deployed
  <2>1. PICK start : Begin(w, start)
    BY <1>3 DEF Arrive, RequestAuditorAccess, VerifyAuditorAccess
  <2> QED
    BY <1>1, <2>1 DEF Begin
<1>4. ASSUME NEW w \in Workers, Work(w) \/ RollsBack(w)
      PROVE  WorkersAreDeployed' /\ UNCHANGED deployed
  <2>1. UNCHANGED deployed /\ (End(w) \/ \E step : Continue(w, step))
    BY <1>4 DEF Work, RollsBack, EnforceRateLimit, DeliverOtp, SaveRequest, SaveExpired,
                SaveFailure, SaveVerified
  <2>2. txn[w] # Idle
    BY <1>4, Shapes DEF Work, RollsBack, EnforceRateLimit, DeliverOtp, SaveRequest, SaveExpired,
                SaveFailure, SaveVerified
  <2>3. w \in deployed
    BY <2>2 DEF WorkersAreDeployed
  <2>4. PICK t : txn' = [txn EXCEPT ![w] = t]
    BY <2>1 DEF End, Continue
  <2> QED
    BY <1>1, <2>1, <2>3, <2>4
<1> QED
  BY <1>2, <1>3, <1>4 DEF Next

\* The calls that begin, that end without a request, and the clock.
LEMMA OthersKeepLimits ==
  ASSUME IInv, IInv', WorkersAreDeployed, WorkersAreDeployed', UNCHANGED deployed,
         NEW limit \in Limits, NEW x, NEW t, Limited(limit, x, t),
         NEW w \in Workers,
         \/ Arrive(w)
         \/ End(w) /\ (UNCHANGED events \/ \E new : Adds(new) /\ \A e \in new : e.type # "REQUESTED")
         \/ UNCHANGED <<txn, events>>
  PROVE  Limited(limit, x, t)'
<1>1. Requested(limit, x, t)' = Requested(limit, x, t)
  <2>1. UNCHANGED events => Requested(limit, x, t)' = Requested(limit, x, t)
    BY DEF Requested, InWindow
  <2>2. Arrive(w) => UNCHANGED events
    BY DEF Arrive, RequestAuditorAccess, VerifyAuditorAccess, Begin, tables
  <2> QED
    BY <2>1, <2>2, RequestedStays
<1>2. txn \in [Workers -> Transaction]
  BY DEF IInv, TypeOK
<1>3. Opening(limit, x, t)' \subseteq Opening(limit, x, t)
  <2>1. CASE Arrive(w)
    <3>1. PICK c \in Companies, d \in Devices :
            \/ \E ip \in ClientIps : RequestAuditorAccess(w, c, d, ip)
            \/ \E i \in RequestIds, right \in BOOLEAN : VerifyAuditorAccess(w, i, c, d, right)
      BY <2>1 DEF Arrive
    <3>3. PICK start : start.step \in {"company", "save"} /\ Begin(w, start)
      <4>1. ASSUME NEW ip, RequestAuditorAccess(w, c, d, ip)
            PROVE  \E start : start.step \in {"company", "save"} /\ Begin(w, start)
        <5>1. PICK start : start = [step |-> "company", company |-> c, device |-> d, ip |-> ip, at |-> now]
          OBVIOUS
        <5> QED
          BY <4>1, <5>1 DEF RequestAuditorAccess
      <4>2. ASSUME NEW i, NEW right, VerifyAuditorAccess(w, i, c, d, right)
            PROVE  \E start : start.step \in {"company", "save"} /\ Begin(w, start)
        <5>1. PICK start : start = [step |-> "save", request |-> i, company |-> c, device |-> d,
                                    at |-> now, row |-> Verified(requests[i], right)]
          OBVIOUS
        <5> QED
          BY <4>2, <5>1 DEF VerifyAuditorAccess
      <4> QED
        BY <3>1, <4>1, <4>2
    <3>2. txn'[w].step \notin Passed(limit) /\ \A v \in Workers \ {w} : txn'[v] = txn[v]
      BY <1>2, <3>3 DEF Begin, Passed, Limits
    <3> QED
      BY <3>2, OpeningShrinks
  <2>2. CASE End(w)
    <3>1. txn'[w].step \notin Passed(limit) /\ \A v \in Workers \ {w} : txn'[v] = txn[v]
      BY <1>2, <2>2 DEF End, Idle, Passed, Limits
    <3> QED
      BY <3>1, OpeningShrinks
  <2>3. CASE UNCHANGED txn
    BY <2>3 DEF Opening, InWindow
  <2> QED
    BY <2>1, <2>2, <2>3
<1> QED
  BY <1>1, <1>3, LimitedStays

\* A call that is texted was counted before.
LEMMA DeliveryKeepsLimits ==
  ASSUME IInv, IInv', WorkersAreDeployed, WorkersAreDeployed', UNCHANGED deployed,
         NEW limit \in Limits, NEW x, NEW t, Limited(limit, x, t),
         NEW w \in Workers, DeliverOtp(w)
  PROVE  Limited(limit, x, t)'
<1>1. txn \in [Workers -> Transaction] /\ UNCHANGED events /\ txn[w].step = "deliver"
  BY DEF IInv, TypeOK, DeliverOtp, tables
<1>2. PICK c : c = txn[w] /\ c \in [step : Limits \union {"deliver", "request"}, company : Companies,
                                   device : Devices, ip : ClientIps, at : 0 .. now]
  BY <1>1, Shapes DEF IInv
<1>3. PICK d : d = [c EXCEPT !.step = "request"]
  OBVIOUS
<1>4. txn'[w] = d /\ \A v \in Workers \ {w} : txn'[v] = txn[v]
  BY <1>1, <1>2, <1>3 DEF DeliverOtp, Continue
<1>5. d[limit] = c[limit] /\ d.at = c.at /\ c.step \in Passed(limit)
  BY <1>1, <1>2, <1>3 DEF Limits, Passed
<1>6. Opening(limit, x, t)' \subseteq Opening(limit, x, t)
  BY <1>2, <1>4, <1>5 DEF Opening, InWindow
<1>7. Requested(limit, x, t)' = Requested(limit, x, t)
  BY <1>1 DEF Requested, InWindow
<1> QED
  BY <1>6, <1>7, LimitedStays

\* What a call counts at a limit is at least what any window has that it will be in.
LEMMA LookUpCounts ==
  ASSUME IInv, NEW limit \in Limits, NEW c, c.at \in Int, NEW t \in Int, c.at <= t,
         ~(CountRecent(limit, c) >= MaxPer[limit])
  PROVE  Cardinality(Requested(limit, c[limit], t)) <= MaxPer[limit] - 1
<1>1. PICK S : S = {r \in events : /\ r.event.type = "REQUESTED" /\ r.event[limit] = c[limit]
                                  /\ r.event.at >= c.at - Window}
  OBVIOUS
<1>2. IsFiniteSet(S) /\ Cardinality(S) \in Nat
  <2>1. S \subseteq events /\ IsFiniteSet(events)
    BY <1>1 DEF IInv, TypeOK, AreRows
  <2> QED
    BY <2>1, FS_Subset, FS_CardinalityType
<1>3. Requested(limit, c[limit], t) \subseteq S
  <2>1. \A r \in events : r.event.type = "REQUESTED" => r.event.at \in Int
    <3>1. \A r \in events : r.event \in Event
      BY DEF IInv, TypeOK, AreRows
    <3> QED
      BY <3>1, BoundsAssumption DEF Event
  <2> QED
    BY <1>1, <2>1, TimesAssumption DEF Requested, InWindow
<1>4. CountRecent(limit, c) = Cardinality(S)
  BY <1>1 DEF CountRecent, Count
<1>5. Cardinality(Requested(limit, c[limit], t)) <= Cardinality(S)
  BY <1>2, <1>3, FS_Subset
<1>6. Cardinality(Requested(limit, c[limit], t)) \in Nat /\ MaxPer[limit] \in Nat
  BY RequestedFits, LimitsAssumption DEF IInv
<1> QED
  BY <1>2, <1>4, <1>5, <1>6

\* A call that goes past a limit finds less requests than the limit.
LEMMA LookUpKeepsLimits ==
  ASSUME IInv, IInv', WorkersAreDeployed, WorkersAreDeployed', UNCHANGED deployed,
         NEW limit \in Limits, NEW x, x # NoIp, NEW t \in Int, Limited(limit, x, t),
         NEW w \in Workers, EnforceRateLimit(w), UNCHANGED events
  PROVE  Limited(limit, x, t)'
<1>1. txn \in [Workers -> Transaction] /\ txn[w].step \in Limits
  BY DEF IInv, TypeOK, EnforceRateLimit
<1>2. PICK c : c = txn[w] /\ c \in [step : Limits \union {"deliver", "request"}, company : Companies,
                                   device : Devices, ip : ClientIps, at : 0 .. now]
  BY <1>1, Shapes DEF IInv
<1>3. Requested(limit, x, t)' = Requested(limit, x, t)
  BY DEF Requested, InWindow
<1>4. CASE Opening(limit, x, t)' \subseteq Opening(limit, x, t)
  BY <1>3, <1>4, LimitedStays
<1>5. CASE ~(Opening(limit, x, t)' \subseteq Opening(limit, x, t))
  <2>1. PICK v \in Workers : v \in Opening(limit, x, t)' /\ v \notin Opening(limit, x, t)
    BY <1>5 DEF Opening
  <2>2. v = w
    <3>1. \A u \in Workers \ {w} : txn'[u] = txn[u]
      BY <1>1 DEF EnforceRateLimit, Continue, End
    <3> QED
      BY <2>1, <3>1 DEF Opening, InWindow
  <2>3. PICK d : d = [c EXCEPT !.step = AfterLimit(c)]
    OBVIOUS
  <2>4. txn'[w].step \in Passed(limit) /\ txn'[w][limit] = x /\ InWindow(txn'[w].at, t)
    BY <2>1, <2>2 DEF Opening, InWindow
  <2>5. ~LimitReached(c) /\ txn'[w] = d
    <3>1. Idle.step \notin Passed(limit)
      BY DEF Idle, Passed, Limits
    <3>2. ~End(w)
      BY <1>1, <2>4, <3>1 DEF End
    <3> QED
      BY <1>1, <1>2, <2>3, <3>2 DEF EnforceRateLimit, Continue
  <2>6. d[limit] = c[limit] /\ d.at = c.at /\ d.step = AfterLimit(c)
    BY <1>2, <2>3 DEF Limits
  <2>7. c[limit] = x /\ InWindow(c.at, t) /\ AfterLimit(c) \in Passed(limit)
    BY <2>4, <2>5, <2>6
  <2>8. c.step \notin Passed(limit)
    BY <1>2, <2>1, <2>2, <2>7 DEF Opening
  <2>9. c.step = limit
    <3>1. limit = "ip" => c.ip # NoIp
      BY <1>2, <2>7
    <3> QED
      BY <1>1, <1>2, <2>7, <2>8, <3>1 DEF AfterLimit, Passed, Limits
  <2>10. c.at \in Int /\ c.at <= t
    BY <1>2, <2>7 DEF InWindow
  <2>11. Cardinality(Requested(limit, x, t)) <= MaxPer[limit] - 1
    BY <2>5, <2>7, <2>9, <2>10, LookUpCounts DEF LimitReached
  <2>12. Cardinality(Requested(limit, x, t)) \in Nat
    BY RequestedFits DEF IInv
  <2>13. PICK S : S = Opening(limit, x, t)'
    OBVIOUS
  <2>14. S \subseteq Opening(limit, x, t) \union {w}
    <3>1. \A u \in Workers \ {w} : txn'[u] = txn[u]
      BY <1>1 DEF EnforceRateLimit, Continue, End
    <3> QED
      BY <2>13, <3>1 DEF Opening, InWindow
  <2>15. txn[w] # Idle
    BY <1>1, <1>2, Shapes DEF IInv
  <2>16. S \subseteq deployed
    BY <2>14, <2>15, OpeningCalls DEF IInv, WorkersAreDeployed
  <2>17. limit = "device" => \A u \in Opening(limit, x, t) : u = w
    <3>1. limit = "device" => txn[w].device = x
      BY <1>2, <2>7
    <3> QED
      BY <2>15, <3>1, OpeningCalls DEF IInv, CallsApart
  <2>18. Cardinality(S) \in Nat /\ Cardinality(S) <= AtOnce(limit)
    BY <2>14, <2>16, <2>17, CallsFit DEF IInv
  <2>19. PICK k, n, m, a : /\ k = Cardinality(Requested(limit, x, t)) /\ n = Cardinality(S)
                           /\ m = MaxPer[limit] /\ a = AtOnce(limit)
    OBVIOUS
  <2>20. k \in Nat /\ n \in Nat /\ m \in Nat /\ a \in Nat /\ k <= m - 1 /\ n <= a
    BY <2>11, <2>12, <2>18, <2>19, DeploymentFits, LimitsAssumption DEF IInv
  <2>21. k + n <= m + a - 1
    BY <2>20
  <2>22. AtOnce(limit)' = a /\ Cardinality(Requested(limit, x, t)') = k
    BY <1>3, <2>19 DEF AtOnce
  <2> QED
    BY <2>13, <2>19, <2>21, <2>22 DEF Limited
<1> QED
  BY <1>4, <1>5

\* The request that a call saves takes the place of the call.
LEMMA SaveKeepsLimits ==
  ASSUME IInv, IInv', WorkersAreDeployed, WorkersAreDeployed', UNCHANGED deployed,
         NEW limit \in Limits, NEW x, NEW t, Limited(limit, x, t),
         NEW w \in Workers, SaveRequest(w)
  PROVE  Limited(limit, x, t)'
<1>1. txn \in [Workers -> Transaction] /\ txn[w].step = "request"
  BY DEF IInv, TypeOK, SaveRequest
<1>2. PICK c : c = txn[w] /\ c \in [step : Limits \union {"deliver", "request"}, company : Companies,
                                   device : Devices, ip : ClientIps, at : 0 .. now]
  BY <1>1, Shapes DEF IInv
<1>3. PICK e : e = RequestedEvent(c)
  OBVIOUS
<1>4. e.type = "REQUESTED" /\ e[limit] = c[limit] /\ e.at = c.at
  BY <1>2, <1>3 DEF RequestedEvent, Limits
<1>5. PICK row : row = [event |-> e, n |-> Cardinality(Equals(events, e))]
  OBVIOUS
<1>6. events' = events \union {row} /\ row.event = e
  BY <1>2, <1>3, <1>5 DEF SaveRequest, Adds, WithNew
<1>7. /\ \A v \in Workers \ {w} : txn'[v] = txn[v]
      /\ txn'[w].step \notin Passed(limit)
  BY <1>1 DEF SaveRequest, End, Idle, Passed, Limits
<1>8. Opening(limit, x, t)' \subseteq Opening(limit, x, t) \ {w}
  BY <1>7 DEF Opening, InWindow
<1>9. w \in Opening(limit, x, t) <=> c[limit] = x /\ InWindow(c.at, t)
  BY <1>1, <1>2 DEF Opening, Passed
<1>10. CASE w \notin Opening(limit, x, t)
  <2>1. \A r : r \in Requested(limit, x, t)' <=> r \in Requested(limit, x, t)
    BY <1>4, <1>6, <1>9, <1>10 DEF Requested, InWindow
  <2>2. Requested(limit, x, t)' = Requested(limit, x, t)
    BY <2>1
  <2> QED
    BY <1>8, <2>2, LimitedStays
<1>11. CASE w \in Opening(limit, x, t)
  <2>1. PICK S, T : S = Opening(limit, x, t) /\ T = Opening(limit, x, t)'
    OBVIOUS
  <2>2. IsFiniteSet(S) /\ Cardinality(S) \in Nat /\ w \in S /\ T \subseteq S \ {w}
    <3>1. S \subseteq deployed /\ IsFiniteSet(deployed)
      BY <2>1, OpeningCalls, DeploymentFits DEF IInv
    <3> QED
      BY <1>8, <1>11, <2>1, <3>1, FS_Subset, FS_CardinalityType
  <2>3. IsFiniteSet(S \ {w}) /\ Cardinality(S \ {w}) = Cardinality(S) - 1
    BY <2>2, FS_RemoveElement
  <2>4. Cardinality(T) \in Nat /\ Cardinality(T) <= Cardinality(S) - 1
    BY <2>2, <2>3, FS_Subset, FS_CardinalityType
  <2>5. PICK R, Q : R = Requested(limit, x, t) /\ Q = Requested(limit, x, t)'
    OBVIOUS
  <2>6. IsFiniteSet(R) /\ Cardinality(R) \in Nat
    BY <2>5, RequestedFits DEF IInv
  <2>7. Q \subseteq R \union {row}
    BY <1>6, <2>5 DEF Requested, InWindow
  <2>8. Cardinality(Q) \in Nat /\ Cardinality(Q) <= Cardinality(R) + 1
    <3>1. /\ IsFiniteSet(R \union {row}) /\ Cardinality(R \union {row}) \in Nat
          /\ Cardinality(R \union {row}) <= Cardinality(R) + 1
      <4>1. /\ IsFiniteSet(R \union {row})
            /\ Cardinality(R \union {row}) \in {Cardinality(R), Cardinality(R) + 1}
        BY <2>6, FS_AddElement
      <4> QED
        BY <2>6, <4>1
    <3>2. IsFiniteSet(Q) /\ Cardinality(Q) <= Cardinality(R \union {row})
      BY <2>7, <3>1, FS_Subset
    <3>3. Cardinality(Q) \in Nat
      BY <3>2, FS_CardinalityType
    <3> QED
      BY <2>6, <3>1, <3>2, <3>3
  <2>9. PICK m : m = MaxPer[limit] + AtOnce(limit) - 1 /\ m \in Int
    BY DeploymentFits, LimitsAssumption DEF IInv
  <2>10. Cardinality(R) + Cardinality(S) <= m
    BY <2>1, <2>5, <2>9 DEF Limited
  <2>11. Cardinality(Q) + Cardinality(T) <= m
    BY <2>2, <2>4, <2>6, <2>8, <2>9, <2>10
  <2>12. AtOnce(limit)' = AtOnce(limit)
    BY DEF AtOnce
  <2> QED
    BY <2>1, <2>5, <2>9, <2>11, <2>12 DEF Limited
<1> QED
  BY <1>10, <1>11

LEMMA NextLimitInv == IInv /\ IInv' /\ LimitInv /\ [Next]_vars => LimitInv'
<1> SUFFICES ASSUME IInv, IInv', LimitInv, [Next]_vars PROVE LimitInv'
  OBVIOUS
<1>1. WorkersAreDeployed' /\ UNCHANGED deployed /\ WorkersAreDeployed
  BY DeployedStays DEF IInv, LimitInv
<1>2. ASSUME NEW limit \in Limits, NEW x \in Named, NEW t \in 0 .. MaxTime
      PROVE  Limited(limit, x, t)'
  <2>1. Limited(limit, x, t) /\ x # NoIp /\ t \in Int
    BY BoundsAssumption DEF LimitInv, Named
  <2>2. CASE TimePasses \/ UNCHANGED vars
    <3>1. UNCHANGED <<txn, events>>
      BY <2>2 DEF TimePasses, vars, tables
    <3>2. PICK w \in Workers : TRUE
      BY DEF IInv, TypeOK
    <3> QED
      BY <1>1, <2>1, <3>1, <3>2, OthersKeepLimits
  <2>3. ASSUME NEW w \in Workers, Arrive(w)
        PROVE  Limited(limit, x, t)'
    BY <1>1, <2>1, <2>3, OthersKeepLimits
  <2>4. ASSUME NEW w \in Workers, EnforceRateLimit(w)
        PROVE  Limited(limit, x, t)'
    <3>1. CASE UNCHANGED events
      BY <1>1, <2>1, <2>4, <3>1, LookUpKeepsLimits
    <3>2. CASE Adds({[type |-> "BLOCKED", request |-> Nothing]}) /\ End(w)
      <4>1. \A e \in {[type |-> "BLOCKED", request |-> Nothing]} : e.type # "REQUESTED"
        OBVIOUS
      <4> QED
        BY <1>1, <2>1, <3>2, <4>1, OthersKeepLimits
    <3> QED
      BY <2>4, <3>1, <3>2 DEF EnforceRateLimit
  <2>5. ASSUME NEW w \in Workers, SaveExpired(w) \/ SaveFailure(w) \/ SaveVerified(w) \/ RollsBack(w)
        PROVE  Limited(limit, x, t)'
    <3>1. CASE SaveExpired(w) \/ RollsBack(w)
      <4>1. End(w) /\ UNCHANGED events
        BY <3>1 DEF SaveExpired, RollsBack, tables
      <4> QED
        BY <1>1, <2>1, <4>1, OthersKeepLimits
    <3>2. CASE SaveFailure(w)
      <4>1. End(w) /\ Adds(FailureEvents(txn[w])) /\ \A e \in FailureEvents(txn[w]) : e.type # "REQUESTED"
        BY <3>2 DEF SaveFailure, FailureEvents
      <4> QED
        BY <1>1, <2>1, <4>1, OthersKeepLimits
    <3>3. CASE SaveVerified(w)
      <4>1. PICK new : new = {[type |-> "VERIFIED", request |-> txn[w].request]}
        OBVIOUS
      <4>2. End(w) /\ Adds(new) /\ \A e \in new : e.type # "REQUESTED"
        BY <3>3, <4>1 DEF SaveVerified
      <4> QED
        BY <1>1, <2>1, <4>2, OthersKeepLimits
    <3> QED
      BY <2>5, <3>1, <3>2, <3>3
  <2>6. ASSUME NEW w \in Workers, DeliverOtp(w) \/ SaveRequest(w)
        PROVE  Limited(limit, x, t)'
    BY <1>1, <2>1, <2>6, DeliveryKeepsLimits, SaveKeepsLimits
  <2> QED
    BY <2>2, <2>3, <2>4, <2>5, <2>6 DEF Next, Work
<1> QED
  BY <1>1, <1>2 DEF LimitInv

LEMMA InitLimitInv == Init => LimitInv
<1> SUFFICES ASSUME Init PROVE LimitInv
  OBVIOUS
<1>1. WorkersAreDeployed
  BY DEF Init, WorkersAreDeployed
<1>2. ASSUME NEW limit \in Limits, NEW x, NEW t
      PROVE  Limited(limit, x, t)
  <2>1. Requested(limit, x, t) = {} /\ Opening(limit, x, t) = {}
    BY DEF Init, Requested, Opening, Idle, Passed, Limits
  <2>2. Cardinality({}) = 0
    BY FS_EmptySet
  <2>3. AtOnce(limit) \in Nat /\ AtOnce(limit) >= 1 /\ MaxPer[limit] \in Nat
    BY InitIInv, DeploymentFits, LimitsAssumption DEF IInv
  <2> QED
    BY <2>1, <2>2, <2>3 DEF Limited
<1> QED
  BY <1>1, <1>2 DEF LimitInv

-----------------------------------------------------------------------------
(* The theorems.                                                             *)

\* The inductive invariant holds of every state of the system, with any number of
\* workers that take the calls of any devices in any order.
THEOREM AccessInvariance == Spec => []IInv
<1> QED
  BY InitIInv, NextIInv, PTL DEF Spec

\* The rows, the transactions and the files are what the columns may hold: no
\* request has more failed attempts than the limit (auditor_access.py), and every
\* session and file refers to a row that exists.
THEOREM TypeCorrect == Spec => []TypeOK
<1>1. IInv => TypeOK
  BY DEF IInv
<1> QED
  BY <1>1, AccessInvariance, PTL

\* With any workers and any limit, no failed attempt is lost, the last of them
\* denies the request, and a denied request opens no session
\* (verify_auditor_access.py:92-117), although the row is read without a lock.
THEOREM AttemptsCorrect == Spec => []AttemptsAreCounted
<1>1. IInv => AttemptsAreCounted
  <2> SUFFICES ASSUME IInv, NEW i \in RequestIds
               PROVE  /\ requests[i].failed = OfRequest("FAILED", i)
                      /\ requests[i].failed <= MaxFailed
                      /\ requests[i].status = "DENIED" <=> requests[i].failed = MaxFailed
                      /\ requests[i].status = "DENIED" => \A s \in SessionIds : sessions[s].request # i
    BY DEF AttemptsAreCounted
  <2>1. requests \in Seq(Request)
    BY DEF IInv, TypeOK
  <2>2. requests[i] \in Request
    BY <2>1 DEF RequestIds
  <2>3. requests[i].failed <= MaxFailed
    BY <2>2, TimesAssumption DEF Request
  <2>4. /\ requests[i].failed = OfRequest("FAILED", i)
        /\ requests[i].status = "DENIED" <=> requests[i].failed = MaxFailed
    BY DEF IInv, FailuresAreCounted
  <2>5. requests[i].status = "DENIED" => \A s \in SessionIds : sessions[s].request # i
    BY DEF IInv, SessionsMatchRequests, SessionIsVerified
  <2> QED
    BY <2>3, <2>4, <2>5
<1> QED
  BY <1>1, AccessInvariance, PTL

\* A code opens one session if it was verified and none otherwise, however often
\* it is sent and whichever workers take it (verify_auditor_access.py:79-82).
THEOREM SessionsCorrect == Spec => []OneSessionPerCode
<1>1. IInv => OneSessionPerCode
  <2> SUFFICES ASSUME IInv, NEW i \in RequestIds
               PROVE  Cardinality({s \in SessionIds : sessions[s].request = i})
                        = IF requests[i].status = "VERIFIED" THEN 1 ELSE 0
    BY DEF OneSessionPerCode
  <2> DEFINE S == {s \in SessionIds : sessions[s].request = i}
  <2>1. CASE requests[i].status = "VERIFIED"
    <3>1. PICK s \in SessionIds : sessions[s].request = i
      BY <2>1 DEF IInv, SessionsMatchRequests
    <3>2. S = {s}
      BY <3>1 DEF IInv, SessionsMatchRequests
    <3> HIDE DEF S
    <3>3. Cardinality(S) = 1
      BY <3>2, FS_Singleton
    <3> QED
      BY <2>1, <3>3 DEF S
  <2>2. CASE requests[i].status # "VERIFIED"
    <3>1. S = {}
      BY <2>2 DEF IInv, SessionsMatchRequests, SessionIsVerified
    <3> HIDE DEF S
    <3>2. Cardinality(S) = 0
      BY <3>1, FS_EmptySet
    <3> QED
      BY <2>2, <3>2 DEF S
  <2> QED
    BY <2>1, <2>2
<1> QED
  BY <1>1, AccessInvariance, PTL

\* "Solo auditores con sesion activa": whatever sessions exist and whatever calls
\* arrive, the backend answers for a company only with the session of a device
\* that asked that company and verified its code in time, while the session lasts
\* (shared/security.py), and a command that starts with the session of its file is
\* answered (auditor/app/cli.py).
THEOREM AuditorsCorrect == Spec => []OnlyAuditorsAreServed
<1>1. IInv => OnlyAuditorsAreServed
  <2> SUFFICES ASSUME IInv PROVE OnlyAuditorsAreServed
    OBVIOUS
  <2>1. \A s \in SessionIds, c \in Companies : RequireAuditorSession(s, c) =>
          LET row == requests[sessions[s].request]
          IN /\ row.company = c /\ row.device = sessions[s].device
             /\ row.at <= sessions[s].at /\ sessions[s].at <= row.at + OtpTtl
             /\ now <= sessions[s].at + SessionTtl
    BY DEF IInv, SessionsMatchRequests, SessionIsVerified, RequireAuditorSession, IsActive, ExpiresAt
  <2>2. ASSUME NEW d \in Devices, CommandStarts(d)
        PROVE  /\ sessions[file[d]].device = d
               /\ RequireAuditorSession(file[d], sessions[file[d]].company)
    <3>1. file[d] \in SessionIds /\ sessions \in Seq(Session) /\ now \in Int
      BY <2>2, BoundsAssumption DEF IInv, TypeOK, CommandStarts
    <3>2. sessions[file[d]] \in Session
      BY <3>1 DEF SessionIds
    <3>3. sessions[file[d]].at \in Int /\ SessionTtl \in Int
      BY <3>2, TimesAssumption, BoundsAssumption DEF Session
    <3>4. ~(sessions[file[d]].at + SessionTtl <= now)
      BY <2>2 DEF CommandStarts, ExpiredForClient, ExpiresAt
    <3>5. now <= sessions[file[d]].at + SessionTtl
      BY <3>1, <3>3, <3>4
    <3>6. sessions[file[d]].device = d
      BY <2>2 DEF IInv, FilesAreOwn, CommandStarts
    <3> QED
      BY <3>5, <3>6 DEF RequireAuditorSession, IsActive, ExpiresAt
  <2> QED
    BY <2>1, <2>2 DEF OnlyAuditorsAreServed
<1> QED
  BY <1>1, AccessInvariance, PTL
\* In no window does a device get more requests than its limit, and a company or an
\* address not more than one beyond it for each further worker, although the
\* limits are looked up before anything is saved (request_auditor_access.py:137-174).
THEOREM LimitsCorrect == Spec => []RequestsAreLimited
<1>1. IInv /\ LimitInv => RequestsAreLimited
  <2> SUFFICES ASSUME IInv, LimitInv, NEW limit \in Limits, NEW t \in 0 .. now, NEW r \in events,
                      r.event.type = "REQUESTED", r.event[limit] # NoIp
               PROVE  Cardinality({q \in events :
                                     /\ q.event.type = "REQUESTED" /\ q.event[limit] = r.event[limit]
                                     /\ t - Window <= q.event.at /\ q.event.at <= t})
                        <= IF limit = "device" THEN MaxPer[limit]
                           ELSE MaxPer[limit] + Cardinality(deployed) - 1
    BY DEF RequestsAreLimited, Count
  <2>1. PICK x : x = r.event[limit]
    OBVIOUS
  <2>2. x \in Named
    <3>1. r.event \in Event
      BY DEF IInv, TypeOK, AreRows
    <3>2. r.event \in [type : {"REQUESTED"}, company : Companies, device : Devices, ip : ClientIps,
                       at : 0 .. MaxTime]
      BY <3>1 DEF Event
    <3> QED
      BY <2>1, <3>2 DEF Limits, ClientIps, Named
  <2>3. t \in 0 .. MaxTime
    BY BoundsAssumption DEF IInv, TypeOK
  <2>4. Limited(limit, x, t)
    BY <2>2, <2>3 DEF LimitInv
  <2>5. Cardinality(Requested(limit, x, t)) \in Nat
    BY RequestedFits DEF IInv
  <2>6. Cardinality(Opening(limit, x, t)) \in Nat
    BY OpeningCalls, DeploymentFits, FS_Subset, FS_CardinalityType DEF IInv, LimitInv
  <2>7. AtOnce(limit) \in Nat /\ MaxPer[limit] \in Nat
    BY DeploymentFits, LimitsAssumption DEF IInv
  <2>8. Cardinality(Requested(limit, x, t)) <= MaxPer[limit] + AtOnce(limit) - 1
    BY <2>4, <2>5, <2>6, <2>7 DEF Limited
  <2> QED
    BY <2>1, <2>7, <2>8 DEF Requested, InWindow, AtOnce
<1> QED
  BY <1>1, InitIInv, InitLimitInv, NextIInv, NextLimitInv, AccessInvariance, PTL DEF Spec
=============================================================================
