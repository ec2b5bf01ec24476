------------------------- MODULE HeartbeatMonitorProofs -------------------------
(***************************************************************************)
(* Theorems about HeartbeatMonitor, for any companies, detectors, timeout     *)
(* and bounds of the clock.                                                  *)
(*                                                                         *)
(* Types holds of every deployment.  What the recorded events mean is proved   *)
(* of the deployments without a scheduler thread: there a handler and a        *)
(* detector never overlap (OneRuns), so that what each has looked up is still   *)
(* so when it commits (HandlerInv, DetectorInv).  The instants do the rest:      *)
(* nothing is dated later than the last reading of the clock, a report is        *)
(* dated before its reception, and an absence shares its instant with no other    *)
(* kind of event (Dates, NoTies).                                              *)
(***************************************************************************)
EXTENDS HeartbeatMonitor, SequenceTheorems, TLAPS

-----------------------------------------------------------------------------
(* The inductive invariant.                                                  *)

Run == [phase : {"idle", "run"}, at : Nat, seen : Nat,
        todo : SUBSET Companies, found : SUBSET Companies]

\* Only a registration goes to no company, and only a report that shows the
\* device alive searches for an absence.
Types ==
  /\ TypeOK
  /\ handler \in [phase : {"idle", "search", "commit"}, at : Nat, staged : SUBSET Row]
  /\ handler.phase = "idle" => handler = Idle
  /\ handler # Idle => handler.at >= 1
  /\ handler.phase = "search" => DetectsRecovery(Head(outbox).kind)
  /\ \A i \in DOMAIN outbox : outbox[i].company = None => outbox[i].kind = "register"
  /\ detector \in [Detectors -> Run]
  /\ \A d \in Detectors : detector[d].phase = "run" => d \in deployed

\* Handlers and detectors run one after the other.
OneRuns ==
  /\ \A d \in Detectors : detector[d].phase = "run" => handler = Idle
  /\ \A d, e \in Detectors : detector[d].phase = "run" /\ detector[e].phase = "run" => d = e

\* Nothing is dated later than now; what a report leaves is not dated later than
\* its reception.
Dates ==
  /\ \A h \in heard : h.at <= lastSeen
  /\ \A c \in Companies : \A r \in rows[c] :
       /\ r.at <= now
       /\ r.type \in {"up", "stop"} => r.at < lastSeen
       /\ r.type = "recovered" => r.at <= lastSeen
  /\ \A i \in DOMAIN outbox : outbox[i].at <= now /\ outbox[i].at <= ReportsEnd[deployed]

NoTies ==
  \A c \in Companies : \A m \in OfType(c, "missed") :
    /\ \A r \in rows[c] : r.at = m.at => r.type = "missed"
    /\ \A i \in DOMAIN outbox : outbox[i].at # m.at

\* What a handler has read and found is still so, and older than its own instant.
HandlerInv ==
  handler # Idle =>
    LET report == Head(outbox)
        absences == {m \in Latest(report.company) : m.type = "missed"}
    IN /\ lastSeen < handler.at /\ report.at < handler.at
       /\ \A c \in Companies : \A r \in rows[c] : r.at < handler.at
       /\ \A r \in handler.staged :
            /\ r.type = "recovered" /\ r.at = handler.at
            /\ \E m \in absences : m.seen = r.seen
       /\ handler.phase = "commit" /\ DetectsRecovery(report.kind) /\ absences # {}
            => handler.staged # {}

\* So is what a detector has, and a company it found has reported since its last
\* absence.
RunInv(run) ==
  /\ run.seen = lastSeen
  /\ \A c \in Companies : \A r \in rows[c] : r.at <= run.at
  /\ \A i \in DOMAIN outbox : outbox[i].at # run.at
  /\ run.todo \union run.found # {} => run.seen + Timeout < run.at
  /\ \A c \in run.found : \A m \in OfType(c, "missed") : m.at < run.seen

DetectorInv == \A d \in Detectors : detector[d].phase = "run" => RunInv(detector[d])

\* A company with events has a newest one.
NewestExists == \A c \in Companies : rows[c] # {} => Latest(c) # {}

Facts ==
  /\ OneRuns /\ Dates /\ NoTies /\ NewestExists /\ HandlerInv /\ DetectorInv
  /\ AbsenceIsReal /\ AbsencesAreSeparate /\ RecoveryIsPaired /\ LostMeansSilent

IInv == Types /\ (Serial => Facts)
-----------------------------------------------------------------------------
(* The operators of the model.                                               *)

LEMMA Clock ==
  ASSUME TypeOK
  PROVE  /\ ReportsEnd[deployed] \in Nat /\ MaxTime[deployed] \in Nat
         /\ ReportsEnd[deployed] < MaxTime[deployed]
         /\ now \in Nat /\ 1 <= now /\ now <= MaxTime[deployed]
         /\ Later \in 1 .. MaxTime[deployed] /\ now <= Later
         /\ now < MaxTime[deployed] => Later = now + 1
         /\ now = Later => now = MaxTime[deployed]
<1>1. ReportsEnd[deployed] \in Nat /\ MaxTime[deployed] \in Nat /\ ReportsEnd[deployed] < MaxTime[deployed]
  BY BoundsAssumption DEF TypeOK
<1> QED
  BY <1>1 DEF TypeOK, Later

\* What the tables, the handler and the detectors keep.
LEMMA Typed ==
  ASSUME Types
  PROVE  /\ \A c \in Companies : \A r \in rows[c] :
              r \in Row /\ r.at \in Nat /\ r.seen \in Nat
                /\ r.type \in {"up", "stop", "missed", "recovered"}
         /\ \A h \in heard : h \in Report /\ h.at \in Nat
         /\ \A i \in DOMAIN outbox : outbox[i] \in Report /\ outbox[i].at \in Nat
         /\ lastSeen \in Nat /\ handler.at \in Nat
         /\ \A d \in Detectors : detector[d] \in Run /\ detector[d].at \in Nat /\ detector[d].seen \in Nat
<1>1. \A c \in Companies : rows[c] \subseteq Row
  BY DEF Types, TypeOK
<1>2. \A i \in DOMAIN outbox : outbox[i] \in Report
  BY DEF Types, TypeOK
<1>3. \A r \in Row : r.at \in Nat /\ r.seen \in Nat /\ r.type \in {"up", "stop", "missed", "recovered"}
  BY DEF Row
<1>4. \A h \in Report : h.at \in Nat
  BY DEF Report
<1>5. heard \subseteq Report /\ lastSeen \in Nat /\ handler.at \in Nat
  BY DEF Types, TypeOK
<1>6. \A d \in Detectors : detector[d] \in Run
  BY DEF Types
<1>7. \A d \in Detectors : detector[d].at \in Nat /\ detector[d].seen \in Nat
  BY <1>6 DEF Run
<1> QED
  BY <1>1, <1>2, <1>3, <1>4, <1>5, <1>6, <1>7

\* The oldest report, and the reports after it.
LEMMA Oldest ==
  ASSUME outbox \in Seq(Report), outbox # <<>>
  PROVE  /\ 1 \in DOMAIN outbox /\ Head(outbox) = outbox[1] /\ Head(outbox) \in Report
         /\ Tail(outbox) \in Seq(Report)
         /\ \A i \in DOMAIN Tail(outbox) : \E j \in DOMAIN outbox : Tail(outbox)[i] = outbox[j]
<1>1. Len(outbox) \in Nat \ {0} /\ DOMAIN outbox = 1 .. Len(outbox)
  OBVIOUS
<1>2. /\ Len(Tail(outbox)) = Len(outbox) - 1 /\ Tail(outbox) \in Seq(Report)
      /\ \A i \in 1 .. Len(Tail(outbox)) : Tail(outbox)[i] = outbox[i + 1]
  OBVIOUS
<1>3. \A i \in DOMAIN Tail(outbox) : i + 1 \in DOMAIN outbox /\ Tail(outbox)[i] = outbox[i + 1]
  BY <1>1, <1>2
<1>4. 1 \in DOMAIN outbox /\ Head(outbox) = outbox[1] /\ Head(outbox) \in Report
  BY <1>1
<1> QED
  BY <1>2, <1>3, <1>4

\* Without a scheduler, a detector that runs is a handler of the API.
LEMMA NoneRuns ==
  ASSUME Types, Serial, EventLoopFree
  PROVE  handler = Idle /\ \A d \in Detectors : detector[d].phase = "idle"
<1>1. deployed \subseteq Detectors
  BY NamesAssumption DEF Types, TypeOK
<1>2. deployed \subseteq Endpoints
  BY <1>1 DEF Serial, Detectors
<1>3. \A d \in Detectors : detector[d].phase # "run"
  BY <1>2 DEF Types, EventLoopFree
<1> QED
  BY <1>3 DEF EventLoopFree, Types, TypeOK

\* A report that searches for an absence is one of a company.
LEMMA SearchesInACompany ==
  ASSUME Types, handler # Idle, DetectsRecovery(Head(outbox).kind)
  PROVE  Head(outbox).company \in Companies
<1>1. outbox \in Seq(Report) /\ outbox # <<>>
  BY DEF Types, TypeOK
<1>2. Head(outbox) = outbox[1] /\ 1 \in DOMAIN outbox /\ Head(outbox) \in Report
  BY <1>1, Oldest
<1>3. Head(outbox).company # None
  BY <1>2 DEF Types, DetectsRecovery
<1> QED
  BY <1>2, <1>3 DEF Report

-----------------------------------------------------------------------------
(* The steps that write no table, no handler and no detector.                *)

LEMMA InitIInv == Init => IInv
<1> SUFFICES ASSUME Init PROVE IInv
  OBVIOUS
<1>1. MaxTime[deployed] \in Nat \ {0}
  BY BoundsAssumption DEF Init
<1>2. outbox \in Seq(Report) /\ DOMAIN outbox = {}
  BY DEF Init
<1>3. \A d \in Detectors : detector[d] = NotRunning
  BY DEF Init
<1>4. NotRunning \in Run
  BY DEF NotRunning, Run
<1>5. NotRunning.phase = "idle" /\ NotRunning.at = 0 /\ NotRunning.seen = 0
      /\ NotRunning.todo = {} /\ NotRunning.found = {}
  BY DEF NotRunning
<1>6. TypeOK
  <2>1. /\ deployed \in Deployments /\ now \in 1 .. MaxTime[deployed] /\ lastSeen \in 1 .. now
        /\ links \subseteq Companies /\ rows \in [Companies -> SUBSET Row] /\ heard \subseteq Report
    BY <1>1 DEF Init
  <2>2. /\ handler.phase \in {"idle", "search", "commit"} /\ handler.at \in 0 .. now
        /\ handler.staged \subseteq Row /\ handler = Idle
    BY DEF Init, Idle
  <2>3. \A d \in Detectors :
          /\ detector[d].phase \in {"idle", "run"}
          /\ {detector[d].at, detector[d].seen} \subseteq 0 .. now
          /\ detector[d].todo \union detector[d].found \subseteq Companies
          /\ detector[d].phase = "idle" => detector[d] = NotRunning
    BY <1>3, <1>5 DEF Init
  <2> QED
    BY <1>2, <2>1, <2>2, <2>3 DEF TypeOK
<1>7. Types
  <2>1. /\ handler \in [phase : {"idle", "search", "commit"}, at : Nat, staged : SUBSET Row]
        /\ handler = Idle /\ handler.phase = "idle"
    BY DEF Init, Idle
  <2>2. detector \in [Detectors -> Run]
    BY <1>4 DEF Init
  <2> QED
    BY <1>2, <1>3, <1>5, <1>6, <2>1, <2>2 DEF Types
<1>8. OneRuns /\ DetectorInv /\ HandlerInv
  BY <1>3, <1>5 DEF Init, OneRuns, DetectorInv, HandlerInv
<1>9. /\ heard = {} /\ \A c \in Companies : rows[c] = {}
  BY DEF Init
<1>10. \A c \in Companies : \A type : OfType(c, type) = {}
  BY <1>9 DEF OfType
<1>11. Dates /\ NoTies /\ NewestExists
  BY <1>2, <1>9, <1>10 DEF Dates, NoTies, NewestExists
<1>12. AbsenceIsReal /\ AbsencesAreSeparate /\ RecoveryIsPaired /\ LostMeansSilent
  BY <1>9, <1>10 DEF AbsenceIsReal, AbsencesAreSeparate, RecoveryIsPaired, LostMeansSilent
<1> QED
  BY <1>7, <1>8, <1>11, <1>12 DEF IInv, Facts

\* The clock, the links and the outbox: the oldest report stays while a handler
\* works with it.
LEMMA OutboxIInv ==
  ASSUME IInv, UNCHANGED <<deployed, tableVars, handler, detector>>,
         now' \in 1 .. MaxTime[deployed], now <= now', links' \subseteq Companies,
         outbox' \in Seq(Report),
         \A i \in DOMAIN outbox' :
           \/ \E j \in DOMAIN outbox : outbox'[i] = outbox[j]
           \/ /\ outbox'[i].at = now' /\ now < now' /\ now' <= ReportsEnd[deployed]
              /\ outbox'[i].company = None => outbox'[i].kind = "register",
         handler # Idle => outbox' # <<>> /\ Head(outbox') = Head(outbox)
  PROVE  IInv'
<1>1. Types /\ TypeOK /\ now \in Nat /\ now' \in Nat
  BY Clock DEF IInv, Types
<1>2. UNCHANGED <<deployed, lastSeen, rows, heard, handler, detector>>
  BY DEF tableVars
<1>3. TypeOK'
  <2>1. 0 .. now \subseteq 0 .. now' /\ 1 .. now \subseteq 1 .. now'
    BY <1>1
  <2> QED
    BY <1>1, <1>2, <2>1 DEF TypeOK
<1>4. Types'
  <2>1. \A i \in DOMAIN outbox' : outbox'[i].company = None => outbox'[i].kind = "register"
    BY <1>1 DEF Types
  <2>2. handler # Idle => handler.at >= 1 /\ Head(outbox') = Head(outbox)
    BY <1>1 DEF Types
  <2>3. handler.phase = "search" => DetectsRecovery(Head(outbox').kind)
    BY <1>1, <2>2 DEF Types, Idle
  <2>4. Run' = Run /\ Row' = Row /\ Idle' = Idle
    BY DEF Run, Row, Idle
  <2>5. DetectsRecovery(Head(outbox).kind)' = DetectsRecovery(Head(outbox').kind)
    BY DEF DetectsRecovery
  <2>6. /\ handler' \in [phase : {"idle", "search", "commit"}, at : Nat, staged : SUBSET Row]
        /\ handler'.phase = "idle" => handler' = Idle
        /\ detector' \in [Detectors -> Run]
        /\ \A d \in Detectors : detector'[d].phase = "run" => d \in deployed'
    BY <1>1, <1>2 DEF Types
  <2> QED
    BY <1>2, <1>3, <2>1, <2>2, <2>3, <2>4, <2>5, <2>6 DEF Types
<1> SUFFICES ASSUME Serial PROVE Facts'
  BY <1>2, <1>4 DEF IInv, Serial
<1>5. Facts
  BY DEF IInv
<1>6. \A c, type : OfType(c, type)' = OfType(c, type)
  BY <1>2 DEF OfType
<1>7. \A c : Latest(c)' = Latest(c)
  BY <1>2 DEF Latest
<1>8. OneRuns'
  BY <1>2, <1>5 DEF Facts, OneRuns
<1>9. Dates'
  <2>1. \A c \in Companies : \A r \in rows[c] : r.at <= now'
    BY <1>1, <1>5, Typed DEF Facts, Dates
  <2>2. \A i \in DOMAIN outbox' : outbox'[i].at <= now' /\ outbox'[i].at <= ReportsEnd[deployed]
    BY <1>1, <1>5, Typed DEF Facts, Dates
  <2> QED
    BY <1>2, <1>5, <2>1, <2>2 DEF Facts, Dates
<1>10. NoTies'
  <2> SUFFICES ASSUME NEW c \in Companies, NEW m \in OfType(c, "missed")
               PROVE  \A i \in DOMAIN outbox' : outbox'[i].at # m.at
    BY <1>2, <1>5, <1>6 DEF Facts, NoTies
  <2>1. m \in rows[c]
    BY DEF OfType
  <2>2. m.at \in Nat /\ m.at <= now
    BY <1>1, <1>5, <2>1, Typed DEF Facts, Dates
  <2> QED
    BY <1>1, <1>5, <2>2 DEF Facts, NoTies
<1>11. HandlerInv'
  BY <1>2, <1>5, <1>7 DEF Facts, HandlerInv
<1>12. DetectorInv'
  <2> SUFFICES ASSUME NEW d \in Detectors, detector[d].phase = "run"
               PROVE  \A i \in DOMAIN outbox' : outbox'[i].at # detector[d].at
    BY <1>2, <1>5, <1>6 DEF Facts, DetectorInv, RunInv
  <2>1. detector[d].at \in Nat /\ detector[d].at <= now
    BY <1>1 DEF TypeOK
  <2> QED
    BY <1>1, <1>5, <2>1 DEF Facts, DetectorInv, RunInv
<1>13. NewestExists'
  BY <1>2, <1>5, <1>7 DEF Facts, NewestExists
<1>14. (AbsenceIsReal /\ AbsencesAreSeparate /\ RecoveryIsPaired /\ LostMeansSilent)'
  BY <1>2, <1>5, <1>6, <1>7
  DEF Facts, Serial, AbsenceIsReal, AbsencesAreSeparate, RecoveryIsPaired, LostMeansSilent
<1> QED
  BY <1>8, <1>9, <1>10, <1>11, <1>12, <1>13, <1>14 DEF Facts

LEMMA CaptureIInv ==
  ASSUME IInv, Capture
  PROVE  IInv'
<1>1. Types /\ TypeOK /\ outbox \in Seq(Report) /\ now < ReportsEnd[deployed]
  BY DEF IInv, Types, TypeOK, Capture
<1>2. now < MaxTime[deployed] /\ now' = now + 1 /\ now' \in 1 .. MaxTime[deployed] /\ now < now'
      /\ now \in Nat /\ now' <= ReportsEnd[deployed]
  BY <1>1, Clock DEF Capture
<1>3. PICK kind \in Kinds, c \in Companies \union {None} :
        /\ c = None <=> kind = "register"
        /\ outbox' = Append(outbox, [kind |-> kind, company |-> c, at |-> now'])
  BY DEF Capture
<1> DEFINE report == [kind |-> kind, company |-> c, at |-> now']
<1>4. /\ report \in Report /\ report.at = now'
      /\ report.company = None => report.kind = "register"
  BY <1>2, <1>3, NamesAssumption DEF Report
<1> HIDE DEF report
<1>5. outbox' = Append(outbox, report)
  BY <1>3 DEF report
<1>6. /\ outbox' \in Seq(Report) /\ outbox' # <<>>
      /\ \A i \in DOMAIN outbox' :
           \/ i \in DOMAIN outbox /\ outbox'[i] = outbox[i]
           \/ outbox'[i] = report
  BY <1>1, <1>4, <1>5
<1>7. outbox # <<>> => Head(outbox') = Head(outbox)
  BY <1>1, <1>4, <1>5
<1>8. handler # Idle => outbox # <<>>
  BY <1>1 DEF TypeOK
<1>9. UNCHANGED <<deployed, tableVars, handler, detector>> /\ links' \subseteq Companies
  BY <1>1 DEF Capture, TypeOK
<1>10. \A i \in DOMAIN outbox' :
         \/ \E j \in DOMAIN outbox : outbox'[i] = outbox[j]
         \/ /\ outbox'[i].at = now' /\ now < now' /\ now' <= ReportsEnd[deployed]
            /\ outbox'[i].company = None => outbox'[i].kind = "register"
  BY <1>2, <1>4, <1>6
<1>11. now <= now'
  BY <1>2
<1> QED
  BY <1>2, <1>6, <1>7, <1>8, <1>9, <1>10, <1>11, OutboxIInv

LEMMA ClockIInv ==
  ASSUME IInv, LinkChanges \/ TimePasses
  PROVE  IInv'
<1>1. Types /\ TypeOK /\ outbox \in Seq(Report)
  BY DEF IInv, Types, TypeOK
<1>2. now' \in 1 .. MaxTime[deployed] /\ now <= now'
  BY <1>1, Clock DEF LinkChanges, TimePasses
<1>3. UNCHANGED <<deployed, outbox, tableVars, handler, detector>> /\ links' \subseteq Companies
  BY <1>1 DEF LinkChanges, TimePasses, TypeOK
<1>4. handler # Idle => outbox # <<>>
  BY <1>1 DEF TypeOK
<1> QED
  BY <1>1, <1>2, <1>3, <1>4, OutboxIInv

LEMMA RefuseIInv ==
  ASSUME IInv, Refuse
  PROVE  IInv'
<1>1. Types /\ TypeOK /\ outbox \in Seq(Report)
  BY DEF IInv, Types, TypeOK
<1>2. now' = now /\ now' \in 1 .. MaxTime[deployed] /\ now <= now'
  BY <1>1, Clock DEF Refuse, TypeOK
<1>3. UNCHANGED <<deployed, tableVars, handler, detector>> /\ links' \subseteq Companies
  BY <1>1 DEF Refuse, TypeOK
<1>4. /\ outbox' \in Seq(Report)
      /\ \A i \in DOMAIN outbox' : \E j \in DOMAIN outbox : outbox'[i] = outbox[j]
  BY <1>1, Oldest DEF Refuse
<1>5. handler = Idle
  BY DEF Refuse, EventLoopFree
<1> QED
  BY <1>2, <1>3, <1>4, <1>5, OutboxIInv

-----------------------------------------------------------------------------
(* The handlers.                                                             *)

\* A handler goes on to t, which is true of the tables.
LEMMA HandlerIInv ==
  ASSUME IInv, NEW t \in [phase : {"search", "commit"}, at : Nat, staged : SUBSET Row],
         handler' = t, outbox # <<>>, now' \in 1 .. MaxTime[deployed], now <= now',
         t.at \in 1 .. now',
         t.phase = "search" => DetectsRecovery(Head(outbox).kind),
         UNCHANGED <<deployed, links, outbox, tableVars, detector>>,
         Serial => (\A d \in Detectors : detector[d].phase = "idle") /\ HandlerInv'
  PROVE  IInv'
<1>1. Types /\ TypeOK /\ now \in Nat /\ now' \in Nat
  BY Clock DEF IInv, Types
<1>2. UNCHANGED <<deployed, links, outbox, lastSeen, rows, heard, detector>>
  BY DEF tableVars
<1>3. TypeOK'
  <2>1. 0 .. now \subseteq 0 .. now' /\ 1 .. now \subseteq 1 .. now'
    BY <1>1
  <2>2. /\ handler'.phase \in {"idle", "search", "commit"} /\ handler'.at \in 0 .. now'
        /\ handler'.staged \subseteq Row
    BY <1>1
  <2>3. \A d \in Detectors :
          /\ detector[d].phase \in {"idle", "run"}
          /\ {detector[d].at, detector[d].seen} \subseteq 0 .. now'
          /\ detector[d].todo \union detector[d].found \subseteq Companies
          /\ detector[d].phase = "idle" => detector[d] = NotRunning
    BY <1>1, <2>1 DEF TypeOK
  <2>4. /\ deployed \in Deployments /\ lastSeen \in 1 .. now'
        /\ links \subseteq Companies /\ rows \in [Companies -> SUBSET Row] /\ heard \subseteq Report
        /\ outbox \in Seq(Report)
    BY <1>1, <2>1 DEF TypeOK
  <2> QED
    BY <1>2, <2>2, <2>3, <2>4 DEF TypeOK
<1>4. Types'
  <2>1. handler' \in [phase : {"idle", "search", "commit"}, at : Nat, staged : SUBSET Row]
    OBVIOUS
  <2>2. handler'.phase # "idle" /\ handler'.at >= 1
    OBVIOUS
  <2> QED
    BY <1>1, <1>2, <1>3, <2>1, <2>2 DEF Types, DetectsRecovery
<1> SUFFICES ASSUME Serial PROVE Facts'
  BY <1>2, <1>4 DEF IInv, Serial
<1>5. Facts
  BY DEF IInv
<1>6. \A c, type : OfType(c, type)' = OfType(c, type)
  BY <1>2 DEF OfType
<1>7. \A c : Latest(c)' = Latest(c)
  BY <1>2 DEF Latest
<1>8. OneRuns' /\ DetectorInv'
  BY <1>2 DEF OneRuns, DetectorInv
<1>9. Dates'
  <2>1. \A c \in Companies : \A r \in rows[c] : r.at <= now'
    BY <1>1, <1>5, Typed DEF Facts, Dates
  <2>2. \A i \in DOMAIN outbox : outbox[i].at <= now'
    BY <1>1, <1>5, Typed DEF Facts, Dates
  <2> QED
    BY <1>2, <1>5, <2>1, <2>2 DEF Facts, Dates
<1>10. NoTies' /\ NewestExists'
  BY <1>2, <1>5, <1>6, <1>7 DEF Facts, NoTies, NewestExists
<1>11. (AbsenceIsReal /\ AbsencesAreSeparate /\ RecoveryIsPaired /\ LostMeansSilent)'
  BY <1>2, <1>5, <1>6, <1>7
  DEF Facts, Serial, AbsenceIsReal, AbsencesAreSeparate, RecoveryIsPaired, LostMeansSilent
<1> QED
  BY <1>8, <1>9, <1>10, <1>11 DEF Facts

LEMMA ReceiveIInv ==
  ASSUME IInv, Receive
  PROVE  IInv'
<1>1. Types /\ TypeOK /\ outbox \in Seq(Report) /\ outbox # <<>> /\ now < ReportsEnd[deployed]
  BY DEF IInv, Types, TypeOK, Receive
<1>2. now < MaxTime[deployed] /\ now' = now + 1 /\ now' \in 1 .. MaxTime[deployed] /\ now < now'
      /\ now \in Nat /\ now' \in Nat
  BY <1>1, Clock DEF Receive
<1> DEFINE t == [phase |-> IF DetectsRecovery(Head(outbox).kind) THEN "search" ELSE "commit",
                 at |-> now', staged |-> {}]
<1>3. t \in [phase : {"search", "commit"}, at : Nat, staged : SUBSET Row]
  BY <1>2
<1>4. /\ t.at = now' /\ t.staged = {}
      /\ t.phase = "search" <=> DetectsRecovery(Head(outbox).kind)
      /\ t.phase = "commit" <=> ~DetectsRecovery(Head(outbox).kind)
      /\ handler' = t
  BY DEF Receive
<1> HIDE DEF t
<1>5. UNCHANGED <<deployed, links, outbox, tableVars, detector>>
  BY DEF Receive
<1>6. ASSUME Serial
      PROVE  (\A d \in Detectors : detector[d].phase = "idle") /\ HandlerInv'
  <2>1. Facts
    BY <1>6 DEF IInv
  <2>2. \A d \in Detectors : detector[d].phase = "idle"
    BY <1>1, <1>6, NoneRuns DEF Receive
  <2>3. lastSeen \in Nat /\ lastSeen < now'
    BY <1>1, <1>2 DEF TypeOK
  <2>4. Head(outbox).at < now'
    BY <1>1, <1>2, <2>1, Oldest, Typed DEF Facts, Dates
  <2>5. \A c \in Companies : \A r \in rows[c] : r.at < now'
    BY <1>1, <1>2, <2>1, Typed DEF Facts, Dates
  <2>6. UNCHANGED <<outbox, lastSeen, rows>>
    BY <1>5 DEF tableVars
  <2> QED
    BY <1>4, <2>2, <2>3, <2>4, <2>5, <2>6 DEF HandlerInv, DetectsRecovery
<1>7. now <= now' /\ t.at \in 1 .. now'
  BY <1>2, <1>4
<1> QED
  BY <1>1, <1>2, <1>3, <1>4, <1>5, <1>6, <1>7, HandlerIInv

\* The newest event is an absence, or there is none: two events of one instant are
\* both absences or neither is.
LEMMA SearchIInv ==
  ASSUME IInv, SearchRecovery
  PROVE  IInv'
<1>1. Types /\ TypeOK /\ handler # Idle /\ handler.phase = "search"
  <2>1. Types /\ TypeOK /\ handler.phase = "search"
    BY DEF IInv, Types, SearchRecovery
  <2>2. Idle.phase # "search"
    BY DEF Idle
  <2> QED
    BY <2>1, <2>2
<1>2. outbox # <<>> /\ DetectsRecovery(Head(outbox).kind) /\ Head(outbox).company \in Companies
  BY <1>1, SearchesInACompany DEF Types, TypeOK
<1>3. UNCHANGED <<deployed, now, links, outbox, tableVars, detector>>
  BY DEF SearchRecovery
<1>4. /\ handler \in [phase : {"idle", "search", "commit"}, at : Nat, staged : SUBSET Row]
      /\ handler.at \in 1 .. now /\ now \in 1 .. MaxTime[deployed] /\ now <= now
  BY <1>1 DEF Types, TypeOK
<1> DEFINE c == Head(outbox).company
           absences == {m \in Latest(c) : m.type = "missed"}
           Outcome(S) ==
             /\ handler' = [handler EXCEPT !.phase = "commit", !.staged = S]
             /\ Serial =>
                  /\ \A r \in S : /\ r.type = "recovered" /\ r.at = handler.at
                                  /\ \E m \in absences : m.seen = r.seen
                  /\ absences # {} => S # {}
<1>5. \E S \in SUBSET Row : Outcome(S)
  <2>1. CASE Latest(c) = {} /\ handler' = [handler EXCEPT !.phase = "commit"]
    <3>1. handler.staged \in SUBSET Row
          /\ handler' = [handler EXCEPT !.phase = "commit", !.staged = handler.staged]
      BY <1>4, <2>1
    <3>2. Serial => \A r \in handler.staged :
            r.type = "recovered" /\ r.at = handler.at /\ \E m \in absences : m.seen = r.seen
      BY <1>1 DEF IInv, Facts, HandlerInv
    <3> QED
      BY <2>1, <3>1, <3>2
  <2>2. ASSUME NEW r \in Latest(c),
               handler' = [handler EXCEPT !.phase = "commit",
                             !.staged = IF NeedsRecovery(r) THEN {RecoveredEvent(r, handler.at)} ELSE {}]
        PROVE  \E S \in SUBSET Row : Outcome(S)
    <3>1. r \in rows[c] /\ r \in Row /\ r.at \in Nat /\ r.seen \in Nat
      BY <1>1, <1>2, Typed DEF Latest
    <3> DEFINE S == IF NeedsRecovery(r) THEN {RecoveredEvent(r, handler.at)} ELSE {}
    <3>2. /\ RecoveredEvent(r, handler.at) \in Row
          /\ RecoveredEvent(r, handler.at).type = "recovered"
          /\ RecoveredEvent(r, handler.at).at = handler.at
          /\ RecoveredEvent(r, handler.at).seen = r.seen
      BY <1>4, <3>1 DEF RecoveredEvent, Row
    <3>3. \A u \in S : u.type = "recovered" /\ u.at = handler.at /\ \E m \in absences : m.seen = u.seen
      BY <3>2 DEF NeedsRecovery
    <3>4. ASSUME Serial, NEW m \in absences
          PROVE  S # {}
      <4>1. m \in rows[c] /\ m.at \in Nat /\ m.at <= r.at /\ r.at <= m.at
        BY <1>1, <1>2, <3>1, Typed DEF Latest
      <4>2. NoTies /\ m \in OfType(c, "missed")
        BY <3>4, <4>1 DEF IInv, Facts, OfType
      <4>3. r.type = "missed"
        BY <1>2, <3>1, <4>1, <4>2 DEF NoTies
      <4> QED
        BY <4>3 DEF NeedsRecovery
    <3>5. S \in SUBSET Row
      BY <3>2
    <3>6. handler' = [handler EXCEPT !.phase = "commit", !.staged = S]
      BY <2>2
    <3> HIDE DEF S, absences
    <3>7. Outcome(S)
      BY <3>3, <3>4, <3>6
    <3> QED
      BY <3>5, <3>7
  <2> QED
    BY <2>1, <2>2 DEF SearchRecovery
<1>6. PICK S \in SUBSET Row : Outcome(S)
  BY <1>5
<1>7. /\ handler' \in [phase : {"search", "commit"}, at : Nat, staged : SUBSET Row]
      /\ handler'.phase = "commit" /\ handler'.at = handler.at /\ handler'.staged = S
  BY <1>4, <1>6
<1>8. ASSUME Serial
      PROVE  (\A d \in Detectors : detector[d].phase = "idle") /\ HandlerInv'
  <2>1. \A d \in Detectors : detector[d].phase = "idle"
    BY <1>1, <1>8 DEF IInv, Facts, OneRuns, TypeOK
  <2>2. /\ lastSeen < handler.at /\ Head(outbox).at < handler.at
        /\ \A k \in Companies : \A r \in rows[k] : r.at < handler.at
    BY <1>1, <1>8 DEF IInv, Facts, HandlerInv
  <2>3. UNCHANGED <<outbox, lastSeen, rows>>
    BY <1>3 DEF tableVars
  <2>4. \A k : Latest(k)' = Latest(k)
    BY <2>3 DEF Latest
  <2>5. Serial => (absences # {} => S # {})
    BY <1>6
  <2> QED
    BY <1>6, <1>7, <1>8, <2>1, <2>2, <2>3, <2>4, <2>5 DEF HandlerInv
<1> HIDE DEF c, absences, Outcome
<1> QED
  BY <1>1, <1>2, <1>3, <1>4, <1>7, <1>8, HandlerIInv

\* What a commit adds to a company: the recovery it found and the event of its
\* report, which is no absence.
LEMMA CommittedRows ==
  ASSUME IInv, Commit
  PROVE  /\ rows' \in [Companies -> SUBSET Row]
         /\ \A c \in Companies : rows[c] \subseteq rows'[c]
         /\ Head(outbox).company \in Companies =>
              handler.staged \subseteq rows'[Head(outbox).company]
         /\ \A c \in Companies : \A r \in rows'[c] :
              \/ r \in rows[c]
              \/ /\ c = Head(outbox).company
                 /\ \/ r \in handler.staged
                    \/ r.type \in {"up", "stop"} /\ r.at = Head(outbox).at
         /\ \A r, s \in IngestedEvents(Head(outbox)) : r = s
         /\ \A c \in Companies : \A r \in rows'[c] :
              r \in rows[c] \/ r \in handler.staged \/ r \in IngestedEvents(Head(outbox))
         /\ \A r \in IngestedEvents(Head(outbox)) :
              r.type \in {"up", "stop"} /\ r.at = Head(outbox).at
<1>1. Types /\ TypeOK
  BY DEF IInv, Types
<1>2. handler.phase # "idle" /\ handler # Idle
  BY DEF Commit, Idle
<1>3. Head(outbox) \in Report
  BY <1>1, <1>2, Oldest DEF TypeOK
<1> DEFINE new == IngestedEvents(Head(outbox))
<1>4. /\ new \subseteq Row
      /\ \A r \in new : r.type \in {"up", "stop"} /\ r.at = Head(outbox).at
      /\ \A r, s \in new : r = s
  BY <1>3 DEF IngestedEvents, Report, Row
<1>5. \A c \in Companies :
        rows'[c] = IF c = Head(outbox).company THEN rows[c] \union (handler.staged \union new) ELSE rows[c]
  BY DEF Commit
<1>6. handler.staged \subseteq Row /\ \A c \in Companies : rows[c] \subseteq Row
  BY <1>1 DEF TypeOK
<1> HIDE DEF new
<1>7. rows' = [c \in Companies |-> rows'[c]]
  BY DEF Commit
<1>8. rows' \in [Companies -> SUBSET Row]
  BY <1>4, <1>5, <1>6, <1>7
<1> QED
  BY <1>4, <1>5, <1>8 DEF new

LEMMA CommitTypes ==
  ASSUME IInv, Commit
  PROVE  /\ Types'
         /\ lastSeen' = handler.at /\ handler.at \in 1 .. now /\ now' = now /\ deployed' = deployed
         /\ \A h \in heard' : h \in heard \/ (/\ h.at = handler.at /\ h.kind = Head(outbox).kind
                                              /\ h.company = Head(outbox).company)
         /\ \A i \in DOMAIN outbox' : \E j \in DOMAIN outbox : outbox'[i] = outbox[j]
<1>1. Types /\ TypeOK /\ outbox \in Seq(Report)
  BY DEF IInv, Types, TypeOK
<1>2. handler.phase # "idle" /\ handler # Idle /\ Idle.phase = "idle"
  BY DEF Commit, Idle
<1>3. outbox # <<>> /\ Head(outbox) \in Report
  BY <1>1, <1>2, Oldest DEF TypeOK
<1>4. handler.at \in 1 .. now /\ now \in Nat
  BY <1>1, <1>2, Clock DEF Types, TypeOK
<1>5. lastSeen' = handler.at /\ now' = now /\ deployed' = deployed /\ links' = links
      /\ detector' = detector /\ handler' = Idle
  BY DEF Commit, SeenAt
<1>6. /\ outbox' \in Seq(Report)
      /\ \A i \in DOMAIN outbox' : \E j \in DOMAIN outbox : outbox'[i] = outbox[j]
  BY <1>1, <1>3, Oldest DEF Commit
<1> DEFINE h == [Head(outbox) EXCEPT !.at = handler.at]
<1>7. h \in Report /\ h.at = handler.at /\ h.kind = Head(outbox).kind /\ h.company = Head(outbox).company
  BY <1>3, <1>4 DEF Report
<1>8. heard' = heard \union {h}
  BY DEF Commit
<1> HIDE DEF h
<1>9. TypeOK'
  <2>1. Idle.phase \in {"idle", "search", "commit"} /\ Idle.at \in 0 .. now /\ Idle.staged \subseteq Row
    BY <1>4 DEF Idle
  <2>2. heard' \subseteq Report
    BY <1>1, <1>7, <1>8 DEF TypeOK
  <2>3. rows' \in [Companies -> SUBSET Row]
    BY CommittedRows
  <2> QED
    BY <1>1, <1>4, <1>5, <1>6, <2>1, <2>2, <2>3 DEF TypeOK
<1>10. Types'
  <2>1. Idle \in [phase : {"idle", "search", "commit"}, at : Nat, staged : SUBSET Row]
    BY DEF Idle
  <2>2. Idle' = Idle /\ Run' = Run /\ Row' = Row
    BY DEF Idle, Run, Row
  <2>3. \A i \in DOMAIN outbox' : outbox'[i].company = None => outbox'[i].kind = "register"
    BY <1>1, <1>6 DEF Types
  <2>4. detector' \in [Detectors -> Run] /\ \A d \in Detectors : detector'[d].phase = "run" => d \in deployed'
    BY <1>1, <1>5 DEF Types
  <2> QED
    BY <1>2, <1>5, <1>9, <2>1, <2>2, <2>3, <2>4 DEF Types
<1> QED
  BY <1>4, <1>5, <1>6, <1>7, <1>8, <1>10

\* A report that is committed is seen later than everything recorded before it, and
\* ends the absence of its company if it shows the device alive.
LEMMA CommitIInv ==
  ASSUME IInv, Commit
  PROVE  IInv'
<1> DEFINE company == Head(outbox).company
           at == handler.at
<1>1. Types /\ Types' /\ TypeOK /\ handler # Idle /\ handler.phase = "commit"
  <2>1. Idle.phase # "commit"
    BY DEF Idle
  <2> QED
    BY <2>1, CommitTypes DEF IInv, Types, Commit
<1> SUFFICES ASSUME Serial PROVE Facts'
  BY <1>1, CommitTypes DEF IInv, Serial
<1>2. Facts
  BY DEF IInv
<1>3. /\ lastSeen < at /\ Head(outbox).at < at
      /\ \A c \in Companies : \A r \in rows[c] : r.at < at
      /\ \A r \in handler.staged :
           /\ r.type = "recovered" /\ r.at = at
           /\ \E m \in Latest(company) : m.type = "missed" /\ m.seen = r.seen
      /\ DetectsRecovery(Head(outbox).kind) /\ (\E m \in Latest(company) : m.type = "missed")
           => handler.staged # {}
  BY <1>1, <1>2 DEF Facts, HandlerInv
<1>4. /\ lastSeen' = at /\ at \in 1 .. now /\ now' = now /\ deployed' = deployed /\ now \in Nat
      /\ \A h \in heard' : h \in heard \/ (/\ h.at = at /\ h.kind = Head(outbox).kind
                                           /\ h.company = company)
      /\ \A i \in DOMAIN outbox' : \E j \in DOMAIN outbox : outbox'[i] = outbox[j]
  BY <1>1, CommitTypes, Clock
<1>5. \A d \in Detectors : detector'[d].phase = "idle"
  <2>1. \A d \in Detectors : detector[d].phase # "run"
    BY <1>1, <1>2 DEF Facts, OneRuns
  <2> QED
    BY <1>1, <2>1 DEF Commit, TypeOK
<1>6. handler' = Idle /\ Idle' = Idle
  BY DEF Commit, Idle
<1>7. OneRuns' /\ HandlerInv' /\ DetectorInv'
  BY <1>5, <1>6 DEF OneRuns, HandlerInv, DetectorInv
<1>8. /\ \A c \in Companies : rows[c] \subseteq rows'[c]
      /\ company \in Companies => handler.staged \subseteq rows'[company]
      /\ \A c \in Companies : \A r \in rows'[c] :
           \/ r \in rows[c]
           \/ /\ c = company
              /\ \/ r \in handler.staged
                 \/ r.type \in {"up", "stop"} /\ r.at = Head(outbox).at
  BY CommittedRows
<1>9. outbox \in Seq(Report) /\ outbox # <<>> /\ 1 \in DOMAIN outbox /\ Head(outbox) = outbox[1]
      /\ Head(outbox) \in Report /\ Head(outbox).at \in Nat
  BY <1>1, Oldest, Typed DEF TypeOK
<1> HIDE DEF company, at
<1>10. /\ \A c \in Companies : \A r \in rows[c] : r.at \in Nat
       /\ \A h \in heard : h.at \in Nat
       /\ lastSeen \in Nat
  BY <1>1, Typed
<1>11. \A c \in Companies : OfType(c, "missed")' = OfType(c, "missed")
  <2>1. \A c \in Companies : \A r \in rows'[c] : r.type = "missed" => r \in rows[c]
    BY <1>3, <1>8
  <2> QED
    BY <1>8, <2>1 DEF OfType
<1>12. \A c \in Companies : \A m \in OfType(c, "missed") : m \in rows[c] /\ m.type = "missed"
  BY DEF OfType
<1>13. \A c \in Companies : \A r \in Latest(c)' : r \in rows[c] => r \in Latest(c)
  BY <1>8 DEF Latest
<1>14. Dates'
  <2>1. \A h \in heard' : h.at <= at
    BY <1>2, <1>3, <1>4, <1>10 DEF Facts, Dates
  <2>2. \A c \in Companies : \A r \in rows'[c] :
          /\ r.at <= now
          /\ r.type \in {"up", "stop"} => r.at < at
          /\ r.type = "recovered" => r.at <= at
    BY <1>3, <1>4, <1>8, <1>9, <1>10
  <2>3. \A i \in DOMAIN outbox' : outbox'[i].at <= now /\ outbox'[i].at <= ReportsEnd[deployed]
    BY <1>2, <1>4 DEF Facts, Dates
  <2> QED
    BY <1>4, <2>1, <2>2, <2>3 DEF Dates
<1>15. NoTies'
  <2> SUFFICES ASSUME NEW c \in Companies, NEW m \in OfType(c, "missed")
               PROVE  /\ \A r \in rows'[c] : r.at = m.at => r.type = "missed"
                      /\ \A i \in DOMAIN outbox' : outbox'[i].at # m.at
    BY <1>11 DEF NoTies
  <2>1. m \in rows[c] /\ m.at \in Nat /\ m.at < at
    BY <1>3, <1>10, <1>12
  <2>2. \A i \in DOMAIN outbox : outbox[i].at # m.at
    BY <1>2 DEF Facts, NoTies
  <2>3. \A r \in rows[c] : r.at = m.at => r.type = "missed"
    BY <1>2 DEF Facts, NoTies
  <2>4. \A i \in DOMAIN outbox' : outbox'[i].at # m.at
    BY <1>4, <2>2
  <2>5. Head(outbox).at # m.at
    BY <1>9, <2>2
  <2>6. at # m.at
    BY <1>4, <2>1
  <2> QED
    BY <1>3, <1>8, <2>3, <2>4, <2>5, <2>6
<1>16. NewestExists'
  <2> SUFFICES ASSUME NEW c \in Companies, rows'[c] # {}
               PROVE  \E r \in rows'[c] : \A s \in rows'[c] : s.at <= r.at
    BY DEF NewestExists, Latest
  <2>1. \A s \in rows'[c] : s.at \in Nat /\ s.at <= at
    BY <1>3, <1>4, <1>8, <1>9, <1>10
  <2>2. CASE \E r \in rows'[c] : r \in handler.staged
    BY <1>3, <2>1, <2>2
  <2>3. CASE ~ \E r \in rows'[c] : r \in handler.staged
    <3>1. \A r, s \in rows'[c] : r \notin rows[c] /\ s \notin rows[c] => r = s
      BY <2>3, CommittedRows
    <3>2. CASE rows[c] = {}
      <4>1. PICK r \in rows'[c] : TRUE
        OBVIOUS
      <4>2. \A s \in rows'[c] : s = r
        BY <3>1, <3>2, <4>1
      <4> QED
        BY <2>1, <4>1, <4>2
    <3>3. CASE rows[c] # {}
      <4>1. PICK n \in rows[c] : \A s \in rows[c] : s.at <= n.at
        BY <1>2, <3>3 DEF Facts, NewestExists, Latest
      <4>2. n \in rows'[c]
        BY <1>8, <4>1
      <4>3. CASE \E r \in rows'[c] : r \notin rows[c] /\ n.at < r.at
        <5>1. PICK r \in rows'[c] : r \notin rows[c] /\ n.at < r.at
          BY <4>3
        <5>2. \A s \in rows'[c] : s = r \/ s \in rows[c]
          BY <3>1, <5>1
        <5>3. \A s \in rows[c] : s.at < r.at
          BY <1>10, <2>1, <4>1, <4>2, <5>1
        <5> QED
          BY <2>1, <5>1, <5>2, <5>3
      <4>4. CASE ~ \E r \in rows'[c] : r \notin rows[c] /\ n.at < r.at
        BY <1>10, <2>1, <4>1, <4>2, <4>4
      <4> QED
        BY <4>3, <4>4
    <3> QED
      BY <3>2, <3>3
  <2> QED
    BY <2>2, <2>3
<1>17. AbsenceIsReal'
  <2> SUFFICES ASSUME NEW c \in Companies, NEW m \in OfType(c, "missed")
               PROVE  /\ m.seen + Timeout < m.at
                      /\ \A h \in heard' : ~(m.seen < h.at /\ h.at <= m.at)
    BY <1>11 DEF AbsenceIsReal
  <2>1. /\ m.seen + Timeout < m.at
        /\ \A h \in heard : ~(m.seen < h.at /\ h.at <= m.at)
    BY <1>2 DEF Facts, AbsenceIsReal
  <2>2. m.at \in Nat /\ m.at < at
    BY <1>3, <1>10, <1>12
  <2> QED
    BY <1>4, <2>1, <2>2
<1>18. AbsencesAreSeparate'
  BY <1>2, <1>11 DEF Facts, AbsencesAreSeparate
<1>19. RecoveryIsPaired'
  <2> SUFFICES ASSUME NEW c \in Companies, NEW r \in OfType(c, "recovered")'
               PROVE  \E m \in OfType(c, "missed") :
                        /\ m.at < r.at /\ m.seen = r.seen
                        /\ \A s \in OfType(c, "recovered")' : ~(m.at < s.at /\ s.at < r.at)
    BY <1>11 DEF RecoveryIsPaired
  <2>1. r \in rows'[c] /\ r.type = "recovered"
    BY DEF OfType
  <2>2. \A s \in OfType(c, "recovered")' :
          s \in OfType(c, "recovered") \/ s.at = at
    BY <1>3, <1>8 DEF OfType
  <2>3. CASE r \in rows[c]
    <3>1. r \in OfType(c, "recovered") /\ r.at < at /\ r.at \in Nat
      BY <1>3, <1>10, <2>1, <2>3 DEF OfType
    <3>2. PICK m \in OfType(c, "missed") :
            /\ m.at < r.at /\ m.seen = r.seen
            /\ \A s \in OfType(c, "recovered") : ~(m.at < s.at /\ s.at < r.at)
      BY <1>2, <3>1 DEF Facts, RecoveryIsPaired
    <3> QED
      BY <1>4, <2>2, <3>1, <3>2
  <2>4. CASE c = company /\ r \in handler.staged
    <3>1. PICK m \in Latest(c) : m.type = "missed" /\ m.seen = r.seen
      BY <1>3, <2>4
    <3>2. m \in OfType(c, "missed") /\ m \in rows[c] /\ \A s \in rows[c] : s.at <= m.at
      BY <3>1 DEF Latest, OfType
    <3>3. m.at < r.at /\ m.at \in Nat /\ r.at = at
      BY <1>3, <1>10, <2>4, <3>2
    <3>4. \A s \in OfType(c, "recovered") : s.at <= m.at /\ s.at \in Nat
      BY <1>10, <3>2 DEF OfType
    <3>5. \A s \in OfType(c, "recovered")' : ~(m.at < s.at /\ s.at < r.at)
      BY <1>4, <2>2, <3>3, <3>4
    <3> QED
      BY <3>1, <3>2, <3>3, <3>5
  <2> QED
    BY <1>8, <2>1, <2>3, <2>4
<1>20. LostMeansSilent'
  <2> SUFFICES ASSUME NEW c \in Companies, NEW m \in Latest(c)', m.type = "missed",
                      NEW h \in heard', h.company = c, ShowsAlive(h)
               PROVE  h.at < m.at
    <3>1. \A u : ShowsAlive(u)' <=> ShowsAlive(u)
      BY DEF ShowsAlive
    <3> QED
      BY <3>1 DEF LostMeansSilent
  <2>1. m \in rows'[c] /\ \A s \in rows'[c] : s.at <= m.at
    BY DEF Latest
  <2>2. m \in rows[c] /\ m \in Latest(c)
    BY <1>3, <1>8, <1>13, <2>1
  <2>3. CASE h \in heard
    BY <1>2, <2>2, <2>3 DEF Facts, LostMeansSilent
  <2>4. CASE h.company = company /\ h.kind = Head(outbox).kind
    <3>1. DetectsRecovery(Head(outbox).kind)
      BY <2>4 DEF ShowsAlive, DetectsRecovery
    <3>2. PICK s \in handler.staged : TRUE
      BY <1>3, <2>2, <2>4, <3>1
    <3>3. s \in rows'[c] /\ s.at = at
      BY <1>3, <1>8, <2>4, <3>2
    <3>4. m.at < at /\ m.at \in Nat
      BY <1>3, <1>10, <2>2
    <3> QED
      BY <1>4, <2>1, <3>3, <3>4
  <2> QED
    BY <1>4, <2>3, <2>4
<1> QED
  BY <1>7, <1>14, <1>15, <1>16, <1>17, <1>18, <1>19, <1>20 DEF Facts

-----------------------------------------------------------------------------
(* The detectors.                                                            *)

\* A detector goes on to t, which is true of the tables.
LEMMA DetectorIInv ==
  ASSUME IInv, NEW d \in Detectors, NEW t \in Run,
         detector' = [detector EXCEPT ![d] = t],
         now' \in 1 .. MaxTime[deployed], now <= now',
         t.at <= now', t.seen <= now',
         t.phase = "idle" => t = NotRunning, t.phase = "run" => d \in deployed,
         UNCHANGED <<deployed, links, outbox, tableVars, handler>>,
         Serial /\ t.phase = "run" =>
           /\ handler = Idle /\ RunInv(t)
           /\ \A e \in Detectors \ {d} : detector[e].phase = "idle"
  PROVE  IInv'
<1>1. Types /\ TypeOK /\ now \in Nat /\ now' \in Nat
  BY Clock DEF IInv, Types
<1>2. UNCHANGED <<deployed, links, outbox, lastSeen, rows, heard, handler>>
  BY DEF tableVars
<1>3. /\ detector' \in [Detectors -> Run]
      /\ \A e \in Detectors : detector'[e] = IF e = d THEN t ELSE detector[e]
  BY <1>1 DEF Types
<1>4. TypeOK'
  <2>1. 0 .. now \subseteq 0 .. now' /\ 1 .. now \subseteq 1 .. now'
    BY <1>1
  <2>2. /\ t.phase \in {"idle", "run"} /\ {t.at, t.seen} \subseteq 0 .. now'
        /\ t.todo \union t.found \subseteq Companies
    BY <1>1 DEF Run
  <2>3. \A e \in Detectors :
          /\ detector[e].phase \in {"idle", "run"}
          /\ {detector[e].at, detector[e].seen} \subseteq 0 .. now'
          /\ detector[e].todo \union detector[e].found \subseteq Companies
          /\ detector[e].phase = "idle" => detector[e] = NotRunning
    BY <1>1, <2>1 DEF TypeOK
  <2>4. \A e \in Detectors :
          /\ detector'[e].phase \in {"idle", "run"}
          /\ {detector'[e].at, detector'[e].seen} \subseteq 0 .. now'
          /\ detector'[e].todo \union detector'[e].found \subseteq Companies
          /\ detector'[e].phase = "idle" => detector'[e] = NotRunning
    BY <1>3, <2>2, <2>3
  <2>5. /\ deployed \in Deployments /\ lastSeen \in 1 .. now'
        /\ links \subseteq Companies /\ rows \in [Companies -> SUBSET Row] /\ heard \subseteq Report
        /\ outbox \in Seq(Report)
        /\ handler # Idle => outbox # <<>>
        /\ handler.phase \in {"idle", "search", "commit"} /\ handler.at \in 0 .. now'
        /\ handler.staged \subseteq Row
    BY <1>1, <2>1 DEF TypeOK
  <2>6. NotRunning' = NotRunning /\ Idle' = Idle
    BY DEF NotRunning, Idle
  <2> QED
    BY <1>2, <2>4, <2>5, <2>6 DEF TypeOK
<1>5. Types'
  <2>1. Run' = Run /\ Row' = Row /\ Idle' = Idle
    BY DEF Run, Row, Idle
  <2>2. \A e \in Detectors : detector'[e].phase = "run" => e \in deployed'
    BY <1>1, <1>2, <1>3 DEF Types
  <2> QED
    BY <1>1, <1>2, <1>3, <1>4, <2>1, <2>2 DEF Types, DetectsRecovery
<1> SUFFICES ASSUME Serial PROVE Facts'
  BY <1>2, <1>5 DEF IInv, Serial
<1>6. Facts
  BY DEF IInv
<1>7. \A c, type : OfType(c, type)' = OfType(c, type)
  BY <1>2 DEF OfType
<1>8. \A c : Latest(c)' = Latest(c)
  BY <1>2 DEF Latest
<1>9. OneRuns'
  BY <1>2, <1>3, <1>6 DEF Facts, OneRuns
<1>10. DetectorInv'
  <2>1. \A u : RunInv(u)' <=> RunInv(u)
    BY <1>2, <1>7 DEF RunInv
  <2> QED
    BY <1>3, <1>6, <2>1 DEF Facts, DetectorInv
<1>11. Dates'
  <2>1. \A c \in Companies : \A r \in rows[c] : r.at <= now'
    BY <1>1, <1>6, Typed DEF Facts, Dates
  <2>2. \A i \in DOMAIN outbox : outbox[i].at <= now'
    BY <1>1, <1>6, Typed DEF Facts, Dates
  <2> QED
    BY <1>2, <1>6, <2>1, <2>2 DEF Facts, Dates
<1>12. NoTies' /\ NewestExists' /\ HandlerInv'
  BY <1>2, <1>6, <1>7, <1>8 DEF Facts, NoTies, NewestExists, HandlerInv
<1>13. (AbsenceIsReal /\ AbsencesAreSeparate /\ RecoveryIsPaired /\ LostMeansSilent)'
  BY <1>2, <1>6, <1>7, <1>8
  DEF Facts, Serial, AbsenceIsReal, AbsencesAreSeparate, RecoveryIsPaired, LostMeansSilent
<1> QED
  BY <1>9, <1>10, <1>11, <1>12, <1>13 DEF Facts

\* A run ends: it is rolled back, or it found nothing.
LEMMA FailsIInv ==
  ASSUME IInv, NEW d \in Detectors, DetectFails(d)
  PROVE  IInv'
<1>1. TypeOK /\ now \in Nat /\ now \in 1 .. MaxTime[deployed]
  BY Clock DEF IInv, Types, TypeOK
<1>2. /\ NotRunning \in Run /\ NotRunning.at = 0 /\ NotRunning.seen = 0
      /\ NotRunning.phase = "idle"
  BY DEF NotRunning, Run
<1>3. /\ detector' = [detector EXCEPT ![d] = NotRunning]
      /\ UNCHANGED <<deployed, now, links, outbox, tableVars, handler>>
  BY DEF DetectFails, RunEnded
<1>4. /\ now' \in 1 .. MaxTime[deployed] /\ now <= now'
      /\ NotRunning.at <= now' /\ NotRunning.seen <= now' /\ NotRunning.phase # "run"
      /\ UNCHANGED <<deployed, links, outbox, tableVars, handler>>
  BY <1>1, <1>2, <1>3
<1> QED
  BY <1>2, <1>3, <1>4, DetectorIInv

LEMMA StartsIInv ==
  ASSUME IInv, NEW d \in Detectors, DetectStarts(d)
  PROVE  IInv'
<1>1. Types /\ TypeOK
  BY DEF IInv, Types
<1>2. /\ now \in Nat /\ now' \in Nat /\ now' \in 1 .. MaxTime[deployed] /\ now <= now'
      /\ now = now' => now = MaxTime[deployed]
      /\ MaxTime[deployed] \in Nat /\ ReportsEnd[deployed] \in Nat
      /\ ReportsEnd[deployed] < MaxTime[deployed]
      /\ lastSeen \in Nat /\ lastSeen <= now /\ links \subseteq Companies
  BY <1>1, Clock DEF DetectStarts, TypeOK
<1> DEFINE t == [phase |-> "run", at |-> now', seen |-> lastSeen, found |-> {},
                 todo |-> IF Stale(lastSeen, now') THEN links ELSE {}]
<1>3. t \in Run
  BY <1>2 DEF Run
<1>4. /\ t.phase = "run" /\ t.at = now' /\ t.seen = lastSeen /\ t.found = {}
      /\ t.todo # {} => Stale(lastSeen, now')
      /\ detector' = [detector EXCEPT ![d] = t]
  BY DEF DetectStarts
<1> HIDE DEF t
<1>5. UNCHANGED <<deployed, links, outbox, tableVars, handler>> /\ d \in deployed
  BY DEF DetectStarts
<1>6. ASSUME Serial
      PROVE  /\ handler = Idle /\ RunInv(t)
             /\ \A e \in Detectors \ {d} : detector[e].phase = "idle"
  <2>1. Facts
    BY <1>6 DEF IInv
  <2>2. EventLoopFree
    <3>1. d \in Endpoints
      BY <1>5, <1>6 DEF Serial, Detectors
    <3> QED
      BY <3>1 DEF DetectStarts
  <2>3. handler = Idle /\ \A e \in Detectors : detector[e].phase = "idle"
    BY <1>1, <1>6, <2>2, NoneRuns
  <2>4. \A c \in Companies : \A r \in rows[c] : r.at <= now'
    BY <1>1, <1>2, <2>1, Typed DEF Facts, Dates
  <2>5. \A i \in DOMAIN outbox : outbox[i].at # now'
    BY <1>1, <1>2, <2>1, Typed DEF Facts, Dates
  <2>6. t.todo \union t.found # {} => lastSeen + Timeout < now'
    BY <1>4 DEF Stale
  <2>7. RunInv(t)
    BY <1>4, <2>4, <2>5, <2>6 DEF RunInv
  <2> QED
    BY <2>3, <2>7
<1>7. t.at <= now' /\ t.seen <= now'
  BY <1>2, <1>4
<1>8. t.phase # "idle"
  BY <1>4
<1> QED
  BY <1>2, <1>3, <1>4, <1>5, <1>6, <1>7, <1>8, DetectorIInv

\* A company whose newest event explains no absence reported after its last one.
LEMMA LinkIInv ==
  ASSUME IInv, NEW d \in Detectors, NEW c \in Companies, DetectLink(d, c)
  PROVE  IInv'
<1> DEFINE run == detector[d]
<1>1. Types /\ TypeOK /\ run.phase = "run" /\ c \in run.todo
  <2>1. Types /\ TypeOK
    BY DEF IInv, Types
  <2> QED
    BY <2>1 DEF DetectLink
<1>2. run \in Run /\ run.at <= now /\ run.seen <= now /\ run.seen \in Nat /\ d \in deployed
  BY <1>1, Typed DEF TypeOK, Types
<1>3. now \in Nat /\ now \in 1 .. MaxTime[deployed] /\ now <= now
  BY <1>1 DEF TypeOK
<1>4. UNCHANGED <<deployed, now, links, outbox, tableVars, handler>>
  BY DEF DetectLink
<1>5. PICK F \in {run.found, run.found \union {c}} :
        /\ detector' = [detector EXCEPT ![d] = [run EXCEPT !.todo = run.todo \ {c}, !.found = F]]
        /\ F = run.found \/ Latest(c) = {} \/ \E r \in Latest(c) : ~ExplainsAbsence(r)
  <2>1. CASE detector' = [detector EXCEPT ![d].todo = @ \ {c}]
    <3>1. [run EXCEPT !.todo = run.todo \ {c}]
            = [run EXCEPT !.todo = run.todo \ {c}, !.found = run.found]
      BY <1>2 DEF Run
    <3>2. detector' = [detector EXCEPT ![d] = [run EXCEPT !.todo = run.todo \ {c}]]
      BY <2>1
    <3> QED
      BY <3>1, <3>2
  <2>2. CASE /\ Latest(c) = {} \/ \E r \in Latest(c) : ~ExplainsAbsence(r)
             /\ detector' = [detector EXCEPT ![d].todo = @ \ {c}, ![d].found = @ \union {c}]
    <3>1. detector' = [detector EXCEPT ![d] = [run EXCEPT !.todo = run.todo \ {c},
                                                          !.found = run.found \union {c}]]
      BY <1>1, <2>2 DEF Types
    <3> QED
      BY <2>2, <3>1
  <2> QED
    BY <2>1, <2>2 DEF DetectLink
<1> DEFINE t == [run EXCEPT !.todo = run.todo \ {c}, !.found = F]
<1>6. /\ t \in Run /\ t.phase = "run" /\ t.at = run.at /\ t.seen = run.seen
      /\ t.todo = run.todo \ {c} /\ t.found = F
  BY <1>1, <1>2, <1>5 DEF Run
<1>7. detector' = [detector EXCEPT ![d] = t]
  BY <1>5
<1> HIDE DEF t
<1>8. ASSUME Serial
      PROVE  /\ handler = Idle /\ RunInv(t)
             /\ \A e \in Detectors \ {d} : detector[e].phase = "idle"
  <2>1. Facts
    BY <1>8 DEF IInv
  <2>2. handler = Idle
    BY <1>1, <2>1 DEF Facts, OneRuns
  <2>3. \A e \in Detectors \ {d} : detector[e].phase = "idle"
    <3>1. \A e \in Detectors \ {d} : detector[e].phase # "run"
      BY <1>1, <2>1 DEF Facts, OneRuns
    <3> QED
      BY <1>1, <3>1 DEF TypeOK
  <2>4. RunInv(run)
    BY <1>1, <2>1 DEF Facts, DetectorInv
  <2>5. ASSUME F # run.found, NEW m \in OfType(c, "missed")
        PROVE  m.at < run.seen
    <3>1. m \in rows[c] /\ m.type = "missed" /\ m.at \in Nat
      BY <1>1, Typed DEF OfType
    <3>2. Latest(c) # {}
      BY <2>1, <3>1 DEF Facts, NewestExists
    <3>3. PICK r \in Latest(c) : ~ExplainsAbsence(r)
      BY <1>5, <2>5, <3>2
    <3>4. /\ r \in rows[c] /\ m.at <= r.at /\ r.at \in Nat
          /\ r.type \in {"up", "stop", "missed", "recovered"}
      BY <1>1, <3>1, <3>3, Typed DEF Latest
    <3>5. r.type \in {"up", "recovered"}
      BY <3>3, <3>4 DEF ExplainsAbsence
    <3>6. r.at # m.at
      BY <2>1, <3>4, <3>5 DEF Facts, NoTies
    <3>7. r.at <= lastSeen /\ lastSeen \in Nat
      BY <1>1, <2>1, <3>4, <3>5, Typed DEF Facts, Dates
    <3>8. lastSeen = run.seen
      BY <2>4 DEF RunInv
    <3> QED
      BY <1>2, <3>1, <3>4, <3>6, <3>7, <3>8
  <2>6. \A k \in F : \A m \in OfType(k, "missed") : m.at < run.seen
    BY <1>5, <2>4, <2>5 DEF RunInv
  <2>7. t.todo \union t.found # {} => run.seen + Timeout < run.at
    BY <1>1, <2>4 DEF RunInv
  <2>8. RunInv(t)
    BY <1>6, <2>4, <2>6, <2>7 DEF RunInv
  <2> QED
    BY <2>2, <2>3, <2>8
<1>9. t.at <= now /\ t.seen <= now /\ t.phase # "idle"
  BY <1>2, <1>6
<1> HIDE DEF run
<1> QED
  BY <1>2, <1>3, <1>4, <1>6, <1>7, <1>8, <1>9, DetectorIInv

\* An absence is recorded after everything else that the tables hold.
LEMMA DetectCommitsIInv ==
  ASSUME IInv, NEW d \in Detectors, DetectCommits(d)
  PROVE  IInv'
<1> DEFINE run == detector[d]
           new == MissedEvent(d)
<1>1. Types /\ TypeOK /\ run.phase = "run" /\ run.todo = {}
  <2>1. Types /\ TypeOK
    BY DEF IInv, Types
  <2> QED
    BY <2>1 DEF DetectCommits
<1>2. /\ run.at \in Nat /\ run.seen \in Nat /\ run.at <= now /\ now \in Nat
      /\ run.found \subseteq Companies
  BY <1>1, Typed DEF TypeOK
<1>3. new \in Row /\ new.type = "missed" /\ new.at = run.at /\ new.seen = run.seen
  BY <1>2 DEF MissedEvent, Row
<1>4. \A c \in Companies : rows'[c] = IF c \in run.found THEN rows[c] \union {new} ELSE rows[c]
  BY DEF DetectCommits
<1>5. /\ UNCHANGED <<deployed, now, lastSeen, links, outbox, handler, heard>>
      /\ \A e \in Detectors : detector'[e] = IF e = d THEN NotRunning ELSE detector[e]
  BY <1>1 DEF DetectCommits, RunEnded, Types
<1> HIDE DEF new
<1>6. NotRunning \in Run /\ NotRunning.phase = "idle" /\ NotRunning' = NotRunning /\ Idle' = Idle
  BY DEF NotRunning, Run, Idle
<1>7. TypeOK'
  <2>1. rows' \in [Companies -> SUBSET Row]
    <3>1. \A c \in Companies : rows[c] \subseteq Row
      BY <1>1 DEF TypeOK
    <3>2. rows' = [c \in Companies |-> rows'[c]]
      BY DEF DetectCommits
    <3> QED
      BY <1>3, <1>4, <3>1, <3>2
  <2>2. \A e \in Detectors :
          /\ detector'[e].phase \in {"idle", "run"}
          /\ {detector'[e].at, detector'[e].seen} \subseteq 0 .. now
          /\ detector'[e].todo \union detector'[e].found \subseteq Companies
          /\ detector'[e].phase = "idle" => detector'[e] = NotRunning
    <3>1. /\ {NotRunning.at, NotRunning.seen} \subseteq 0 .. now
          /\ NotRunning.todo \union NotRunning.found \subseteq Companies
      BY <1>2 DEF NotRunning
    <3>2. \A e \in Detectors :
            /\ detector[e].phase \in {"idle", "run"}
            /\ {detector[e].at, detector[e].seen} \subseteq 0 .. now
            /\ detector[e].todo \union detector[e].found \subseteq Companies
            /\ detector[e].phase = "idle" => detector[e] = NotRunning
      BY <1>1 DEF TypeOK
    <3> QED
      BY <1>5, <1>6, <3>1, <3>2
  <2> QED
    BY <1>1, <1>5, <1>6, <2>1, <2>2 DEF TypeOK
<1>8. Types'
  <2>1. detector' \in [Detectors -> Run]
    BY <1>1, <1>6 DEF DetectCommits, RunEnded, Types
  <2>2. \A e \in Detectors : detector'[e].phase = "run" => e \in deployed'
    BY <1>1, <1>5, <1>6 DEF Types
  <2>3. Run' = Run /\ Row' = Row
    BY DEF Run, Row
  <2> QED
    BY <1>1, <1>5, <1>6, <1>7, <2>1, <2>2, <2>3 DEF Types, DetectsRecovery
<1> SUFFICES ASSUME Serial PROVE Facts'
  BY <1>5, <1>8 DEF IInv, Serial
<1>9. Facts /\ handler = Idle /\ RunInv(run)
  BY <1>1 DEF IInv, Facts, OneRuns, DetectorInv
<1>10. /\ run.seen = lastSeen
       /\ \A c \in Companies : \A r \in rows[c] : r.at <= run.at
       /\ \A i \in DOMAIN outbox : outbox[i].at # run.at
       /\ run.found # {} => run.seen + Timeout < run.at /\ run.seen < run.at
       /\ \A c \in run.found : \A m \in OfType(c, "missed") : m.at < run.seen
  BY <1>2, <1>9, TimeoutAssumption DEF RunInv
<1> HIDE DEF run
<1>11. /\ \A c \in Companies : \A r \in rows[c] :
            r.at \in Nat /\ r.type \in {"up", "stop", "missed", "recovered"}
       /\ \A h \in heard : h.at \in Nat
       /\ lastSeen \in Nat
  BY <1>1, Typed
<1>12. /\ \A c \in Companies : \A r \in rows'[c] : r \in rows[c] \/ (c \in run.found /\ r = new)
       /\ \A c \in Companies : rows[c] \subseteq rows'[c]
       /\ \A c \in run.found : c \in Companies /\ new \in rows'[c]
  BY <1>2, <1>4
<1>13. \A c \in Companies : OfType(c, "recovered")' = OfType(c, "recovered")
  <2>1. \A c \in Companies : \A r \in rows'[c] : r.type = "recovered" => r \in rows[c]
    BY <1>3, <1>12
  <2> QED
    BY <1>12, <2>1 DEF OfType
<1>14. \A c \in Companies :
         /\ OfType(c, "missed") \subseteq OfType(c, "missed")'
         /\ \A m \in OfType(c, "missed")' :
              m \in OfType(c, "missed") \/ (c \in run.found /\ m = new)
  BY <1>12 DEF OfType
<1>15. \A c \in Companies : \A m \in OfType(c, "missed") : m \in rows[c] /\ m.type = "missed"
  BY DEF OfType
<1>16. OneRuns' /\ DetectorInv' /\ HandlerInv'
  <2>1. \A e \in Detectors : detector'[e].phase # "run"
    BY <1>1, <1>5, <1>6, <1>9 DEF run, Facts, OneRuns
  <2> QED
    BY <1>5, <1>6, <1>9, <2>1 DEF OneRuns, DetectorInv, HandlerInv
<1>17. Dates'
  <2>1. \A c \in Companies : \A r \in rows'[c] :
          /\ r.at <= now
          /\ r.type \in {"up", "stop"} => r.at < lastSeen
          /\ r.type = "recovered" => r.at <= lastSeen
    BY <1>2, <1>3, <1>9, <1>12 DEF Facts, Dates
  <2> QED
    BY <1>5, <1>9, <2>1 DEF Facts, Dates
<1>18. NoTies'
  <2> SUFFICES ASSUME NEW c \in Companies, NEW m \in OfType(c, "missed")'
               PROVE  /\ \A r \in rows'[c] : r.at = m.at => r.type = "missed"
                      /\ \A i \in DOMAIN outbox : outbox[i].at # m.at
    BY <1>5 DEF NoTies
  <2>1. CASE m \in OfType(c, "missed")
    BY <1>3, <1>9, <1>12, <2>1 DEF Facts, NoTies
  <2>2. CASE c \in run.found /\ m = new
    <3>1. \A r \in rows[c] : r.type # "missed" => r.at <= lastSeen
      BY <1>9, <1>11 DEF Facts, Dates
    <3> QED
      BY <1>2, <1>3, <1>10, <1>11, <1>12, <2>2, <3>1
  <2> QED
    BY <1>14, <2>1, <2>2
<1>19. NewestExists'
  <2> SUFFICES ASSUME NEW c \in Companies, rows'[c] # {}
               PROVE  \E r \in rows'[c] : \A s \in rows'[c] : s.at <= r.at
    BY DEF NewestExists, Latest
  <2>1. CASE c \in run.found
    BY <1>2, <1>3, <1>10, <1>12, <2>1
  <2>2. CASE c \notin run.found
    <3>1. rows'[c] = rows[c]
      BY <1>4, <2>2 DEF run
    <3> QED
      BY <1>9, <3>1 DEF Facts, NewestExists, Latest
  <2> QED
    BY <2>1, <2>2
<1>20. AbsenceIsReal'
  <2> SUFFICES ASSUME NEW c \in Companies, NEW m \in OfType(c, "missed")'
               PROVE  /\ m.seen + Timeout < m.at
                      /\ \A h \in heard : ~(m.seen < h.at /\ h.at <= m.at)
    BY <1>5 DEF AbsenceIsReal
  <2>1. CASE m \in OfType(c, "missed")
    BY <1>9, <2>1 DEF Facts, AbsenceIsReal
  <2>2. CASE c \in run.found /\ m = new
    <3>1. \A h \in heard : h.at <= m.seen
      BY <1>3, <1>9, <1>10, <2>2 DEF Facts, Dates
    <3> QED
      BY <1>2, <1>3, <1>10, <1>11, <2>2, <3>1
  <2> QED
    BY <1>14, <2>1, <2>2
<1>21. AbsencesAreSeparate'
  <2> SUFFICES ASSUME NEW c \in Companies,
                      NEW m \in OfType(c, "missed")', NEW n \in OfType(c, "missed")', m.at < n.at
               PROVE  m.at < n.seen
    BY DEF AbsencesAreSeparate
  <2>1. CASE m \in OfType(c, "missed") /\ n \in OfType(c, "missed")
    BY <1>9, <2>1 DEF Facts, AbsencesAreSeparate
  <2>2. CASE m \in OfType(c, "missed") /\ c \in run.found /\ n = new
    BY <1>3, <1>10, <2>2
  <2>3. CASE c \in run.found /\ m = new
    <3>1. n.at <= run.at /\ n.at \in Nat
      BY <1>2, <1>3, <1>10, <1>11, <1>14, <1>15
    <3> QED
      BY <1>2, <1>3, <2>3, <3>1
  <2> QED
    BY <1>14, <2>1, <2>2, <2>3
<1>22. RecoveryIsPaired'
  <2> SUFFICES ASSUME NEW c \in Companies, NEW r \in OfType(c, "recovered")
               PROVE  \E m \in OfType(c, "missed")' :
                        /\ m.at < r.at /\ m.seen = r.seen
                        /\ \A s \in OfType(c, "recovered") : ~(m.at < s.at /\ s.at < r.at)
    BY <1>13 DEF RecoveryIsPaired
  <2>1. PICK m \in OfType(c, "missed") :
          /\ m.at < r.at /\ m.seen = r.seen
          /\ \A s \in OfType(c, "recovered") : ~(m.at < s.at /\ s.at < r.at)
    BY <1>9 DEF Facts, RecoveryIsPaired
  <2> QED
    BY <1>14, <2>1
<1>23. LostMeansSilent'
  <2> SUFFICES ASSUME NEW c \in Companies, NEW m \in Latest(c)', m.type = "missed",
                      NEW h \in heard, h.company = c, ShowsAlive(h)
               PROVE  h.at < m.at
    <3>1. \A u : ShowsAlive(u)' <=> ShowsAlive(u)
      BY DEF ShowsAlive
    <3> QED
      BY <1>5, <3>1 DEF LostMeansSilent
  <2>1. m \in rows'[c] /\ \A s \in rows'[c] : s.at <= m.at
    BY DEF Latest
  <2>2. CASE m \in rows[c]
    <3>1. m \in Latest(c)
      BY <1>12, <2>1, <2>2 DEF Latest
    <3> QED
      BY <1>9, <3>1 DEF Facts, LostMeansSilent
  <2>3. CASE c \in run.found /\ m = new
    BY <1>2, <1>3, <1>9, <1>10, <1>11, <2>3 DEF Facts, Dates
  <2> QED
    BY <1>12, <2>1, <2>2, <2>3
<1> QED
  BY <1>16, <1>17, <1>18, <1>19, <1>20, <1>21, <1>22, <1>23 DEF Facts

-----------------------------------------------------------------------------
(* The theorems.                                                             *)

LEMMA NextIInv == IInv /\ [Next]_vars => IInv'
<1> SUFFICES ASSUME IInv, [Next]_vars
             PROVE  IInv'
  OBVIOUS
<1>1. CASE Capture
  BY <1>1, CaptureIInv
<1>2. CASE LinkChanges \/ TimePasses
  BY <1>2, ClockIInv
<1>3. CASE Refuse
  BY <1>3, RefuseIInv
<1>4. CASE Receive
  BY <1>4, ReceiveIInv
<1>5. CASE SearchRecovery
  BY <1>5, SearchIInv
<1>6. CASE Commit
  BY <1>6, CommitIInv
<1>7. ASSUME NEW d \in Detectors, Detect(d) \/ DetectFails(d)
      PROVE  IInv'
  <2>1. CASE DetectStarts(d)
    BY <2>1, StartsIInv
  <2>2. CASE \E c \in Companies : DetectLink(d, c)
    BY <2>2, LinkIInv
  <2>3. CASE DetectCommits(d)
    BY <2>3, DetectCommitsIInv
  <2>4. CASE DetectFails(d)
    BY <2>4, FailsIInv
  <2> QED
    BY <1>7, <2>1, <2>2, <2>3, <2>4 DEF Detect
<1>8. CASE UNCHANGED vars
  <2>1. /\ UNCHANGED <<deployed, tableVars, handler, detector>>
        /\ UNCHANGED <<now, links, outbox>>
    BY <1>8 DEF vars, tableVars
  <2>2. /\ TypeOK /\ outbox \in Seq(Report) /\ links \subseteq Companies
        /\ handler # Idle => outbox # <<>>
        /\ now \in 1 .. MaxTime[deployed] /\ now <= now
    BY DEF IInv, Types, TypeOK
  <2> QED
    BY <2>1, <2>2, OutboxIInv
<1> QED
  BY <1>1, <1>2, <1>3, <1>4, <1>5, <1>6, <1>7, <1>8 DEF Next, Handle

\* The inductive invariant of the ingestion and of the detector, for any companies,
\* detectors and deployments of them.
THEOREM MonitorInvariance == Spec => []IInv
<1> QED
  BY InitIInv, NextIInv, PTL DEF Spec

\* The tables keep their types, whatever runs at the same time.
THEOREM TypeCorrect == Spec => []TypeOK
<1>1. IInv => TypeOK
  BY DEF IInv, Types
<1> QED
  BY <1>1, MonitorInvariance, PTL

\* Without a scheduler thread, an AGENT_MISSED_HEARTBEAT tells the truth
\* (detect_missed_heartbeats.py:88-106): the device was silent for longer than the
\* timeout, up to the instant of the event.
THEOREM AbsenceCorrect == Spec => []AbsenceIsReal
<1>1. IInv => AbsenceIsReal
  BY DEF IInv, Facts, AbsenceIsReal
<1> QED
  BY <1>1, MonitorInvariance, PTL

\* Without a scheduler thread, an absence is recorded once, although every run of
\* the detector finds the device missing (backend/docs/backend.md:420).
THEOREM SeparateCorrect == Spec => []AbsencesAreSeparate
<1>1. IInv => AbsencesAreSeparate
  BY DEF IInv, Facts, AbsencesAreSeparate
<1> QED
  BY <1>1, MonitorInvariance, PTL

\* Without a scheduler thread, an AGENT_RECOVERED ends one recorded absence
\* (record_agent_activity.py:65-70).
THEOREM RecoveryCorrect == Spec => []RecoveryIsPaired
<1>1. IInv => RecoveryIsPaired
  BY DEF IInv, Facts, RecoveryIsPaired
<1> QED
  BY <1>1, MonitorInvariance, PTL

\* Without a scheduler thread, a company whose newest event is an absence has heard
\* nothing of the device since (backend/docs/backend.md:422).
THEOREM SilenceCorrect == Spec => []LostMeansSilent
<1>1. IInv => LostMeansSilent
  BY DEF IInv, Facts, LostMeansSilent
<1> QED
  BY <1>1, MonitorInvariance, PTL
=============================================================================
