------------------------------ MODULE Enrollment ------------------------------
(***************************************************************************)
(* How a device gets linked to a company (backend/app/companies): the       *)
(* company issues an enrollment code, a device spends one use of it on a     *)
(* request, an auditor reviews the request, and the device may revoke the    *)
(* link that an acceptance created.                                          *)
(*                                                                         *)
(* Each worker of the backend runs one transaction at a time, at READ        *)
(* COMMITTED, and a transaction is cut at each of its queries.  What it       *)
(* writes becomes visible when it commits.  A query that takes the lock of a  *)
(* row waits for the transaction that holds it; an insert that violates a     *)
(* unique index fails, once the transaction it conflicts with has committed,  *)
(* and rolls everything back.  The calls of an agent begin with the check of   *)
(* its token, which DeviceRegistry models: it leaves the credential locked, so  *)
(* that the calls of one device follow one another.                            *)
(***************************************************************************)
EXTENDS Naturals, Sequences, FiniteSets

CONSTANTS
  Workers,      \* backend workers that may be deployed
  Devices,      \* registered devices
  Companies,
  Codes,        \* enrollment codes
  CompanyOf,    \* the company that issues each code
  MaxUses,      \* max_uses of each code
  MaxRequests,  \* bound: enrollment requests
  None          \* no transaction holds the row

ASSUME CodesAssumption ==
  /\ CompanyOf \in [Codes -> Companies]
  /\ MaxUses \in [Codes -> Nat \ {0}]
  /\ MaxRequests \in Nat
ASSUME NoneAssumption == None \notin Workers

VARIABLES
  deployed,   \* the workers of this deployment
  codes,      \* per code: is it issued, is it expired, how often was it used
  requests,   \* the committed enrollment requests, by id
  links,      \* the committed company-device links, by id
  holder,     \* the transaction that holds the row of each code
  txn         \* the transaction of each worker

tables == <<codes, requests, links>>
vars == <<deployed, codes, requests, links, holder, txn>>

\* With one worker the handlers run one after the other.
SingleWorker == \A v, w \in deployed : v = w

RequestIds == DOMAIN requests
LinkIds == DOMAIN links

ActiveLink(c, d) ==
  \E i \in LinkIds : links[i].active /\ links[i].company = c /\ links[i].device = d

PendingRequest(c, d) ==
  \E i \in RequestIds :
    requests[i].status = "PENDING" /\ requests[i].company = c /\ requests[i].device = d

-----------------------------------------------------------------------------
(* Transactions.                                                             *)

Idle == [step |-> "idle"]

\* Wrong variant: the calls of one device overlap.
AnyDevice(d) == TRUE

\* No other call of the device is past the check of its token.
DeviceIsFree(d) ==
  \A v \in Workers :
    /\ txn[v].step \in {"link", "pending", "use"} => txn[v].device # d
    /\ txn[v].step = "revoke" => links[txn[v].link].device # d

\* A worker that has no transaction in hand takes one and runs its first query.
\* A transaction that ends there wrote nothing and is no step.
Begin(w, start) ==
  /\ w \in deployed /\ txn[w] = Idle
  /\ txn' = [txn EXCEPT ![w] = start]
  /\ UNCHANGED <<deployed, tables>>

Continue(w, step) == txn' = [txn EXCEPT ![w].step = step]

\* Committed or rolled back: the rows it held are free again.
End(w) ==
  /\ txn' = [txn EXCEPT ![w] = Idle]
  /\ holder' = [k \in Codes |-> IF holder[k] = w THEN None ELSE holder[k]]

\* DomainValidationError (422), a result that needs no write, or a failure of
\* the database: nothing is written.
Rejects(w) == End(w) /\ UNCHANGED <<deployed, tables>>

RollsBack(w) == txn[w] # Idle /\ Rejects(w)

-----------------------------------------------------------------------------
(* CreateEnrollmentCodeUseCase: one insert.                                  *)

CreateEnrollmentCode(k) ==
  /\ ~codes[k].issued
  /\ codes' = [codes EXCEPT ![k].issued = TRUE]
  /\ UNCHANGED <<deployed, requests, links, holder, txn>>

CodeExpires(k) ==
  /\ codes[k].issued /\ ~codes[k].expired
  /\ codes' = [codes EXCEPT ![k].expired = TRUE]
  /\ UNCHANGED <<deployed, requests, links, holder, txn>>

\* EnrollmentCode.is_active
CodeIsActive(k) == codes[k].issued /\ ~codes[k].expired /\ codes[k].used < MaxUses[k]

-----------------------------------------------------------------------------
(* RequestDeviceEnrollmentUseCase.                                           *)

\* Wrong variant (no action uses it): SELECT without FOR UPDATE.
CodeRowReadWithoutLock(k) == TRUE

\* SELECT ... FOR UPDATE waits for the transaction that holds the row.
CodeRowIsFree(k) == holder[k] = None

\* find_by_code_digest, and the checks of the code.
RequestDeviceEnrollment(w, d, k) ==
  /\ DeviceIsFree(d) /\ CodeRowIsFree(k) /\ CodeIsActive(k)
  /\ Begin(w, [step |-> "link", device |-> d, code |-> k, used |-> codes[k].used])
  /\ holder' = [holder EXCEPT ![k] = w]

FindActiveLink(w) ==
  /\ txn[w].step = "link"
  /\ \/ /\ ~ActiveLink(CompanyOf[txn[w].code], txn[w].device)
        /\ Continue(w, "pending")
        /\ UNCHANGED <<deployed, tables, holder>>
     \/ ActiveLink(CompanyOf[txn[w].code], txn[w].device) /\ Rejects(w)

\* A request that already waits for review is returned as it is.
FindPendingRequest(w) ==
  /\ txn[w].step = "pending"
  /\ \/ /\ ~PendingRequest(CompanyOf[txn[w].code], txn[w].device)
        /\ Continue(w, "use")
        /\ UNCHANGED <<deployed, tables, holder>>
     \/ PendingRequest(CompanyOf[txn[w].code], txn[w].device) /\ Rejects(w)

\* register_use works on the row as it was read, which FOR UPDATE has locked.
UseRegistered(k, used) == [codes EXCEPT ![k].used = used + 1]

\* The insert; uq_company_enrollment_requests_pending_device lets a device have
\* one pending request at a company.
UseCode(w) ==
  LET k == txn[w].code
      d == txn[w].device
  IN /\ txn[w].step = "use" /\ Len(requests) < MaxRequests
     /\ ~PendingRequest(CompanyOf[k], d)
     /\ codes' = UseRegistered(k, txn[w].used)
     /\ requests' = Append(requests, [company |-> CompanyOf[k], device |-> d,
                                      code |-> k, status |-> "PENDING"])
     /\ End(w)
     /\ UNCHANGED <<deployed, links>>

-----------------------------------------------------------------------------
(* ReviewEnrollmentRequestUseCase.                                           *)

\* Wrong variant: a reviewed request may be reviewed again.
NotChecked(status) == TRUE

\* EnrollmentRequest._ensure_pending
MayBeReviewed(status) == status = "PENDING"

AfterReview(decision) == IF decision = "ACCEPTED" THEN "ensure" ELSE "save"

ReviewEnrollmentRequest(w, i, decision) ==
  /\ i \in RequestIds /\ MayBeReviewed(requests[i].status)
  /\ Begin(w, [step |-> AfterReview(decision), request |-> i, decision |-> decision])
  /\ UNCHANGED holder

\* _ensure_link: an active link is kept, otherwise one is created.
EnsureLink(w) ==
  /\ txn[w].step = "ensure"
  /\ Continue(w, IF ActiveLink(requests[txn[w].request].company, requests[txn[w].request].device)
                   THEN "save" ELSE "create")
  /\ UNCHANGED <<deployed, tables, holder>>

\* Wrong variant: the decision is not written to the request.
DecisionNotSaved(i, decision) == requests

\* The row is written whatever became of it since it was read.
Reviewed(i, decision) == [requests EXCEPT ![i].status = decision]

SaveReview(w) ==
  /\ txn[w].step = "save"
  /\ requests' = Reviewed(txn[w].request, txn[w].decision)
  /\ End(w)
  /\ UNCHANGED <<deployed, codes, links>>

\* Wrong variant: no unique index on the active links.
NoLinkIndex(c, d) == FALSE

\* uq_company_device_links_active_device
LinkConflict(c, d) == ActiveLink(c, d)

SaveReviewAndLink(w) ==
  /\ txn[w].step = "create"
  /\ LET i == txn[w].request
         c == requests[i].company
         d == requests[i].device
     IN \/ /\ ~LinkConflict(c, d)
           /\ links' = Append(links, [company |-> c, device |-> d, request |-> i, active |-> TRUE])
           /\ requests' = Reviewed(i, txn[w].decision)
           /\ End(w)
           /\ UNCHANGED <<deployed, codes>>
        \/ LinkConflict(c, d) /\ Rejects(w)

-----------------------------------------------------------------------------
(* RevokeDeviceCompanyLinkUseCase.                                           *)

\* A link that is already revoked is returned as it is.
RevokeDeviceCompanyLink(w, i) ==
  /\ i \in LinkIds /\ links[i].active /\ DeviceIsFree(links[i].device)
  /\ Begin(w, [step |-> "revoke", link |-> i])
  /\ UNCHANGED holder

SaveRevocation(w) ==
  /\ txn[w].step = "revoke"
  /\ links' = [links EXCEPT ![txn[w].link].active = FALSE]
  /\ End(w)
  /\ UNCHANGED <<deployed, codes, requests>>

-----------------------------------------------------------------------------
Init ==
  /\ deployed \in (SUBSET Workers) \ {{}}
  /\ codes = [k \in Codes |-> [issued |-> FALSE, expired |-> FALSE, used |-> 0]]
  /\ requests = <<>>
  /\ links = <<>>
  /\ holder = [k \in Codes |-> None]
  /\ txn = [w \in Workers |-> Idle]

Arrive(w) ==
  \/ \E d \in Devices, k \in Codes : RequestDeviceEnrollment(w, d, k)
  \/ \E i \in RequestIds, decision \in {"ACCEPTED", "DENIED"} :
       ReviewEnrollmentRequest(w, i, decision)
  \/ \E i \in LinkIds : RevokeDeviceCompanyLink(w, i)

Work(w) ==
  \/ FindActiveLink(w) \/ FindPendingRequest(w) \/ UseCode(w)
  \/ EnsureLink(w) \/ SaveReview(w) \/ SaveReviewAndLink(w) \/ SaveRevocation(w)

Next ==
  \/ \E k \in Codes : CreateEnrollmentCode(k) \/ CodeExpires(k)
  \/ \E w \in Workers : Arrive(w) \/ Work(w) \/ RollsBack(w)

Spec == Init /\ [][Next]_vars

-----------------------------------------------------------------------------
(* Properties.                                                               *)

Request == [company : Companies, device : Devices, code : Codes,
            status : {"PENDING", "ACCEPTED", "DENIED"}]
Link == [company : Companies, device : Devices, request : Nat, active : BOOLEAN]

Transaction ==
  {Idle}
  \union [step : {"link", "pending", "use"}, device : Devices, code : Codes, used : Nat]
  \union [step : {"save"}, request : RequestIds, decision : {"ACCEPTED", "DENIED"}]
  \union [step : {"ensure", "create"}, request : RequestIds, decision : {"ACCEPTED"}]
  \union [step : {"revoke"}, link : LinkIds]

\* The rows, and what the running transactions carry from query to query.
TypeOK ==
  /\ deployed \subseteq Workers /\ deployed # {}
  /\ codes \in [Codes -> [issued : BOOLEAN, expired : BOOLEAN, used : Nat]]
  /\ requests \in Seq(Request)
  /\ links \in Seq(Link)
  /\ holder \in [Codes -> Workers \union {None}]
  /\ txn \in [Workers -> Transaction]

\* used_count is the number of requests made with the code, so no use is lost
\* or spent twice and no code outlives its max_uses, with any number of
\* workers (create_enrollment_code.py:52, entities.py:119-122).
UsesAreCounted ==
  \A k \in Codes :
    /\ codes[k].used <= MaxUses[k]
    /\ codes[k].used = Cardinality({i \in RequestIds : requests[i].code = k})

\* A device has at most one active link to a company, with any number of
\* workers (sqlalchemy_models.py:60-67).
OneActiveLink ==
  \A i, j \in LinkIds :
    /\ links[i].active /\ links[j].active
    /\ links[i].company = links[j].company /\ links[i].device = links[j].device
    => i = j

\* A device has at most one request waiting at a company, with any number of
\* workers (sqlalchemy_models.py:37-44).
OnePendingRequest ==
  \A i, j \in RequestIds :
    /\ requests[i].status = "PENDING" /\ requests[j].status = "PENDING"
    /\ requests[i].company = requests[j].company /\ requests[i].device = requests[j].device
    => i = j

SpendsCode(t) == t.step \in {"link", "pending", "use"}

\* A transaction that is about to use a code holds its row, and what it read
\* of the row is still true.
LockInv ==
  \A w \in Workers : SpendsCode(txn[w]) =>
    LET k == txn[w].code
    IN /\ holder[k] = w
       /\ codes[k].used = txn[w].used
       /\ codes[k].used < MaxUses[k]

\* A device that asks is never stopped by the index: what FindPendingRequest has
\* seen is still true when the request is inserted, with any number of workers,
\* because nobody else asks for that device meanwhile.  The violation of the index
\* would be a failure of the database that no handler expects
\* (request_device_enrollment.py:56-72).
RequestsDoNotCollide ==
  \A w \in Workers : txn[w].step = "use" => ~PendingRequest(CompanyOf[txn[w].code], txn[w].device)

\* Behind it: two calls that spend a code are of different devices.
DevicesApart ==
  \A v, w \in Workers :
    SpendsCode(txn[v]) /\ SpendsCode(txn[w]) /\ txn[v].device = txn[w].device => v = w

\* The inductive invariant behind the properties about codes, requests and links.
IInv == TypeOK /\ LockInv /\ UsesAreCounted /\ OneActiveLink /\ OnePendingRequest

\* With one worker, what the auditor decided is what the links say: a request
\* was accepted exactly if a link was created for it.
LinkedIffAccepted ==
  SingleWorker =>
    \A i \in RequestIds :
      requests[i].status = "ACCEPTED" <=> \E l \in LinkIds : links[l].request = i

\* With one worker, a device that is linked to a company has no request waiting
\* there (request_device_enrollment.py:53-54).
LinkedIsNotWaiting ==
  SingleWorker =>
    \A i \in RequestIds : requests[i].status = "PENDING" =>
      ~ActiveLink(requests[i].company, requests[i].device)
=============================================================================
