--------------------------- MODULE EnrollmentProofs ---------------------------
(***************************************************************************)
(* Theorems about Enrollment, for any workers, devices, companies and codes. *)
(*                                                                         *)
(* The argument is one inductive invariant, IInv.  Its part LockInv says that *)
(* a transaction between find_by_code_digest and its commit holds the row of  *)
(* the code, so that what it read is still true when it writes used_count;    *)
(* the rest follows from the unique indexes, which an insert checks when it   *)
(* commits, whatever the look-ups before it saw.  Relative to it, DevicesApart *)
(* and RequestsDoNotCollide are inductive: the index of the requests is never   *)
(* violated, because the calls of one device follow one another.  So is          *)
(* SerialInv: with one worker, what a transaction has read is still so when it    *)
(* commits, and the links say what the auditor decided.                          *)
(***************************************************************************)
EXTENDS Enrollment, FiniteSetTheorems, SequenceTheorems, TLAPS

\* What a transaction carries, by its step.
LEMMA Shapes ==
  ASSUME TypeOK, NEW w \in Workers
  PROVE  /\ SpendsCode(txn[w]) =>
              txn[w] \in [step : {"link", "pending", "use"}, device : Devices, code : Codes,
                          used : Nat]
         /\ txn[w].step = "save" =>
              txn[w] \in [step : {"save"}, request : RequestIds, decision : {"ACCEPTED", "DENIED"}]
         /\ txn[w].step \in {"ensure", "create"} =>
              txn[w] \in [step : {"ensure", "create"}, request : RequestIds,
                          decision : {"ACCEPTED"}]
         /\ txn[w].step = "revoke" => txn[w] \in [step : {"revoke"}, link : LinkIds]
<1>1. txn[w] \in Transaction
  BY DEF TypeOK
<1> QED
  BY <1>1 DEF Transaction, SpendsCode, Idle

LEMMA InitIInv == Init => IInv
<1> SUFFICES ASSUME Init PROVE IInv
  OBVIOUS
<1>1. TypeOK
  <2>1. Idle \in Transaction
    BY DEF Transaction
  <2>2. txn \in [Workers -> Transaction]
    BY <2>1 DEF Init
  <2>3. codes \in [Codes -> [issued : BOOLEAN, expired : BOOLEAN, used : Nat]]
    BY DEF Init
  <2>4. requests \in Seq(Request) /\ links \in Seq(Link)
    BY DEF Init
  <2>5. deployed \subseteq Workers /\ deployed # {}
    BY DEF Init
  <2>6. holder \in [Codes -> Workers \union {None}]
    BY DEF Init
  <2> QED
    BY <2>2, <2>3, <2>4, <2>5, <2>6 DEF TypeOK
<1>2. LockInv
  BY DEF Init, LockInv, SpendsCode, Idle
<1>3. UsesAreCounted
  <2>1. \A k \in Codes : {i \in RequestIds : requests[i].code = k} = {}
    BY DEF Init, RequestIds
  <2>2. \A k \in Codes : Cardinality({i \in RequestIds : requests[i].code = k}) = 0
    BY <2>1, FS_EmptySet, Zenon
  <2>3. \A k \in Codes : codes[k].used = 0 /\ 0 <= MaxUses[k]
    BY CodesAssumption DEF Init
  <2> QED
    BY <2>2, <2>3 DEF UsesAreCounted
<1>4. OneActiveLink /\ OnePendingRequest
  BY DEF Init, OneActiveLink, OnePendingRequest, RequestIds, LinkIds
<1> QED
  BY <1>1, <1>2, <1>3, <1>4 DEF IInv

-----------------------------------------------------------------------------
(* What the steps of a transaction keep.                                     *)

\* Rows are only added, so what a transaction refers to stays there.
LEMMA TransactionsStay ==
  ASSUME RequestIds \subseteq RequestIds', LinkIds \subseteq LinkIds'
  PROVE  Transaction \subseteq Transaction'
BY DEF Transaction

\* A commit or rollback frees the rows of its transaction and no other one; the
\* others still hold theirs, provided the codes changed at most in those rows.
LEMMA EndKeepsLocks ==
  ASSUME TypeOK, LockInv, NEW w \in Workers, End(w),
         Transaction \subseteq Transaction',
         \A k \in Codes : holder[k] # w => codes'[k].used = codes[k].used
  PROVE  /\ txn' \in [Workers -> Transaction']
         /\ holder' \in [Codes -> Workers \union {None}]
         /\ LockInv'
<1>1. txn' \in [Workers -> Transaction']
  <2>1. txn \in [Workers -> Transaction]
    BY DEF TypeOK
  <2>2. Idle \in Transaction'
    BY DEF Transaction
  <2> QED
    BY <2>1, <2>2 DEF End
<1>2. holder' \in [Codes -> Workers \union {None}]
  BY DEF TypeOK, End
<1>3. ASSUME NEW v \in Workers, SpendsCode(txn'[v])
      PROVE  LET k == txn'[v].code
             IN holder'[k] = v /\ codes'[k].used = txn'[v].used /\ codes'[k].used < MaxUses[k]
  <2>1. v # w /\ txn'[v] = txn[v]
    BY <1>3 DEF End, TypeOK, SpendsCode, Idle
  <2>2. txn[v].code \in Codes
    BY <1>3, <2>1, Shapes
  <2>3. holder[txn[v].code] = v
    BY <1>3, <2>1 DEF LockInv
  <2> QED
    BY <1>3, <2>1, <2>2, <2>3, NoneAssumption DEF LockInv, End, TypeOK
<1> QED
  BY <1>1, <1>2, <1>3 DEF LockInv

\* The same for a query after which the transaction goes on: what it carries
\* about the code it spends must still be true.
LEMMA StepKeepsLocks ==
  ASSUME TypeOK, LockInv, NEW w \in Workers, NEW t \in Transaction',
         txn' = [txn EXCEPT ![w] = t],
         UNCHANGED <<codes, requests, links, holder>>,
         SpendsCode(t) => holder[t.code] = w /\ codes[t.code].used = t.used
                            /\ codes[t.code].used < MaxUses[t.code]
  PROVE  txn' \in [Workers -> Transaction'] /\ LockInv'
<1>1. Transaction \subseteq Transaction'
  BY TransactionsStay DEF RequestIds, LinkIds
<1>2. txn' \in [Workers -> Transaction']
  BY <1>1 DEF TypeOK
<1>3. \A v \in Workers : txn'[v] = IF v = w THEN t ELSE txn[v]
  BY DEF TypeOK
<1> QED
  BY <1>2, <1>3 DEF LockInv, SpendsCode

\* Only the use of a code changes how often codes were used.
LEMMA SameUses ==
  ASSUME UsesAreCounted, RequestIds' = RequestIds,
         \A i \in RequestIds : requests'[i].code = requests[i].code,
         \A k \in Codes : codes'[k].used = codes[k].used
  PROVE  UsesAreCounted'
<1>1. ASSUME NEW k \in Codes
      PROVE  {i \in RequestIds' : requests'[i].code = k} = {i \in RequestIds : requests[i].code = k}
  OBVIOUS
<1>2. ASSUME NEW k \in Codes
      PROVE  Cardinality({i \in RequestIds' : requests'[i].code = k})
               = Cardinality({i \in RequestIds : requests[i].code = k})
  BY <1>1
<1> QED
  BY <1>2 DEF UsesAreCounted

-----------------------------------------------------------------------------
(* The invariant, action by action.                                          *)

\* A transaction that ends without a write keeps the invariant.
LEMMA RejectsIInv ==
  ASSUME IInv, NEW w \in Workers, Rejects(w)
  PROVE  IInv'
<1>1. UNCHANGED <<deployed, codes, requests, links>> /\ End(w)
  BY DEF Rejects, tables
<1>2. Transaction \subseteq Transaction'
  BY <1>1, TransactionsStay DEF RequestIds, LinkIds
<1>3. txn' \in [Workers -> Transaction'] /\ holder' \in [Codes -> Workers \union {None}] /\ LockInv'
  BY <1>1, <1>2, EndKeepsLocks DEF IInv
<1>4. TypeOK'
  BY <1>1, <1>3 DEF IInv, TypeOK
<1>5. UsesAreCounted'
  BY <1>1, SameUses DEF IInv, RequestIds
<1>6. OneActiveLink' /\ OnePendingRequest'
  BY <1>1 DEF IInv, OneActiveLink, OnePendingRequest, RequestIds, LinkIds
<1> QED
  BY <1>3, <1>4, <1>5, <1>6 DEF IInv

\* A query after which the transaction goes on keeps it too.
LEMMA QueryIInv ==
  ASSUME IInv, NEW w \in Workers, NEW t \in Transaction',
         txn' = [txn EXCEPT ![w] = t],
         UNCHANGED <<deployed, codes, requests, links, holder>>,
         SpendsCode(t) => holder[t.code] = w /\ codes[t.code].used = t.used
                            /\ codes[t.code].used < MaxUses[t.code]
  PROVE  IInv'
<1>1. txn' \in [Workers -> Transaction'] /\ LockInv'
  BY StepKeepsLocks DEF IInv
<1>2. TypeOK'
  BY <1>1 DEF IInv, TypeOK
<1>3. UsesAreCounted'
  BY SameUses DEF IInv, RequestIds
<1>4. OneActiveLink' /\ OnePendingRequest'
  BY DEF IInv, OneActiveLink, OnePendingRequest, RequestIds, LinkIds
<1> QED
  BY <1>1, <1>2, <1>3, <1>4 DEF IInv

\* So do the issue of a code and its expiry, which do not use it.
LEMMA CodeIInv ==
  ASSUME IInv, NEW k \in Codes, CreateEnrollmentCode(k) \/ CodeExpires(k)
  PROVE  IInv'
<1>1. /\ codes' \in [Codes -> [issued : BOOLEAN, expired : BOOLEAN, used : Nat]]
      /\ \A l \in Codes : codes'[l].used = codes[l].used
      /\ UNCHANGED <<deployed, requests, links, holder, txn>>
  <2>1. codes \in [Codes -> [issued : BOOLEAN, expired : BOOLEAN, used : Nat]]
    BY DEF IInv, TypeOK
  <2>2. PICK row \in [issued : BOOLEAN, expired : BOOLEAN, used : Nat] :
          row.used = codes[k].used /\ codes' = [codes EXCEPT ![k] = row]
    <3>1. CASE CreateEnrollmentCode(k)
      <4> DEFINE row == [codes[k] EXCEPT !.issued = TRUE]
      <4>1. row \in [issued : BOOLEAN, expired : BOOLEAN, used : Nat] /\ row.used = codes[k].used
        BY <2>1
      <4>2. codes' = [codes EXCEPT ![k] = row]
        BY <3>1 DEF CreateEnrollmentCode
      <4> QED
        BY <4>1, <4>2
    <3>2. CASE CodeExpires(k)
      <4> DEFINE row == [codes[k] EXCEPT !.expired = TRUE]
      <4>1. row \in [issued : BOOLEAN, expired : BOOLEAN, used : Nat] /\ row.used = codes[k].used
        BY <2>1
      <4>2. codes' = [codes EXCEPT ![k] = row]
        BY <3>2 DEF CodeExpires
      <4> QED
        BY <4>1, <4>2
    <3> QED
      BY <3>1, <3>2
  <2> QED
    BY <2>1, <2>2 DEF CreateEnrollmentCode, CodeExpires
<1>2. Transaction' = Transaction
  BY <1>1 DEF Transaction, RequestIds, LinkIds
<1>3. TypeOK'
  BY <1>1, <1>2 DEF IInv, TypeOK
<1>4. LockInv'
  <2>1. \A w \in Workers : SpendsCode(txn[w]) => txn[w].code \in Codes
    BY Shapes DEF IInv
  <2> QED
    BY <1>1, <2>1 DEF IInv, LockInv
<1>5. UsesAreCounted'
  BY <1>1, SameUses DEF IInv, RequestIds
<1>6. OneActiveLink' /\ OnePendingRequest'
  BY <1>1 DEF IInv, OneActiveLink, OnePendingRequest, RequestIds, LinkIds
<1> QED
  BY <1>3, <1>4, <1>5, <1>6 DEF IInv

\* A device asks with a code: its row is locked and was free.
LEMMA RequestIInv ==
  ASSUME IInv, NEW w \in Workers, NEW d \in Devices, NEW k \in Codes,
         RequestDeviceEnrollment(w, d, k)
  PROVE  IInv'
<1> DEFINE t == [step |-> "link", device |-> d, code |-> k, used |-> codes[k].used]
<1>1. /\ holder[k] = None /\ codes[k].used < MaxUses[k]
      /\ txn' = [txn EXCEPT ![w] = t] /\ holder' = [holder EXCEPT ![k] = w]
      /\ UNCHANGED <<deployed, codes, requests, links>>
  BY DEF RequestDeviceEnrollment, Begin, CodeRowIsFree, CodeIsActive, tables
<1>2. t \in Transaction /\ Transaction' = Transaction
  BY <1>1 DEF Transaction, RequestIds, LinkIds, IInv, TypeOK
<1>3. /\ txn' \in [Workers -> Transaction']
      /\ holder' \in [Codes -> Workers \union {None}]
  BY <1>1, <1>2 DEF IInv, TypeOK
<1>4. TypeOK'
  BY <1>1, <1>3 DEF IInv, TypeOK
<1>5. ASSUME NEW v \in Workers, SpendsCode(txn'[v])
      PROVE  LET l == txn'[v].code
             IN holder'[l] = v /\ codes'[l].used = txn'[v].used /\ codes'[l].used < MaxUses[l]
  <2>1. CASE v = w
    <3>1. txn'[v] = t
      BY <1>1, <2>1 DEF IInv, TypeOK
    <3> QED
      BY <1>1, <2>1, <3>1 DEF IInv, TypeOK
  <2>2. CASE v # w
    <3>1. txn'[v] = txn[v]
      BY <1>1, <2>2 DEF IInv, TypeOK
    <3>2. txn[v].code \in Codes /\ holder[txn[v].code] = v
      BY <1>5, <3>1, Shapes DEF IInv, LockInv
    <3>3. txn[v].code # k
      BY <1>1, <3>2, NoneAssumption
    <3> QED
      BY <1>1, <1>5, <3>1, <3>2, <3>3 DEF IInv, LockInv, TypeOK
  <2> QED
    BY <2>1, <2>2
<1>6. LockInv'
  BY <1>5 DEF LockInv
<1>7. UsesAreCounted'
  BY <1>1, SameUses DEF IInv, RequestIds
<1>8. OneActiveLink' /\ OnePendingRequest'
  BY <1>1 DEF IInv, OneActiveLink, OnePendingRequest, RequestIds, LinkIds
<1> QED
  BY <1>4, <1>6, <1>7, <1>8 DEF IInv

\* A review or a revocation begins.
LEMMA OtherArrivalIInv ==
  ASSUME IInv, NEW w \in Workers,
         \/ \E i \in RequestIds, decision \in {"ACCEPTED", "DENIED"} :
              ReviewEnrollmentRequest(w, i, decision)
         \/ \E i \in LinkIds : RevokeDeviceCompanyLink(w, i)
  PROVE  IInv'
<1>1. ASSUME NEW i \in RequestIds, NEW decision \in {"ACCEPTED", "DENIED"},
             ReviewEnrollmentRequest(w, i, decision)
      PROVE  IInv'
  <2> DEFINE t == [step |-> AfterReview(decision), request |-> i, decision |-> decision]
  <2>1. /\ txn' = [txn EXCEPT ![w] = t]
        /\ UNCHANGED <<deployed, codes, requests, links, holder>>
    BY <1>1 DEF ReviewEnrollmentRequest, Begin, tables
  <2>2. t \in Transaction' /\ ~SpendsCode(t)
    BY <2>1 DEF Transaction, AfterReview, RequestIds, LinkIds, SpendsCode
  <2> QED
    BY <2>1, <2>2, QueryIInv
<1>2. ASSUME NEW i \in LinkIds, RevokeDeviceCompanyLink(w, i)
      PROVE  IInv'
  <2> DEFINE t == [step |-> "revoke", link |-> i]
  <2>1. /\ txn' = [txn EXCEPT ![w] = t]
        /\ UNCHANGED <<deployed, codes, requests, links, holder>>
    BY <1>2 DEF RevokeDeviceCompanyLink, Begin, tables
  <2>2. t \in Transaction' /\ ~SpendsCode(t)
    BY <2>1 DEF Transaction, RequestIds, LinkIds, SpendsCode
  <2> QED
    BY <2>1, <2>2, QueryIInv
<1> QED
  BY <1>1, <1>2

\* The look-ups of a device that asks, and the one of an acceptance.
LEMMA LookUpIInv ==
  ASSUME IInv, NEW w \in Workers, FindActiveLink(w) \/ FindPendingRequest(w) \/ EnsureLink(w)
  PROVE  IInv'
<1>1. ASSUME NEW step \in {"pending", "use"}, SpendsCode(txn[w]), Continue(w, step),
             UNCHANGED <<deployed, tables, holder>>
      PROVE  IInv'
  <2> DEFINE t == [txn[w] EXCEPT !.step = step]
  <2>1. txn[w] \in [step : {"link", "pending", "use"}, device : Devices, code : Codes, used : Nat]
    BY <1>1, Shapes DEF IInv
  <2>2. t \in Transaction' /\ t.code = txn[w].code /\ t.used = txn[w].used
    BY <1>1, <2>1 DEF Transaction
  <2>3. txn' = [txn EXCEPT ![w] = t] /\ UNCHANGED <<deployed, codes, requests, links, holder>>
    BY <1>1 DEF Continue, tables
  <2>4. /\ holder[t.code] = w /\ codes[t.code].used = t.used
        /\ codes[t.code].used < MaxUses[t.code]
    BY <1>1, <2>2 DEF IInv, LockInv
  <2> HIDE DEF t
  <2> QED
    BY <2>2, <2>3, <2>4, QueryIInv
<1>2. CASE FindActiveLink(w)
  BY <1>1, <1>2, RejectsIInv DEF FindActiveLink, SpendsCode
<1>3. CASE FindPendingRequest(w)
  BY <1>1, <1>3, RejectsIInv DEF FindPendingRequest, SpendsCode
<1>4. CASE EnsureLink(w)
  <2>1. PICK step \in {"save", "create"} :
          Continue(w, step) /\ UNCHANGED <<deployed, tables, holder>>
    BY <1>4 DEF EnsureLink
  <2> DEFINE t == [txn[w] EXCEPT !.step = step]
  <2>2. txn[w] \in [step : {"ensure", "create"}, request : RequestIds, decision : {"ACCEPTED"}]
    BY <1>4, Shapes DEF EnsureLink, IInv
  <2>3. txn' = [txn EXCEPT ![w] = t] /\ UNCHANGED <<deployed, codes, requests, links, holder>>
    BY <2>1 DEF Continue, tables
  <2>4. t \in Transaction' /\ ~SpendsCode(t)
    BY <2>2, <2>3 DEF Transaction, SpendsCode, RequestIds, LinkIds
  <2> HIDE DEF t
  <2> QED
    BY <2>3, <2>4, QueryIInv
<1> QED
  BY <1>2, <1>3, <1>4

\* The requests with a code, once one more is made.
LEMMA OneMoreUse ==
  ASSUME requests \in Seq(Request), NEW r \in Request, requests' = Append(requests, r),
         NEW k \in Codes
  PROVE  Cardinality({i \in RequestIds' : requests'[i].code = k})
           = Cardinality({i \in RequestIds : requests[i].code = k}) + (IF r.code = k THEN 1 ELSE 0)
<1> DEFINE old == {i \in RequestIds : requests[i].code = k}
           new == {i \in RequestIds' : requests'[i].code = k}
           n == Len(requests) + 1
<1>1. /\ RequestIds = 1 .. Len(requests) /\ RequestIds' = RequestIds \union {n}
      /\ n \in Nat /\ n \notin RequestIds /\ requests'[n] = r
      /\ \A i \in RequestIds : requests'[i] = requests[i]
  BY DEF RequestIds
<1>2. IsFiniteSet(old) /\ n \notin old
  <2>1. IsFiniteSet(1 .. Len(requests))
    BY FS_Interval
  <2>2. old \in SUBSET (1 .. Len(requests))
    BY <1>1
  <2> QED
    BY <1>1, <2>1, <2>2, FS_Subset
<1>3. new = IF r.code = k THEN old \union {n} ELSE old
  BY <1>1
<1>4. Cardinality(old) \in Nat
  BY <1>2, FS_CardinalityType
<1> HIDE DEF old, new, n
<1>5. Cardinality(new) = Cardinality(old) + (IF r.code = k THEN 1 ELSE 0)
  <2>1. CASE r.code = k
    BY <1>2, <1>3, <2>1, FS_AddElement
  <2>2. CASE r.code # k
    BY <1>3, <1>4, <2>2
  <2> QED
    BY <2>1, <2>2
<1> QED
  BY <1>5 DEF old, new

\* A use of a code makes one request, and no second one waits for the device.
LEMMA UseIInv ==
  ASSUME IInv, NEW w \in Workers, UseCode(w)
  PROVE  IInv'
<1> DEFINE k == txn[w].code
           d == txn[w].device
           r == [company |-> CompanyOf[k], device |-> d, code |-> k, status |-> "PENDING"]
<1>1. /\ ~PendingRequest(CompanyOf[k], d)
      /\ codes' = [codes EXCEPT ![k].used = txn[w].used + 1]
      /\ requests' = Append(requests, r)
      /\ End(w)
      /\ UNCHANGED <<deployed, links>>
  BY DEF UseCode, UseRegistered
<1>2. /\ k \in Codes /\ d \in Devices
      /\ holder[k] = w /\ txn[w].used = codes[k].used /\ codes[k].used < MaxUses[k]
  BY Shapes DEF IInv, LockInv, UseCode, SpendsCode
<1>3. r \in Request /\ requests \in Seq(Request)
  BY <1>2, CodesAssumption DEF Request, IInv, TypeOK
<1>4. /\ requests' \in Seq(Request)
      /\ RequestIds' = RequestIds \union {Len(requests) + 1}
      /\ Len(requests) + 1 \notin RequestIds
      /\ requests'[Len(requests) + 1] = r
      /\ \A i \in RequestIds : requests'[i] = requests[i]
  BY <1>1, <1>3 DEF RequestIds
<1>5. /\ codes' \in [Codes -> [issued : BOOLEAN, expired : BOOLEAN, used : Nat]]
      /\ codes'[k].used = codes[k].used + 1
      /\ \A l \in Codes : l # k => codes'[l].used = codes[l].used
  <2>1. codes \in [Codes -> [issued : BOOLEAN, expired : BOOLEAN, used : Nat]]
    BY DEF IInv, TypeOK
  <2> DEFINE row == [codes[k] EXCEPT !.used = codes[k].used + 1]
  <2>2. row \in [issued : BOOLEAN, expired : BOOLEAN, used : Nat]
        /\ row.used = codes[k].used + 1
    BY <1>2, <2>1
  <2>3. codes' = [codes EXCEPT ![k] = row]
    BY <1>1, <1>2
  <2> HIDE DEF row
  <2> QED
    BY <1>2, <2>1, <2>2, <2>3
<1> HIDE DEF r
<1>6. /\ txn' \in [Workers -> Transaction']
      /\ holder' \in [Codes -> Workers \union {None}]
      /\ LockInv'
  <2>1. Transaction \subseteq Transaction'
    BY <1>1, <1>4, TransactionsStay DEF LinkIds
  <2> HIDE DEF k, d
  <2> QED
    BY <1>1, <1>2, <1>5, <2>1, EndKeepsLocks DEF IInv
<1>7. TypeOK'
  BY <1>1, <1>4, <1>5, <1>6 DEF IInv, TypeOK
<1>8. UsesAreCounted'
  <2>1. ASSUME NEW l \in Codes
        PROVE  /\ codes'[l].used <= MaxUses[l]
               /\ codes'[l].used = Cardinality({i \in RequestIds' : requests'[i].code = l})
    <3>1. r.code = k
      BY DEF r
    <3>2. codes[l].used \in Nat /\ MaxUses[l] \in Nat
      BY CodesAssumption DEF IInv, TypeOK
    <3>3. codes'[l].used = codes[l].used + (IF r.code = l THEN 1 ELSE 0)
      BY <1>5, <3>1, <3>2
    <3>4. codes[l].used = Cardinality({i \in RequestIds : requests[i].code = l})
      BY DEF IInv, UsesAreCounted
    <3>5. codes'[l].used = Cardinality({i \in RequestIds' : requests'[i].code = l})
      BY <1>1, <1>3, <3>3, <3>4, OneMoreUse
    <3>6. codes'[l].used <= MaxUses[l]
      <4>1. CASE l = k
        BY <1>2, <1>5, <3>2, <4>1
      <4>2. CASE l # k
        BY <1>5, <4>2 DEF IInv, UsesAreCounted
      <4> QED
        BY <4>1, <4>2
    <3> QED
      BY <3>5, <3>6
  <2> QED
    BY <2>1 DEF UsesAreCounted
<1>9. OnePendingRequest'
  <2>1. r.company = CompanyOf[k] /\ r.device = d
    BY DEF r
  <2> HIDE DEF k, d
  <2>2. \A i \in RequestIds : requests[i].status = "PENDING"
          => requests[i].company # r.company \/ requests[i].device # r.device
    BY <1>1, <2>1 DEF PendingRequest
  <2>3. ASSUME NEW i \in RequestIds', NEW j \in RequestIds',
               requests'[i].status = "PENDING", requests'[j].status = "PENDING",
               requests'[i].company = requests'[j].company,
               requests'[i].device = requests'[j].device
        PROVE  i = j
    <3>1. CASE i \in RequestIds /\ j \in RequestIds
      BY <1>4, <2>3, <3>1 DEF IInv, OnePendingRequest
    <3>2. CASE i \notin RequestIds \/ j \notin RequestIds
      BY <1>4, <2>2, <2>3, <3>2
    <3> QED
      BY <3>1, <3>2
  <2> QED
    BY <2>3 DEF OnePendingRequest
<1>10. OneActiveLink'
  BY <1>1 DEF IInv, OneActiveLink, LinkIds
<1> QED
  BY <1>6, <1>7, <1>8, <1>9, <1>10 DEF IInv

\* A review changes the status of its request and nothing else of the table.
LEMMA ReviewedDef ==
  ASSUME requests \in Seq(Request), NEW i \in RequestIds, NEW decision \in {"ACCEPTED", "DENIED"},
         requests' = Reviewed(i, decision)
  PROVE  /\ requests' \in Seq(Request)
         /\ RequestIds' = RequestIds
         /\ requests'[i].status = decision
         /\ \A j \in RequestIds :
              /\ requests'[j].company = requests[j].company
              /\ requests'[j].device = requests[j].device
              /\ requests'[j].code = requests[j].code
              /\ j # i => requests'[j].status = requests[j].status
<1> DEFINE row == [requests[i] EXCEPT !.status = decision]
<1>1. requests[i] \in Request
  BY DEF RequestIds
<1>2. /\ row \in Request /\ row.status = decision
      /\ row.company = requests[i].company /\ row.device = requests[i].device
      /\ row.code = requests[i].code
  BY <1>1 DEF Request
<1>3. requests' = [requests EXCEPT ![i] = row]
  BY DEF Reviewed
<1> HIDE DEF row
<1>4. requests' \in Seq(Request) /\ Len(requests') = Len(requests)
  BY <1>2, <1>3 DEF RequestIds
<1>5. \A j \in RequestIds : requests'[j] = IF j = i THEN row ELSE requests[j]
  BY <1>3 DEF RequestIds
<1> QED
  BY <1>2, <1>4, <1>5 DEF RequestIds

\* The save of a decision keeps what does not concern the links.
LEMMA DecisionKeeps ==
  ASSUME IInv, NEW w \in Workers, txn[w].step \in {"save", "create"},
         requests' = Reviewed(txn[w].request, txn[w].decision), End(w),
         UNCHANGED <<deployed, codes>>, LinkIds \subseteq LinkIds', links' \in Seq(Link)
  PROVE  TypeOK' /\ LockInv' /\ UsesAreCounted' /\ OnePendingRequest'
<1>1. txn[w].request \in RequestIds /\ txn[w].decision \in {"ACCEPTED", "DENIED"}
  BY Shapes DEF IInv
<1> DEFINE i == txn[w].request
           decision == txn[w].decision
<1>2. /\ requests' \in Seq(Request)
      /\ RequestIds' = RequestIds
      /\ requests'[i].status = decision
      /\ \A j \in RequestIds :
           /\ requests'[j].company = requests[j].company
           /\ requests'[j].device = requests[j].device
           /\ requests'[j].code = requests[j].code
           /\ j # i => requests'[j].status = requests[j].status
  BY <1>1, ReviewedDef DEF IInv, TypeOK
<1> HIDE DEF i, decision
<1>3. /\ txn' \in [Workers -> Transaction']
      /\ holder' \in [Codes -> Workers \union {None}]
      /\ LockInv'
  <2>1. Transaction \subseteq Transaction'
    BY <1>2, TransactionsStay
  <2> QED
    BY <2>1, EndKeepsLocks DEF IInv
<1>4. TypeOK'
  BY <1>2, <1>3 DEF IInv, TypeOK
<1>5. UsesAreCounted'
  BY <1>2, SameUses DEF IInv
<1>6. OnePendingRequest'
  <2>1. \A j \in RequestIds : requests'[j].status = "PENDING" => requests[j].status = "PENDING"
    BY <1>1, <1>2 DEF i, decision
  <2> QED
    BY <1>2, <2>1 DEF IInv, OnePendingRequest
<1> QED
  BY <1>3, <1>4, <1>5, <1>6

\* The commit of a review, with or without a new link.
LEMMA ReviewIInv ==
  ASSUME IInv, NEW w \in Workers, SaveReview(w) \/ SaveReviewAndLink(w)
  PROVE  IInv'
<1>1. CASE SaveReview(w)
  <2>1. links' = links /\ links \in Seq(Link)
    BY <1>1 DEF SaveReview, IInv, TypeOK
  <2>2. TypeOK' /\ LockInv' /\ UsesAreCounted' /\ OnePendingRequest'
    BY <1>1, <2>1, DecisionKeeps DEF SaveReview, LinkIds
  <2>3. OneActiveLink'
    BY <2>1 DEF IInv, OneActiveLink, LinkIds
  <2> QED
    BY <2>2, <2>3 DEF IInv
<1>2. CASE SaveReviewAndLink(w) /\ ~Rejects(w)
  <2> DEFINE i == txn[w].request
             new == [company |-> requests[i].company, device |-> requests[i].device,
                     request |-> i, active |-> TRUE]
  <2>1. /\ ~ActiveLink(requests[i].company, requests[i].device)
        /\ links' = Append(links, new)
        /\ requests' = Reviewed(i, txn[w].decision)
        /\ End(w) /\ txn[w].step = "create"
        /\ UNCHANGED <<deployed, codes>>
    BY <1>2 DEF SaveReviewAndLink, LinkConflict
  <2>2. new \in Link /\ links \in Seq(Link)
    <3>1. i \in RequestIds /\ requests \in Seq(Request)
      BY <2>1, Shapes DEF IInv, TypeOK
    <3>2. requests[i] \in Request /\ i \in Nat
      BY <3>1 DEF RequestIds
    <3> HIDE DEF i
    <3> QED
      BY <3>2 DEF Request, Link, IInv, TypeOK
  <2>3. new.company = requests[i].company /\ new.device = requests[i].device
    OBVIOUS
  <2> HIDE DEF new
  <2>4. /\ links' \in Seq(Link)
        /\ LinkIds' = LinkIds \union {Len(links) + 1}
        /\ links'[Len(links) + 1] = new
        /\ \A j \in LinkIds : links'[j] = links[j]
    BY <2>1, <2>2 DEF LinkIds
  <2>5. TypeOK' /\ LockInv' /\ UsesAreCounted' /\ OnePendingRequest'
    BY <2>1, <2>4, DecisionKeeps
  <2>6. OneActiveLink'
    <3>1. \A j \in LinkIds : links[j].active
            => links[j].company # new.company \/ links[j].device # new.device
      BY <2>1, <2>3 DEF ActiveLink
    <3>2. ASSUME NEW j \in LinkIds', NEW l \in LinkIds',
                 links'[j].active, links'[l].active,
                 links'[j].company = links'[l].company, links'[j].device = links'[l].device
          PROVE  j = l
      <4>1. CASE j \in LinkIds /\ l \in LinkIds
        BY <2>4, <3>2, <4>1 DEF IInv, OneActiveLink
      <4>2. CASE j \notin LinkIds \/ l \notin LinkIds
        BY <2>4, <3>1, <3>2, <4>2
      <4> QED
        BY <4>1, <4>2
    <3> QED
      BY <3>2 DEF OneActiveLink
  <2> QED
    BY <2>5, <2>6 DEF IInv
<1>3. CASE Rejects(w)
  BY <1>3, RejectsIInv
<1> QED
  BY <1>1, <1>2, <1>3

\* The commit of a revocation makes at most one active link fewer.
LEMMA RevocationIInv ==
  ASSUME IInv, NEW w \in Workers, SaveRevocation(w)
  PROVE  IInv'
<1> DEFINE i == txn[w].link
           row == [links[i] EXCEPT !.active = FALSE]
<1>1. /\ links' = [links EXCEPT ![i] = row] /\ End(w)
      /\ UNCHANGED <<deployed, codes, requests>>
  BY DEF SaveRevocation
<1>2. i \in LinkIds /\ links \in Seq(Link)
  BY Shapes DEF SaveRevocation, IInv, TypeOK
<1>3. links[i] \in Link
  BY <1>2 DEF LinkIds
<1> HIDE DEF i
<1>4. /\ row \in Link /\ ~row.active
      /\ row.company = links[i].company /\ row.device = links[i].device
  BY <1>3 DEF Link
<1> HIDE DEF row
<1>5. links' \in Seq(Link) /\ Len(links') = Len(links)
  BY <1>1, <1>2, <1>4 DEF LinkIds
<1>6. /\ LinkIds' = LinkIds
      /\ \A j \in LinkIds : links'[j] = IF j = i THEN row ELSE links[j]
  BY <1>1, <1>2, <1>5 DEF LinkIds
<1>7. /\ txn' \in [Workers -> Transaction']
      /\ holder' \in [Codes -> Workers \union {None}]
      /\ LockInv'
  <2>1. Transaction \subseteq Transaction'
    BY <1>1, <1>6, TransactionsStay DEF RequestIds
  <2> QED
    BY <1>1, <2>1, EndKeepsLocks DEF IInv
<1>8. TypeOK'
  BY <1>1, <1>5, <1>7 DEF IInv, TypeOK
<1>9. UsesAreCounted'
  BY <1>1, SameUses DEF IInv, RequestIds
<1>10. OnePendingRequest'
  BY <1>1 DEF IInv, OnePendingRequest, RequestIds
<1>11. OneActiveLink'
  <2>1. \A j \in LinkIds : links'[j].active =>
          /\ links[j].active
          /\ links'[j].company = links[j].company /\ links'[j].device = links[j].device
    BY <1>4, <1>6
  <2> QED
    BY <1>6, <2>1 DEF IInv, OneActiveLink
<1> QED
  BY <1>7, <1>8, <1>9, <1>10, <1>11 DEF IInv

-----------------------------------------------------------------------------
(* Why the index on the pending requests is never violated.                  *)

\* A step after which no more codes are spent and no more requests wait.
LEMMA NothingNewApart ==
  ASSUME DevicesApart, RequestsDoNotCollide,
         \A v \in Workers : SpendsCode(txn'[v]) =>
           /\ SpendsCode(txn[v])
           /\ txn'[v].device = txn[v].device /\ txn'[v].code = txn[v].code
           /\ txn'[v].step = "use" => txn[v].step = "use",
         \A i \in RequestIds' : requests'[i].status = "PENDING" =>
           /\ i \in RequestIds /\ requests[i].status = "PENDING"
           /\ requests'[i].company = requests[i].company
           /\ requests'[i].device = requests[i].device
  PROVE  DevicesApart' /\ RequestsDoNotCollide'
<1>1. DevicesApart'
  BY DEF DevicesApart
<1>2. ASSUME NEW v \in Workers, txn'[v].step = "use"
      PROVE  (~PendingRequest(CompanyOf[txn[v].code], txn[v].device))'
  <2>1. SpendsCode(txn'[v])
    BY <1>2 DEF SpendsCode
  <2>2. ~PendingRequest(CompanyOf[txn[v].code], txn[v].device)
    BY <1>2, <2>1 DEF RequestsDoNotCollide
  <2> QED
    BY <2>1, <2>2 DEF PendingRequest
<1> QED
  BY <1>1, <1>2 DEF RequestsDoNotCollide

\* The calls that end, and the reviews and revocations, are such steps.
LEMMA OtherStepsApart ==
  ASSUME IInv, DevicesApart, RequestsDoNotCollide, NEW w \in Workers,
         \/ Rejects(w)
         \/ \E i \in RequestIds, decision \in {"ACCEPTED", "DENIED"} :
              ReviewEnrollmentRequest(w, i, decision)
         \/ \E i \in LinkIds : RevokeDeviceCompanyLink(w, i)
         \/ EnsureLink(w) \/ SaveReview(w) \/ SaveReviewAndLink(w) \/ SaveRevocation(w)
  PROVE  DevicesApart' /\ RequestsDoNotCollide'
<1>1. \/ End(w)
      \/ \E t : ~SpendsCode(t) /\ txn' = [txn EXCEPT ![w] = t]
  <2>1. ASSUME EnsureLink(w)
        PROVE  \E t : ~SpendsCode(t) /\ txn' = [txn EXCEPT ![w] = t]
    <3>1. PICK step \in {"save", "create"} : Continue(w, step)
      BY <2>1 DEF EnsureLink
    <3>2. txn[w] \in [step : {"ensure", "create"}, request : RequestIds, decision : {"ACCEPTED"}]
      BY <2>1, Shapes DEF EnsureLink, IInv
    <3> DEFINE t == [txn[w] EXCEPT !.step = step]
    <3>3. ~SpendsCode(t) /\ txn' = [txn EXCEPT ![w] = t]
      BY <3>1, <3>2 DEF Continue, SpendsCode
    <3> QED
      BY <3>3
  <2>2. ASSUME NEW i \in RequestIds, NEW decision \in {"ACCEPTED", "DENIED"},
               ReviewEnrollmentRequest(w, i, decision)
        PROVE  \E t : ~SpendsCode(t) /\ txn' = [txn EXCEPT ![w] = t]
    <3> DEFINE t == [step |-> AfterReview(decision), request |-> i, decision |-> decision]
    <3>1. ~SpendsCode(t) /\ txn' = [txn EXCEPT ![w] = t]
      BY <2>2 DEF ReviewEnrollmentRequest, Begin, AfterReview, SpendsCode
    <3> QED
      BY <3>1
  <2>3. ASSUME NEW i \in LinkIds, RevokeDeviceCompanyLink(w, i)
        PROVE  \E t : ~SpendsCode(t) /\ txn' = [txn EXCEPT ![w] = t]
    <3> DEFINE t == [step |-> "revoke", link |-> i]
    <3>1. ~SpendsCode(t) /\ txn' = [txn EXCEPT ![w] = t]
      BY <2>3 DEF RevokeDeviceCompanyLink, Begin, SpendsCode
    <3> QED
      BY <3>1
  <2> QED
    BY <2>1, <2>2, <2>3 DEF Rejects, SaveReview, SaveReviewAndLink, SaveRevocation
<1>2. \A v \in Workers : SpendsCode(txn'[v]) => txn'[v] = txn[v]
  <2>1. CASE End(w)
    BY <2>1 DEF End, SpendsCode, Idle, IInv, TypeOK
  <2>2. CASE \E t : ~SpendsCode(t) /\ txn' = [txn EXCEPT ![w] = t]
    BY <2>2 DEF IInv, TypeOK
  <2> QED
    BY <1>1, <2>1, <2>2
<1>3. \A i \in RequestIds' : requests'[i].status = "PENDING" =>
        /\ i \in RequestIds /\ requests[i].status = "PENDING"
        /\ requests'[i].company = requests[i].company
        /\ requests'[i].device = requests[i].device
  <2>1. CASE requests' = requests
    BY <2>1 DEF RequestIds
  <2>2. CASE txn[w].step \in {"save", "create"} /\ requests' = Reviewed(txn[w].request, txn[w].decision)
    <3>1. txn[w].request \in RequestIds /\ txn[w].decision \in {"ACCEPTED", "DENIED"}
      BY <2>2, Shapes DEF IInv
    <3> DEFINE j == txn[w].request
               decision == txn[w].decision
    <3>2. requests \in Seq(Request) /\ requests' = Reviewed(j, decision)
      BY <2>2 DEF IInv, TypeOK
    <3> HIDE DEF j, decision
    <3>3. /\ RequestIds' = RequestIds
          /\ requests'[j].status = decision
          /\ \A i \in RequestIds :
               /\ requests'[i].company = requests[i].company
               /\ requests'[i].device = requests[i].device
               /\ i # j => requests'[i].status = requests[i].status
      BY <3>1, <3>2, ReviewedDef DEF j, decision
    <3> QED
      BY <3>1, <3>3 DEF j, decision
  <2>3. \/ requests' = requests
        \/ txn[w].step \in {"save", "create"} /\ requests' = Reviewed(txn[w].request, txn[w].decision)
    BY DEF Rejects, ReviewEnrollmentRequest, RevokeDeviceCompanyLink, Begin, EnsureLink, SaveReview,
       SaveReviewAndLink, SaveRevocation, tables
  <2> QED
    BY <2>1, <2>2, <2>3
<1> QED
  BY <1>2, <1>3, NothingNewApart

\* A call starts to spend a code when no other call of its device does.
LEMMA RequestApart ==
  ASSUME IInv, DevicesApart, RequestsDoNotCollide, NEW w \in Workers,
         NEW d \in Devices, NEW k \in Codes, RequestDeviceEnrollment(w, d, k)
  PROVE  DevicesApart' /\ RequestsDoNotCollide'
<1> DEFINE t == [step |-> "link", device |-> d, code |-> k, used |-> codes[k].used]
<1>1. /\ txn' = [txn EXCEPT ![w] = t] /\ requests' = requests
      /\ \A v \in Workers : SpendsCode(txn[v]) => txn[v].device # d
  BY DEF RequestDeviceEnrollment, Begin, DeviceIsFree, SpendsCode, tables
<1>2. \A v \in Workers : txn'[v] = IF v = w THEN t ELSE txn[v]
  BY <1>1 DEF IInv, TypeOK
<1>3. t.device = d /\ t.step = "link"
  OBVIOUS
<1> HIDE DEF t
<1>4. DevicesApart'
  BY <1>1, <1>2, <1>3 DEF DevicesApart
<1>5. RequestsDoNotCollide'
  BY <1>1, <1>2, <1>3 DEF RequestsDoNotCollide, PendingRequest, RequestIds
<1> QED
  BY <1>4, <1>5

\* The look-ups of the call, the second of which sees no pending request.
LEMMA LookUpApart ==
  ASSUME IInv, DevicesApart, RequestsDoNotCollide, NEW w \in Workers,
         FindActiveLink(w) \/ FindPendingRequest(w)
  PROVE  DevicesApart' /\ RequestsDoNotCollide'
<1>1. CASE Rejects(w)
  BY <1>1, OtherStepsApart
<1>2. CASE ~Rejects(w)
  <2>1. PICK step \in {"pending", "use"} :
          /\ Continue(w, step) /\ requests' = requests /\ SpendsCode(txn[w])
          /\ step = "use" => ~PendingRequest(CompanyOf[txn[w].code], txn[w].device)
    BY <1>2 DEF FindActiveLink, FindPendingRequest, SpendsCode, tables
  <2> DEFINE t == [txn[w] EXCEPT !.step = step]
  <2>2. txn[w] \in [step : {"link", "pending", "use"}, device : Devices, code : Codes, used : Nat]
    BY <2>1, Shapes DEF IInv
  <2>3. t.step = step /\ t.device = txn[w].device /\ t.code = txn[w].code
    BY <2>2
  <2>4. \A v \in Workers : txn'[v] = IF v = w THEN t ELSE txn[v]
    BY <2>1 DEF Continue, IInv, TypeOK
  <2> HIDE DEF t
  <2>5. DevicesApart'
    <3>1. \A v \in Workers : SpendsCode(txn'[v]) => SpendsCode(txn[v]) /\ txn'[v].device = txn[v].device
      BY <2>1, <2>3, <2>4
    <3> QED
      BY <3>1 DEF DevicesApart
  <2>6. RequestsDoNotCollide'
    BY <2>1, <2>3, <2>4 DEF RequestsDoNotCollide, PendingRequest, RequestIds
  <2> QED
    BY <2>5, <2>6
<1> QED
  BY <1>1, <1>2

\* The insert concerns the device of this call, and the others are of other devices.
LEMMA UseApart ==
  ASSUME IInv, DevicesApart, RequestsDoNotCollide, NEW w \in Workers, UseCode(w)
  PROVE  DevicesApart' /\ RequestsDoNotCollide'
<1>1. \A v \in Workers : txn'[v] = IF v = w THEN Idle ELSE txn[v]
  BY DEF UseCode, End, IInv, TypeOK
<1>2. ~SpendsCode(Idle)
  BY DEF Idle, SpendsCode
<1>3. DevicesApart'
  BY <1>1, <1>2 DEF DevicesApart
<1>4. \A i \in RequestIds' :
        \/ i \in RequestIds /\ requests'[i] = requests[i]
        \/ requests'[i].device = txn[w].device
  <2> DEFINE r == [company |-> CompanyOf[txn[w].code], device |-> txn[w].device,
                   code |-> txn[w].code, status |-> "PENDING"]
  <2>1. r \in Request /\ requests \in Seq(Request)
    <3>1. txn[w].code \in Codes /\ txn[w].device \in Devices
      BY Shapes DEF IInv, UseCode, SpendsCode
    <3> QED
      BY <3>1, CodesAssumption DEF Request, IInv, TypeOK
  <2>2. requests' = Append(requests, r) /\ r.device = txn[w].device
    BY DEF UseCode
  <2> HIDE DEF r
  <2> QED
    BY <2>1, <2>2 DEF RequestIds
<1>5. ASSUME NEW v \in Workers, txn'[v].step = "use"
      PROVE  (~PendingRequest(CompanyOf[txn[v].code], txn[v].device))'
  <2>1. v # w /\ txn'[v] = txn[v]
    BY <1>1, <1>5 DEF Idle
  <2>2. txn[v].device # txn[w].device
    BY <1>5, <2>1 DEF DevicesApart, SpendsCode, UseCode
  <2>3. ~PendingRequest(CompanyOf[txn[v].code], txn[v].device)
    BY <1>5, <2>1 DEF RequestsDoNotCollide
  <2> QED
    BY <1>4, <2>1, <2>2, <2>3 DEF PendingRequest
<1> QED
  BY <1>3, <1>5 DEF RequestsDoNotCollide

-----------------------------------------------------------------------------
(* One worker.                                                               *)

\* What a transaction has read, if no other one runs meanwhile.  No review that
\* accepts is saved without a link: a request that waits is of a device without
\* one, so EnsureLink always creates it.
AloneIsTrue(t) ==
  /\ t.step \in {"pending", "use"} => ~ActiveLink(CompanyOf[t.code], t.device)
  /\ t.step \in {"save", "ensure", "create"} => requests[t.request].status = "PENDING"
  /\ t.step = "create" => ~ActiveLink(requests[t.request].company, requests[t.request].device)
  /\ t.step = "save" => t.decision = "DENIED"

SerialInv ==
  /\ \A w \in Workers : txn[w] # Idle => w \in deployed
  /\ \A l \in LinkIds : links[l].request \in RequestIds
  /\ SingleWorker => \A w \in Workers : AloneIsTrue(txn[w])
  /\ LinkedIffAccepted /\ LinkedIsNotWaiting

\* The links and requests stay, and a transaction begins, goes on or ends.
LEMMA QuerySerial ==
  ASSUME IInv, SerialInv, NEW w \in Workers, NEW t, txn' = [txn EXCEPT ![w] = t],
         t # Idle => w \in deployed, SingleWorker => AloneIsTrue(t),
         UNCHANGED <<deployed, requests, links>>
  PROVE  SerialInv'
<1>1. \A v \in Workers : txn'[v] = IF v = w THEN t ELSE txn[v]
  BY DEF IInv, TypeOK
<1>2. \A u : AloneIsTrue(u)' = AloneIsTrue(u)
  BY DEF AloneIsTrue, ActiveLink, LinkIds
<1>3. SingleWorker' = SingleWorker /\ LinkIds' = LinkIds /\ RequestIds' = RequestIds
  BY DEF SingleWorker, LinkIds, RequestIds
<1>4. SingleWorker' => \A v \in Workers : AloneIsTrue(txn[v])'
  BY <1>1, <1>2, <1>3 DEF SerialInv
<1>5. LinkedIffAccepted' /\ LinkedIsNotWaiting'
  BY <1>3 DEF SerialInv, LinkedIffAccepted, LinkedIsNotWaiting, ActiveLink
<1> QED
  BY <1>1, <1>3, <1>4, <1>5 DEF SerialInv

LEMMA RejectsSerial ==
  ASSUME IInv, SerialInv, NEW w \in Workers, Rejects(w)
  PROVE  SerialInv'
<1>1. AloneIsTrue(Idle)
  BY DEF AloneIsTrue, Idle
<1>2. txn' = [txn EXCEPT ![w] = Idle] /\ UNCHANGED <<deployed, requests, links>>
  BY DEF Rejects, End, tables
<1> QED
  BY <1>1, <1>2, QuerySerial

\* A request is only taken up while it waits.
LEMMA ArriveSerial ==
  ASSUME IInv, SerialInv, NEW w \in Workers, Arrive(w)
  PROVE  SerialInv'
<1>1. ASSUME NEW t, Begin(w, t), AloneIsTrue(t)
      PROVE  SerialInv'
  BY <1>1, QuerySerial DEF Begin, tables
<1>2. ASSUME NEW d \in Devices, NEW k \in Codes, RequestDeviceEnrollment(w, d, k)
      PROVE  SerialInv'
  <2> DEFINE t == [step |-> "link", device |-> d, code |-> k, used |-> codes[k].used]
  <2>1. AloneIsTrue(t)
    BY DEF AloneIsTrue
  <2> QED
    BY <1>1, <1>2, <2>1 DEF RequestDeviceEnrollment
<1>3. ASSUME NEW i \in RequestIds, NEW decision \in {"ACCEPTED", "DENIED"},
             ReviewEnrollmentRequest(w, i, decision)
      PROVE  SerialInv'
  <2> DEFINE t == [step |-> AfterReview(decision), request |-> i, decision |-> decision]
  <2>1. Begin(w, t) /\ requests[i].status = "PENDING"
    BY <1>3 DEF ReviewEnrollmentRequest, MayBeReviewed
  <2>2. AloneIsTrue(t)
    BY <2>1 DEF AloneIsTrue, AfterReview
  <2> QED
    BY <1>1, <2>1, <2>2
<1>4. ASSUME NEW i \in LinkIds, RevokeDeviceCompanyLink(w, i)
      PROVE  SerialInv'
  <2> DEFINE t == [step |-> "revoke", link |-> i]
  <2>1. AloneIsTrue(t)
    BY DEF AloneIsTrue
  <2> QED
    BY <1>1, <1>4, <2>1 DEF RevokeDeviceCompanyLink
<1> QED
  BY <1>2, <1>3, <1>4 DEF Arrive

\* The look-ups: what they find stays true while no other transaction runs.
LEMMA LookUpSerial ==
  ASSUME IInv, SerialInv, NEW w \in Workers,
         FindActiveLink(w) \/ FindPendingRequest(w) \/ EnsureLink(w)
  PROVE  SerialInv'
<1>1. CASE Rejects(w)
  BY <1>1, RejectsSerial
<1>2. ASSUME NEW step \in {"pending", "use", "save", "create"}, Continue(w, step),
             UNCHANGED <<deployed, requests, links>>, txn[w] # Idle,
             SingleWorker => AloneIsTrue([txn[w] EXCEPT !.step = step])
      PROVE  SerialInv'
  <2> DEFINE t == [txn[w] EXCEPT !.step = step]
  <2>1. txn' = [txn EXCEPT ![w] = t]
    BY <1>2 DEF Continue
  <2>2. w \in deployed
    BY <1>2 DEF SerialInv
  <2> HIDE DEF t
  <2>3. SingleWorker => AloneIsTrue(t)
    BY <1>2 DEF t
  <2> QED
    BY <1>2, <2>1, <2>2, <2>3, QuerySerial
<1>3. CASE (FindActiveLink(w) \/ FindPendingRequest(w)) /\ ~Rejects(w)
  <2>1. txn[w] \in [step : {"link", "pending", "use"}, device : Devices, code : Codes, used : Nat]
    BY <1>3, Shapes DEF IInv, FindActiveLink, FindPendingRequest, SpendsCode
  <2>2. /\ Continue(w, IF txn[w].step = "link" THEN "pending" ELSE "use")
        /\ UNCHANGED <<deployed, requests, links>> /\ txn[w] # Idle
        /\ txn[w].step = "link" => ~ActiveLink(CompanyOf[txn[w].code], txn[w].device)
        /\ txn[w].step \in {"link", "pending"}
    BY <1>3 DEF FindActiveLink, FindPendingRequest, Idle, tables
  <2>3. SingleWorker => ~ActiveLink(CompanyOf[txn[w].code], txn[w].device)
    BY <2>2 DEF SerialInv, AloneIsTrue
  <2>4. \A step \in {"pending", "use"} : SingleWorker => AloneIsTrue([txn[w] EXCEPT !.step = step])
    BY <2>1, <2>3 DEF AloneIsTrue
  <2> QED
    BY <1>2, <2>2, <2>4
<1>4. CASE EnsureLink(w)
  <2> DEFINE i == txn[w].request
  <2>1. txn[w] \in [step : {"ensure", "create"}, request : RequestIds, decision : {"ACCEPTED"}]
    BY <1>4, Shapes DEF IInv, EnsureLink
  <2>2. /\ Continue(w, IF ActiveLink(requests[i].company, requests[i].device) THEN "save" ELSE "create")
        /\ UNCHANGED <<deployed, requests, links>> /\ txn[w] # Idle /\ txn[w].step = "ensure"
    BY <1>4 DEF EnsureLink, Idle, tables
  <2>3. SingleWorker => /\ requests[i].status = "PENDING"
                        /\ ~ActiveLink(requests[i].company, requests[i].device)
    BY <2>1, <2>2 DEF SerialInv, AloneIsTrue, LinkedIsNotWaiting
  <2>4. SingleWorker => AloneIsTrue([txn[w] EXCEPT !.step = "create"])
    BY <2>1, <2>3 DEF AloneIsTrue
  <2>5. CASE SingleWorker
    BY <1>2, <2>2, <2>3, <2>4, <2>5
  <2>6. CASE ~SingleWorker
    BY <1>2, <2>2, <2>6
  <2> QED
    BY <2>5, <2>6
<1> QED
  BY <1>1, <1>3, <1>4

\* When the only transaction that runs ends, none runs.
LEMMA EndSerial ==
  ASSUME IInv, SerialInv, NEW w \in Workers, txn[w] # Idle, End(w), UNCHANGED deployed
  PROVE  /\ \A v \in Workers : txn'[v] # Idle => v \in deployed'
         /\ SingleWorker' = SingleWorker
         /\ SingleWorker => \A v \in Workers : AloneIsTrue(txn[v])'
<1>1. \A v \in Workers : txn'[v] = IF v = w THEN Idle ELSE txn[v]
  BY DEF End, IInv, TypeOK
<1>2. SingleWorker => \A v \in Workers : txn'[v] = Idle
  BY <1>1 DEF SerialInv, SingleWorker
<1>3. SingleWorker' = SingleWorker
  BY DEF SingleWorker
<1>4. ASSUME NEW v \in Workers, txn'[v] = Idle
      PROVE  AloneIsTrue(txn[v])'
  BY <1>4 DEF AloneIsTrue, Idle
<1> QED
  BY <1>1, <1>2, <1>3, <1>4 DEF SerialInv

\* The request that is inserted is of a device without a link, and no link is of
\* a request that did not exist.
LEMMA UseSerial ==
  ASSUME IInv, SerialInv, NEW w \in Workers, UseCode(w)
  PROVE  SerialInv'
<1> DEFINE k == txn[w].code
           d == txn[w].device
           n == Len(requests) + 1
           new == [company |-> CompanyOf[k], device |-> d, code |-> k, status |-> "PENDING"]
<1>1. /\ txn[w].step = "use" /\ requests' = Append(requests, new) /\ End(w)
      /\ UNCHANGED <<deployed, links>> /\ txn[w] # Idle
  BY DEF UseCode, Idle
<1>2. new.company = CompanyOf[k] /\ new.device = d /\ new.status = "PENDING"
  OBVIOUS
<1>3. new \in Request /\ requests \in Seq(Request)
  BY <1>1, Shapes, CodesAssumption DEF IInv, TypeOK, SpendsCode, Request
<1> HIDE DEF new
<1>4. /\ RequestIds' = RequestIds \union {n} /\ n \notin RequestIds /\ requests'[n] = new
      /\ \A i \in RequestIds : requests'[i] = requests[i]
  BY <1>1, <1>3 DEF RequestIds
<1> HIDE DEF n
<1>5. /\ \A v \in Workers : txn'[v] # Idle => v \in deployed'
      /\ SingleWorker' = SingleWorker
      /\ SingleWorker => \A v \in Workers : AloneIsTrue(txn[v])'
  BY <1>1, EndSerial
<1>6. LinkIds' = LinkIds /\ \A c, e : ActiveLink(c, e)' = ActiveLink(c, e)
  BY <1>1 DEF LinkIds, ActiveLink
<1>7. \A l \in LinkIds' : links'[l].request \in RequestIds'
  BY <1>1, <1>4, <1>6 DEF SerialInv
<1>8. LinkedIffAccepted'
  <2>1. ASSUME SingleWorker, NEW i \in RequestIds'
        PROVE  requests'[i].status = "ACCEPTED" <=> \E l \in LinkIds : links[l].request = i
    <3>1. CASE i \in RequestIds
      BY <1>4, <2>1, <3>1 DEF SerialInv, LinkedIffAccepted
    <3>2. CASE i = n
      BY <1>2, <1>4, <3>2 DEF SerialInv
    <3> QED
      BY <1>4, <3>1, <3>2
  <2> QED
    BY <1>1, <1>5, <1>6, <2>1 DEF LinkedIffAccepted
<1>9. LinkedIsNotWaiting'
  <2>1. SingleWorker => ~ActiveLink(CompanyOf[k], d)
    BY <1>1 DEF SerialInv, AloneIsTrue
  <2>2. SingleWorker => \A i \in RequestIds' : requests'[i].status = "PENDING" =>
                          ~ActiveLink(requests'[i].company, requests'[i].device)
    BY <1>2, <1>4, <2>1 DEF SerialInv, LinkedIsNotWaiting
  <2> QED
    BY <1>5, <1>6, <2>2 DEF LinkedIsNotWaiting
<1> QED
  BY <1>5, <1>7, <1>8, <1>9 DEF SerialInv

\* With one worker, a decision saved without a link is a refusal.
LEMMA DenialSerial ==
  ASSUME IInv, SerialInv, NEW w \in Workers, SaveReview(w)
  PROVE  SerialInv'
<1> DEFINE i == txn[w].request
           decision == txn[w].decision
<1>1. /\ txn[w].step = "save" /\ requests' = Reviewed(i, decision) /\ End(w)
      /\ UNCHANGED <<deployed, links>> /\ txn[w] # Idle
  BY DEF SaveReview, Idle
<1>2. i \in RequestIds /\ decision \in {"ACCEPTED", "DENIED"} /\ requests \in Seq(Request)
  BY <1>1, Shapes DEF IInv, TypeOK
<1>3. SingleWorker => decision = "DENIED" /\ requests[i].status = "PENDING"
  BY <1>1 DEF SerialInv, AloneIsTrue
<1> HIDE DEF i, decision
<1>4. /\ RequestIds' = RequestIds /\ requests'[i].status = decision
      /\ \A j \in RequestIds :
           /\ requests'[j].company = requests[j].company
           /\ requests'[j].device = requests[j].device
           /\ j # i => requests'[j].status = requests[j].status
  BY <1>1, <1>2, ReviewedDef
<1>5. /\ \A v \in Workers : txn'[v] # Idle => v \in deployed'
      /\ SingleWorker' = SingleWorker
      /\ SingleWorker => \A v \in Workers : AloneIsTrue(txn[v])'
  BY <1>1, EndSerial
<1>6. LinkIds' = LinkIds /\ \A c, e : ActiveLink(c, e)' = ActiveLink(c, e)
  BY <1>1 DEF LinkIds, ActiveLink
<1>7. \A l \in LinkIds' : links'[l].request \in RequestIds'
  BY <1>1, <1>4, <1>6 DEF SerialInv
<1>8. LinkedIffAccepted'
  <2>1. SingleWorker => \A j \in RequestIds :
          requests'[j].status = "ACCEPTED" <=> \E l \in LinkIds : links[l].request = j
    BY <1>2, <1>3, <1>4 DEF SerialInv, LinkedIffAccepted
  <2> QED
    BY <1>1, <1>4, <1>5, <1>6, <2>1 DEF LinkedIffAccepted
<1>9. LinkedIsNotWaiting'
  <2>1. SingleWorker => \A j \in RequestIds : requests'[j].status = "PENDING" =>
                          ~ActiveLink(requests'[j].company, requests'[j].device)
    BY <1>2, <1>3, <1>4 DEF SerialInv, LinkedIsNotWaiting
  <2> QED
    BY <1>4, <1>5, <1>6, <2>1 DEF LinkedIsNotWaiting
<1> QED
  BY <1>5, <1>7, <1>8, <1>9 DEF SerialInv

\* An acceptance links the device for its request, the only one that waited.
LEMMA AcceptanceSerial ==
  ASSUME IInv, SerialInv, NEW w \in Workers, SaveReviewAndLink(w), ~Rejects(w)
  PROVE  SerialInv'
<1> DEFINE i == txn[w].request
           decision == txn[w].decision
           n == Len(links) + 1
           new == [company |-> requests[i].company, device |-> requests[i].device,
                   request |-> i, active |-> TRUE]
<1>1. /\ txn[w].step = "create" /\ requests' = Reviewed(i, decision) /\ End(w)
      /\ links' = Append(links, new)
      /\ UNCHANGED deployed /\ txn[w] # Idle
  BY DEF SaveReviewAndLink, Idle
<1>2. i \in RequestIds /\ decision = "ACCEPTED" /\ requests \in Seq(Request) /\ links \in Seq(Link)
  BY <1>1, Shapes DEF IInv, TypeOK
<1>3. SingleWorker => requests[i].status = "PENDING"
  BY <1>1 DEF SerialInv, AloneIsTrue
<1>4. new.request = i /\ new.company = requests[i].company /\ new.device = requests[i].device
  OBVIOUS
<1>5. new \in Link
  <2>1. requests[i] \in Request /\ i \in Nat
    BY <1>2 DEF RequestIds
  <2> HIDE DEF i
  <2> QED
    BY <2>1 DEF Request, Link
<1> HIDE DEF i, decision, new
<1>6. /\ RequestIds' = RequestIds /\ requests'[i].status = "ACCEPTED"
      /\ \A j \in RequestIds :
           /\ requests'[j].company = requests[j].company
           /\ requests'[j].device = requests[j].device
           /\ j # i => requests'[j].status = requests[j].status
  BY <1>1, <1>2, ReviewedDef
<1>7. /\ LinkIds' = LinkIds \union {n} /\ links'[n] = new
      /\ \A l \in LinkIds : links'[l] = links[l]
  BY <1>1, <1>2, <1>5 DEF LinkIds
<1> HIDE DEF n
<1>8. /\ \A v \in Workers : txn'[v] # Idle => v \in deployed'
      /\ SingleWorker' = SingleWorker
      /\ SingleWorker => \A v \in Workers : AloneIsTrue(txn[v])'
  BY <1>1, EndSerial
<1>9. \A l \in LinkIds' : links'[l].request \in RequestIds'
  BY <1>2, <1>4, <1>6, <1>7 DEF SerialInv
<1>10. LinkedIffAccepted'
  <2>1. ASSUME SingleWorker, NEW j \in RequestIds
        PROVE  requests'[j].status = "ACCEPTED" <=> \E l \in LinkIds' : links'[l].request = j
    <3>1. CASE j = i
      BY <1>4, <1>6, <1>7, <3>1
    <3>2. CASE j # i
      BY <1>4, <1>6, <1>7, <2>1, <3>2 DEF SerialInv, LinkedIffAccepted
    <3> QED
      BY <3>1, <3>2
  <2> QED
    BY <1>6, <1>8, <2>1 DEF LinkedIffAccepted
<1>11. LinkedIsNotWaiting'
  <2>1. ASSUME SingleWorker, NEW j \in RequestIds, requests'[j].status = "PENDING",
               NEW l \in LinkIds', links'[l].active, links'[l].company = requests'[j].company,
               links'[l].device = requests'[j].device
        PROVE  FALSE
    <3>1. j # i /\ requests[j].status = "PENDING"
      BY <1>6, <2>1
    <3>2. requests'[j].company = requests[j].company /\ requests'[j].device = requests[j].device
      BY <1>6
    <3>3. ~ActiveLink(requests[j].company, requests[j].device)
      BY <2>1, <3>1 DEF SerialInv, LinkedIsNotWaiting
    <3>4. l = n
      BY <1>7, <2>1, <3>2, <3>3 DEF ActiveLink
    <3>5. requests[i].company = requests[j].company /\ requests[i].device = requests[j].device
      BY <1>4, <1>7, <2>1, <3>2, <3>4
    <3> QED
      BY <1>2, <1>3, <2>1, <3>1, <3>5 DEF IInv, OnePendingRequest
  <2> QED
    BY <1>6, <1>8, <2>1 DEF LinkedIsNotWaiting, ActiveLink
<1> QED
  BY <1>8, <1>9, <1>10, <1>11 DEF SerialInv

\* A revocation leaves the request of the link accepted.
LEMMA RevocationSerial ==
  ASSUME IInv, SerialInv, NEW w \in Workers, SaveRevocation(w)
  PROVE  SerialInv'
<1> DEFINE i == txn[w].link
           row == [links[i] EXCEPT !.active = FALSE]
<1>1. /\ links' = [links EXCEPT ![i] = row] /\ End(w) /\ txn[w].step = "revoke"
      /\ UNCHANGED <<deployed, requests>> /\ txn[w] # Idle
  BY DEF SaveRevocation, Idle
<1>2. i \in LinkIds /\ links \in Seq(Link)
  BY <1>1, Shapes DEF IInv, TypeOK
<1>3. links[i] \in Link
  BY <1>2 DEF LinkIds
<1> HIDE DEF i
<1>4. /\ row \in Link /\ ~row.active /\ row.request = links[i].request
      /\ row.company = links[i].company /\ row.device = links[i].device
  BY <1>3 DEF Link
<1> HIDE DEF row
<1>5. /\ LinkIds' = LinkIds
      /\ \A l \in LinkIds : links'[l] = IF l = i THEN row ELSE links[l]
  BY <1>1, <1>2, <1>4 DEF LinkIds
<1>6. /\ \A v \in Workers : txn'[v] # Idle => v \in deployed'
      /\ SingleWorker' = SingleWorker
      /\ SingleWorker => \A v \in Workers : AloneIsTrue(txn[v])'
  BY <1>1, EndSerial
<1>7. /\ RequestIds' = RequestIds
      /\ \A l \in LinkIds : links'[l].request = links[l].request
      /\ \A c, e : ActiveLink(c, e)' => ActiveLink(c, e)
  BY <1>1, <1>4, <1>5 DEF RequestIds, ActiveLink
<1>8. \A l \in LinkIds' : links'[l].request \in RequestIds'
  BY <1>5, <1>7 DEF SerialInv
<1>9. LinkedIffAccepted'
  BY <1>1, <1>5, <1>6, <1>7 DEF SerialInv, LinkedIffAccepted
<1>10. LinkedIsNotWaiting'
  BY <1>1, <1>6, <1>7 DEF SerialInv, LinkedIsNotWaiting
<1> QED
  BY <1>6, <1>8, <1>9, <1>10 DEF SerialInv

LEMMA NextSerial == IInv /\ SerialInv /\ [Next]_vars => SerialInv'
<1> SUFFICES ASSUME IInv, SerialInv, [Next]_vars PROVE SerialInv'
  OBVIOUS
<1>1. CASE UNCHANGED <<deployed, requests, links, txn>>
  <2>1. PICK w \in Workers : TRUE
    BY DEF IInv, TypeOK
  <2>2. txn' = [txn EXCEPT ![w] = txn[w]] /\ UNCHANGED <<deployed, requests, links>>
    BY <1>1, <2>1 DEF IInv, TypeOK
  <2>3. (txn[w] # Idle => w \in deployed) /\ (SingleWorker => AloneIsTrue(txn[w]))
    BY DEF SerialInv
  <2> QED
    BY <2>2, <2>3, QuerySerial
<1>2. ASSUME NEW k \in Codes, CreateEnrollmentCode(k) \/ CodeExpires(k) PROVE SerialInv'
  BY <1>1, <1>2 DEF CreateEnrollmentCode, CodeExpires
<1>3. ASSUME NEW w \in Workers, Arrive(w) PROVE SerialInv'
  BY <1>3, ArriveSerial
<1>4. ASSUME NEW w \in Workers, SaveReviewAndLink(w) PROVE SerialInv'
  BY <1>4, AcceptanceSerial, RejectsSerial
<1>5. ASSUME NEW w \in Workers, Work(w) PROVE SerialInv'
  BY <1>4, <1>5, LookUpSerial, UseSerial, DenialSerial, RevocationSerial DEF Work
<1>6. ASSUME NEW w \in Workers, RollsBack(w) PROVE SerialInv'
  BY <1>6, RejectsSerial DEF RollsBack
<1> QED
  BY <1>1, <1>2, <1>3, <1>5, <1>6 DEF Next, vars

-----------------------------------------------------------------------------
(* The theorems.                                                             *)

\* The invariant of the tables and of the locks holds in every state, with any
\* number of backend workers.
THEOREM EnrollmentInvariance == Spec => []IInv
<1>1. IInv /\ UNCHANGED vars => IInv'
  BY DEF vars, IInv, TypeOK, Transaction, LockInv, UsesAreCounted, OneActiveLink,
     OnePendingRequest, RequestIds, LinkIds
<1>2. IInv /\ [Next]_vars => IInv'
  <2> SUFFICES ASSUME IInv, Next PROVE IInv'
    BY <1>1
  <2>1. ASSUME NEW k \in Codes, CreateEnrollmentCode(k) \/ CodeExpires(k) PROVE IInv'
    BY <2>1, CodeIInv
  <2>2. ASSUME NEW w \in Workers, Arrive(w) PROVE IInv'
    BY <2>2, RequestIInv, OtherArrivalIInv DEF Arrive
  <2>3. ASSUME NEW w \in Workers, Work(w) PROVE IInv'
    BY <2>3, LookUpIInv, UseIInv, ReviewIInv, RevocationIInv DEF Work
  <2>4. ASSUME NEW w \in Workers, RollsBack(w) PROVE IInv'
    BY <2>4, RejectsIInv DEF RollsBack
  <2> QED
    BY <2>1, <2>2, <2>3, <2>4 DEF Next
<1> QED
  BY InitIInv, <1>2, PTL DEF Spec

\* The rows, and what the transactions carry, are of their types.
THEOREM TypeCorrect == Spec => []TypeOK
<1>1. IInv => TypeOK
  BY DEF IInv
<1> QED BY EnrollmentInvariance, <1>1, PTL

\* used_count is the number of requests made with the code and never exceeds
\* max_uses: the lock that find_by_code_digest takes is enough.
THEOREM CodesAreCounted == Spec => []UsesAreCounted
<1>1. IInv => UsesAreCounted
  BY DEF IInv
<1> QED BY EnrollmentInvariance, <1>1, PTL

\* A device never has two active links to a company, whatever reviews overlap.
THEOREM LinksAreUnique == Spec => []OneActiveLink
<1>1. IInv => OneActiveLink
  BY DEF IInv
<1> QED BY EnrollmentInvariance, <1>1, PTL

\* Nor two requests waiting at a company, whatever codes it uses.
THEOREM PendingIsUnique == Spec => []OnePendingRequest
<1>1. IInv => OnePendingRequest
  BY DEF IInv
<1> QED BY EnrollmentInvariance, <1>1, PTL

\* A call that inserts a request never meets the index: FindPendingRequest is
\* enough, because the calls of one device follow one another.
THEOREM IndexIsNeverMet == Spec => []RequestsDoNotCollide
<1> DEFINE Apart == DevicesApart /\ RequestsDoNotCollide
<1>1. Init => Apart
  BY DEF Init, DevicesApart, RequestsDoNotCollide, SpendsCode, Idle
<1>2. IInv /\ Apart /\ [Next]_vars => Apart'
  <2> SUFFICES ASSUME IInv, DevicesApart, RequestsDoNotCollide, [Next]_vars PROVE Apart'
    OBVIOUS
  <2>1. CASE UNCHANGED vars
    BY <2>1 DEF vars, DevicesApart, RequestsDoNotCollide, PendingRequest, RequestIds
  <2>2. ASSUME NEW k \in Codes, CreateEnrollmentCode(k) \/ CodeExpires(k) PROVE Apart'
    <3>1. txn' = txn /\ requests' = requests
      BY <2>2 DEF CreateEnrollmentCode, CodeExpires
    <3> QED
      BY <3>1 DEF DevicesApart, RequestsDoNotCollide, PendingRequest, RequestIds
  <2>3. ASSUME NEW w \in Workers, Arrive(w) PROVE Apart'
    BY <2>3, RequestApart, OtherStepsApart DEF Arrive
  <2>4. ASSUME NEW w \in Workers, Work(w) PROVE Apart'
    BY <2>4, LookUpApart, UseApart, OtherStepsApart DEF Work
  <2>5. ASSUME NEW w \in Workers, RollsBack(w) PROVE Apart'
    BY <2>5, OtherStepsApart DEF RollsBack
  <2> QED
    BY <2>1, <2>2, <2>3, <2>4, <2>5 DEF Next
<1>3. Apart => RequestsDoNotCollide
  OBVIOUS
<1> HIDE DEF Apart
<1> QED
  BY EnrollmentInvariance, <1>1, <1>2, <1>3, PTL DEF Spec

\* With one worker, what a transaction has read is still so when it commits.
LEMMA SerialInvariance == Spec => []SerialInv
<1>1. Init => SerialInv
  BY DEF Init, SerialInv, AloneIsTrue, Idle, LinkedIffAccepted, LinkedIsNotWaiting, LinkIds, RequestIds
<1> QED
  BY EnrollmentInvariance, NextSerial, <1>1, PTL DEF Spec

\* One worker, any devices, companies and codes: a request is accepted exactly if
\* a link was created for it (review_enrollment_request.py), and stays so when the
\* link is revoked.
THEOREM AcceptanceCorrect == Spec => []LinkedIffAccepted
<1>1. SerialInv => LinkedIffAccepted
  BY DEF SerialInv
<1> QED
  BY SerialInvariance, <1>1, PTL

\* One worker: a device that is linked to a company has no request waiting there,
\* so that an acceptance always creates its link
\* (request_device_enrollment.py:53-54).
THEOREM WaitingCorrect == Spec => []LinkedIsNotWaiting
<1>1. SerialInv => LinkedIsNotWaiting
  BY DEF SerialInv
<1> QED
  BY SerialInvariance, <1>1, PTL
=============================================================================
