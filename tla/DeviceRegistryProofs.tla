-------------------------- MODULE DeviceRegistryProofs --------------------------
(***************************************************************************)
(* Theorems about DeviceRegistry, for any workers, devices and versions.     *)
(*                                                                         *)
(* No row is locked when it is read.  What orders the calls of a device is    *)
(* that each of them writes its credential first: until it ends it holds that  *)
(* row (LocksAreHeld), so nobody else is between the reading and the writing   *)
(* of the device, and what a call has read of it is still what is there when    *)
(* it writes (CallsAreTrue).  The credential itself is read before that lock:    *)
(* a call that read it before a provisioning committed may write the old token   *)
(* back, and exactly these devices are overtaken.                              *)
(***************************************************************************)
EXTENDS DeviceRegistry, TLAPS

-----------------------------------------------------------------------------
(* The inductive invariant.                                                  *)

\* The steps of a call that holds the row of its credential.
Holding == {"registered", "done", "find", "refresh", "save"}

Tokens == 1 .. generated

Transaction ==
  {Idle}
  \union [step : {"provision"}, device : Devices, token : Tokens, found : BOOLEAN]
  \union [step : {"reload"}, device : Devices, call : Calls, token : Tokens]
  \union [step : {"use"}, device : Devices, call : Calls, stale : BOOLEAN, token : Tokens]
  \union [step : {"registered", "done", "find"}, device : Devices, call : Calls,
          stale : BOOLEAN, token : Tokens, at : 0 .. now]
  \union [step : {"refresh"}, device : Devices, call : Calls, stale : BOOLEAN, token : Tokens,
          object : DeviceRow]
  \union [step : {"save"}, device : Devices, call : Calls, stale : BOOLEAN, token : Tokens,
          object : DeviceRow, fresh : DeviceRow \union {Unknown}]

TransactionsOK ==
  /\ txn \in [Workers -> Transaction]
  /\ \A w \in Workers : txn[w] # Idle => w \in deployed

\* A call that has written its credential holds it, and nobody else does.
LocksAreHeld ==
  /\ holder \in [Devices -> Workers \union {Nobody}]
  /\ \A w \in Workers : txn[w].step \in Holding => holder[txn[w].device] = w

\* Only a device whose rotation was overtaken has a call with another token than
\* the current one.
TokenIsTrue(t) ==
  /\ t.step = "reload" => t.token = credentials[t.device] \/ t.device \in overtaken
  /\ t.step \in {"use"} \union Holding /\ t.stale => t.device \in overtaken

\* The object that a call is about to save is the committed device, changed.
ObjectIsTrue(t) ==
  LET row == devices[t.device]
      registers == t.call.name = "register"
  IN /\ t.step \in {"find", "refresh", "save"} => t.call.name # "other" /\ (row = Unknown => registers)
     /\ t.step = "find" /\ ~registers => row.seen <= t.at
     /\ t.step \in {"refresh", "save"} =>
          /\ t.object.version = IF registers THEN t.call.version ELSE described[t.device]
          /\ row # Unknown => t.object.since = row.since /\ row.seen <= t.object.seen
     /\ t.step = "save" => t.fresh = row

CallsAreTrue == \A w \in Workers : TokenIsTrue(txn[w]) /\ ObjectIsTrue(txn[w])

\* A call that is registered already does not register.
RegisteredIsNoRegistration ==
  \A w \in Workers : txn[w].step = "registered" => txn[w].call.name # "register"

IInv ==
  /\ TypeOK /\ TransactionsOK /\ LocksAreHeld /\ CallsAreTrue /\ RegisteredIsNoRegistration
  /\ RotationIsKept /\ LastDescriptionCounts

-----------------------------------------------------------------------------
(* The operators of the model.                                               *)

\* A device that is registered is known.
LEMMA RowIsKnown == Unknown \notin DeviceRow
BY DEF DeviceRow, Unknown

\* What a transaction carries, by its step.
LEMMA Shapes ==
  ASSUME TransactionsOK, NEW w \in Workers
  PROVE  /\ txn[w] \in Transaction
         /\ txn[w].step = "provision" =>
              txn[w] \in [step : {"provision"}, device : Devices, token : Tokens, found : BOOLEAN]
         /\ txn[w].step = "reload" =>
              txn[w] \in [step : {"reload"}, device : Devices, call : Calls, token : Tokens]
         /\ txn[w].step = "use" =>
              txn[w] \in [step : {"use"}, device : Devices, call : Calls, stale : BOOLEAN, token : Tokens]
         /\ txn[w].step \in {"registered", "done", "find"} =>
              txn[w] \in [step : {"registered", "done", "find"}, device : Devices, call : Calls,
                          stale : BOOLEAN, token : Tokens, at : 0 .. now]
         /\ txn[w].step = "refresh" =>
              txn[w] \in [step : {"refresh"}, device : Devices, call : Calls, stale : BOOLEAN,
                          token : Tokens, object : DeviceRow]
         /\ txn[w].step = "save" =>
              txn[w] \in [step : {"save"}, device : Devices, call : Calls, stale : BOOLEAN,
                          token : Tokens, object : DeviceRow, fresh : DeviceRow \union {Unknown}]
<1>1. txn[w] \in Transaction
  BY DEF TransactionsOK
<1> QED
  BY <1>1 DEF Transaction, Idle

\* A call that holds its credential is of a device, and has its token.
LEMMA HolderDef ==
  ASSUME TransactionsOK, NEW w \in Workers, txn[w].step \in Holding
  PROVE  txn[w].device \in Devices /\ txn[w].token \in Tokens /\ txn[w] # Idle
  BY Shapes DEF Holding, Idle

\* What a transaction carries is still of its type when the clock goes on and
\* tokens are generated.
LEMMA TypesStay ==
  ASSUME now \in Nat, now' \in Nat, now <= now',
         generated \in Nat, generated' \in Nat, generated <= generated'
  PROVE  /\ DeviceRow \subseteq DeviceRow' /\ Transaction \subseteq Transaction'
         /\ [Devices -> 0 .. generated] \subseteq [Devices -> 0 .. generated']
<1>1. 0 .. now \subseteq 0 .. now' /\ Tokens \subseteq Tokens' /\ 0 .. generated \subseteq 0 .. generated'
  BY DEF Tokens
<1>2. DeviceRow \subseteq DeviceRow'
  BY <1>1 DEF DeviceRow, Row
<1>3. Transaction \subseteq Transaction'
  BY <1>1, <1>2 DEF Transaction
<1> QED
  BY <1>1, <1>2, <1>3

\* A call stays true as long as its device stays as it is; its credential may
\* change, but then it is overtaken.
LEMMA CallStays ==
  ASSUME overtaken \subseteq overtaken'
  PROVE  \A t : /\ TokenIsTrue(t) /\ ObjectIsTrue(t)
                /\ t.step = "reload" =>
                     credentials'[t.device] = credentials[t.device] \/ t.device \in overtaken'
                /\ t.step \in Holding => devices'[t.device] = devices[t.device]
                                         /\ described'[t.device] = described[t.device]
                => TokenIsTrue(t)' /\ ObjectIsTrue(t)'
<1> SUFFICES ASSUME NEW t, TokenIsTrue(t), ObjectIsTrue(t),
                    t.step = "reload" =>
                      credentials'[t.device] = credentials[t.device] \/ t.device \in overtaken',
                    t.step \in Holding => devices'[t.device] = devices[t.device]
                                          /\ described'[t.device] = described[t.device]
             PROVE  TokenIsTrue(t)' /\ ObjectIsTrue(t)'
  OBVIOUS
<1>1. TokenIsTrue(t)'
  BY DEF TokenIsTrue
<1>2. ObjectIsTrue(t)'
  BY DEF ObjectIsTrue, Holding
<1> QED
  BY <1>1, <1>2

-----------------------------------------------------------------------------
(* The steps.                                                                *)

LEMMA InitIInv == Init => IInv
<1> SUFFICES ASSUME Init PROVE IInv
  OBVIOUS
<1>1. TypeOK
  <2>1. generated = 0 /\ now = 0 /\ {credentials, answered, configured, rotated} \subseteq [Devices -> 0 .. generated]
    BY DEF Init, NoToken
  <2>2. \A d \in Devices : holder[d] = Nobody
    BY DEF Init
  <2>3. /\ now \in 0 .. MaxTime /\ deployed \subseteq Workers /\ deployed # {}
        /\ devices \in [Devices -> DeviceRow \union {Unknown}]
        /\ described \in [Devices -> Versions] /\ overtaken \subseteq Devices
        /\ generated \in 0 .. MaxTokens
    BY BoundsAssumption DEF Init
  <2> QED
    BY <2>1, <2>2, <2>3 DEF TypeOK
<1>2. TransactionsOK
  BY DEF Init, TransactionsOK, Transaction
<1>3. \A w \in Workers : txn[w] = Idle
  BY DEF Init
<1>4. LocksAreHeld
  BY <1>3 DEF Init, LocksAreHeld, Holding, Idle
<1>5. CallsAreTrue /\ RegisteredIsNoRegistration
  BY <1>3 DEF CallsAreTrue, TokenIsTrue, ObjectIsTrue, Holding, RegisteredIsNoRegistration, Idle
<1>6. RotationIsKept /\ LastDescriptionCounts
  BY DEF Init, RotationIsKept, LastDescriptionCounts
<1> QED
  BY <1>1, <1>2, <1>4, <1>5, <1>6 DEF IInv

\* A query that writes nothing, the first one of a transaction, or no query at
\* all: what the transaction goes on with must be true.
LEMMA QueryIInv ==
  ASSUME IInv, NEW w \in Workers, NEW t, t \in Transaction',
         txn' = [txn EXCEPT ![w] = t], t # Idle => w \in deployed,
         \A d \in Devices : holder[d] = w => t.step \in Holding /\ t.device = d,
         t.step \in Holding => holder[t.device] = w,
         TokenIsTrue(t), ObjectIsTrue(t), t.step = "registered" => t.call.name # "register",
         UNCHANGED <<deployed, rows, holder, history>>, now' \in now .. MaxTime,
         generated' \in generated .. MaxTokens,
         {answered', configured'} \subseteq [Devices -> 0 .. generated']
  PROVE  IInv'
<1>1. /\ now \in Nat /\ generated \in Nat
      /\ UNCHANGED <<deployed, devices, credentials, holder, rotated, described, overtaken>>
  BY BoundsAssumption DEF IInv, TypeOK, rows, history
<1>2. \A v \in Workers : txn'[v] = IF v = w THEN t ELSE txn[v]
  BY DEF IInv, TransactionsOK
<1>3. /\ DeviceRow \subseteq DeviceRow' /\ Transaction \subseteq Transaction'
      /\ [Devices -> 0 .. generated] \subseteq [Devices -> 0 .. generated']
      /\ generated' \in 0 .. MaxTokens /\ now' \in 0 .. MaxTime
  <2>1. /\ generated' \in Nat /\ generated <= generated' /\ generated' \in 0 .. MaxTokens
        /\ now' \in Nat /\ now <= now' /\ now' \in 0 .. MaxTime
    BY <1>1, BoundsAssumption
  <2> QED
    BY <1>1, <2>1, TypesStay
<1>4. TypeOK'
  <2>1. \A d \in Devices : holder'[d] # Nobody =>
          /\ txn'[holder'[d]].step \in {"registered", "done", "find", "refresh", "save"}
          /\ txn'[holder'[d]].device = d
    <3>1. \A d \in Devices : holder[d] # Nobody => holder[d] \in Workers
      BY DEF IInv, LocksAreHeld
    <3> QED
      BY <1>1, <1>2, <3>1 DEF IInv, TypeOK, Holding
  <2>2. {credentials', answered', configured', rotated'} \subseteq [Devices -> 0 .. generated']
    BY <1>1, <1>3 DEF IInv, TypeOK
  <2>3. devices' \in [Devices -> DeviceRow' \union {Unknown}]
    BY <1>1, <1>3 DEF IInv, TypeOK
  <2> QED
    BY <1>1, <1>3, <2>1, <2>2, <2>3 DEF IInv, TypeOK
<1>5. TransactionsOK'
  <2>1. txn' \in [Workers -> Transaction']
    BY <1>3 DEF IInv, TransactionsOK
  <2> QED
    BY <1>1, <1>2, <2>1 DEF IInv, TransactionsOK
<1>6. LocksAreHeld'
  BY <1>1, <1>2 DEF IInv, LocksAreHeld
<1>7. CallsAreTrue'
  <2>1. \A u : TokenIsTrue(u)' = TokenIsTrue(u) /\ ObjectIsTrue(u)' = ObjectIsTrue(u)
    BY <1>1 DEF TokenIsTrue, ObjectIsTrue
  <2> QED
    BY <1>2, <2>1 DEF IInv, CallsAreTrue
<1>8. RegisteredIsNoRegistration'
  BY <1>2 DEF IInv, RegisteredIsNoRegistration
<1>9. RotationIsKept' /\ LastDescriptionCounts'
  BY <1>1 DEF IInv, RotationIsKept, SingleWorker, LastDescriptionCounts
<1> QED
  BY <1>4, <1>5, <1>6, <1>7, <1>8, <1>9 DEF IInv

\* The transaction writes its credential and holds the row from then on.
LEMMA UseIInv ==
  ASSUME IInv, NEW w \in Workers, UseCredential(w)
  PROVE  IInv'
<1> DEFINE s == txn[w]
           t == [step |-> IF RequiresDevice(s.call) THEN "registered" ELSE "find",
                 device |-> s.device, call |-> s.call, stale |-> s.stale,
                 token |-> s.token, at |-> now]
<1>1. /\ s.step = "use" /\ holder[s.device] = Nobody
      /\ holder' = [holder EXCEPT ![s.device] = w]
      /\ txn' = [txn EXCEPT ![w] = t]
      /\ UNCHANGED <<now, deployed, devices, credentials, rotated, described, overtaken,
                     generated, answered, configured>>
  BY DEF UseCredential, Locked, Continue, rows, tokens, history
<1>2. /\ s \in [step : {"use"}, device : Devices, call : Calls, stale : BOOLEAN, token : Tokens]
      /\ s # Idle /\ now \in 0 .. now /\ now \in Nat
  <2>1. now \in 0 .. now /\ now \in Nat
    BY BoundsAssumption DEF IInv, TypeOK
  <2>2. s \in [step : {"use"}, device : Devices, call : Calls, stale : BOOLEAN, token : Tokens]
    BY <1>1, Shapes DEF IInv
  <2> QED
    BY <2>1, <2>2 DEF Idle
<1>3. DeviceRow' = DeviceRow /\ Transaction' = Transaction
  <2>1. DeviceRow' = DeviceRow /\ Tokens' = Tokens
    BY <1>1 DEF DeviceRow, Tokens
  <2> QED
    BY <1>1, <2>1 DEF Transaction
<1>4. /\ t \in Transaction /\ t # Idle /\ t.step \in {"registered", "find"} /\ t.device = s.device
      /\ t.call = s.call /\ t.stale = s.stale
      /\ t.step = "registered" <=> s.call.name # "register"
  BY <1>2 DEF Transaction, Idle, RequiresDevice
<1> HIDE DEF t
<1>5. \A v \in Workers : txn'[v] = IF v = w THEN t ELSE txn[v]
  BY <1>1 DEF IInv, TransactionsOK
<1>6. \A d \in Devices : holder'[d] = IF d = s.device THEN w ELSE holder[d]
  BY <1>1 DEF IInv, LocksAreHeld
<1>7. TypeOK'
  <2>1. \A d \in Devices : holder'[d] # Nobody =>
          /\ txn'[holder'[d]].step \in {"registered", "done", "find", "refresh", "save"}
          /\ txn'[holder'[d]].device = d
    <3>1. ASSUME NEW d \in Devices, holder'[d] # Nobody, d # s.device
          PROVE  /\ txn'[holder'[d]].step \in {"registered", "done", "find", "refresh", "save"}
                 /\ txn'[holder'[d]].device = d
      <4>1. holder'[d] = holder[d] /\ holder[d] \in Workers
        BY <1>6, <3>1 DEF IInv, LocksAreHeld
      <4>2. txn[holder[d]].device = d /\ txn[holder[d]].step \in {"registered", "done", "find", "refresh", "save"}
        BY <3>1, <4>1 DEF IInv, TypeOK
      <4>3. holder[d] # w
        BY <3>1, <4>2
      <4> QED
        BY <1>5, <4>1, <4>2, <4>3
    <3>2. txn'[w] = t /\ holder'[s.device] = w
      BY <1>2, <1>5, <1>6
    <3> QED
      BY <1>4, <1>6, <3>1, <3>2
  <2>2. devices' \in [Devices -> DeviceRow' \union {Unknown}]
    BY <1>1, <1>3 DEF IInv, TypeOK
  <2> QED
    BY <1>1, <2>1, <2>2 DEF IInv, TypeOK
<1>8. TransactionsOK'
  <2>1. txn' \in [Workers -> Transaction']
    BY <1>1, <1>3, <1>4 DEF IInv, TransactionsOK
  <2> QED
    BY <1>1, <1>2, <1>5, <2>1 DEF IInv, TransactionsOK
<1>9. LocksAreHeld'
  <2>1. holder' \in [Devices -> Workers \union {Nobody}]
    BY <1>1 DEF IInv, LocksAreHeld
  <2>2. ASSUME NEW v \in Workers, txn'[v].step \in Holding
        PROVE  holder'[txn'[v].device] = v
    <3>1. CASE v = w
      BY <1>2, <1>4, <1>5, <1>6, <3>1
    <3>2. CASE v # w
      <4>1. txn'[v] = txn[v] /\ holder[txn[v].device] = v
        BY <1>5, <2>2, <3>2 DEF IInv, LocksAreHeld
      <4>2. txn[v].device \in Devices
        BY <2>2, <4>1, HolderDef DEF IInv
      <4>3. txn[v].device # s.device
        BY <1>1, <4>1, NobodyAssumption
      <4> QED
        BY <1>6, <4>1, <4>2, <4>3
    <3> QED
      BY <3>1, <3>2
  <2> QED
    BY <2>1, <2>2 DEF LocksAreHeld
<1>10. CallsAreTrue'
  <2>1. \A u : TokenIsTrue(u)' = TokenIsTrue(u) /\ ObjectIsTrue(u)' = ObjectIsTrue(u)
    BY <1>1 DEF TokenIsTrue, ObjectIsTrue
  <2>2. TokenIsTrue(t)
    BY <1>1, <1>4 DEF IInv, CallsAreTrue, TokenIsTrue, Holding
  <2>3. ObjectIsTrue(t)
    BY <1>4 DEF ObjectIsTrue
  <2> QED
    BY <1>5, <2>1, <2>2, <2>3 DEF IInv, CallsAreTrue
<1>11. RegisteredIsNoRegistration'
  BY <1>4, <1>5 DEF IInv, RegisteredIsNoRegistration
<1>12. RotationIsKept' /\ LastDescriptionCounts'
  BY <1>1 DEF IInv, RotationIsKept, SingleWorker, LastDescriptionCounts
<1> QED
  BY <1>7, <1>8, <1>9, <1>10, <1>11, <1>12 DEF IInv

\* A transaction that ends has written nothing, or only what it holds: its
\* credential, if its token was stale, and its device.
LEMMA EndIInv ==
  ASSUME IInv, NEW w \in Workers, End(w),
         credentials' = credentials \/ credentials' = Credentials(w),
         devices' \in [Devices -> DeviceRow \union {Unknown}], described' \in [Devices -> Versions],
         \A d \in Devices : holder[d] # w => devices'[d] = devices[d] /\ described'[d] = described[d],
         LastDescriptionCounts'
  PROVE  IInv'
<1>1. /\ txn' = [txn EXCEPT ![w] = Idle] /\ holder' = Released(w)
      /\ UNCHANGED <<now, deployed, generated, answered, configured, rotated, overtaken>>
  BY DEF End, tokens
<1>2. \A v \in Workers : txn'[v] = IF v = w THEN Idle ELSE txn[v]
  BY <1>1 DEF IInv, TransactionsOK
<1>3. DeviceRow' = DeviceRow /\ Transaction' = Transaction
  <2>1. DeviceRow' = DeviceRow /\ Tokens' = Tokens
    BY <1>1 DEF DeviceRow, Tokens
  <2> QED
    BY <1>1, <2>1 DEF Transaction
<1>4. /\ holder' \in [Devices -> Workers \union {Nobody}]
      /\ \A d \in Devices : holder'[d] = IF holder[d] = w THEN Nobody ELSE holder[d]
  BY <1>1 DEF IInv, LocksAreHeld, Released
<1>5. ASSUME NEW d \in Devices, holder[d] = w
      PROVE  txn[w].step \in Holding /\ txn[w].device = d
  BY <1>5, NobodyAssumption DEF IInv, TypeOK, Holding
<1>6. /\ credentials' \in [Devices -> 0 .. generated]
      /\ \A d \in Devices \ overtaken : credentials'[d] = credentials[d]
  <2>1. CASE credentials' = credentials
    BY <2>1 DEF IInv, TypeOK
  <2>2. CASE credentials' = Credentials(w)
    <3>1. ASSUME NEW d \in Devices
          PROVE  /\ credentials'[d] \in 0 .. generated
                 /\ d \notin overtaken => credentials'[d] = credentials[d]
      <4>1. credentials[d] \in 0 .. generated
        BY DEF IInv, TypeOK
      <4>2. credentials'[d] = IF holder[d] = w /\ txn[w].stale THEN txn[w].token ELSE credentials[d]
        BY <2>2 DEF Credentials
      <4>3. CASE holder[d] = w /\ txn[w].stale
        <5>1. txn[w].step \in Holding /\ txn[w].device = d
          BY <1>5, <4>3
        <5>2. txn[w].token \in Tokens /\ generated \in Nat
          BY <5>1, HolderDef, BoundsAssumption DEF IInv, TypeOK
        <5>3. d \in overtaken
          BY <4>3, <5>1 DEF IInv, CallsAreTrue, TokenIsTrue
        <5> QED
          BY <4>2, <4>3, <5>2, <5>3 DEF Tokens
      <4> QED
        BY <4>1, <4>2, <4>3
    <3>2. credentials' = [d \in Devices |-> credentials'[d]]
      BY <2>2 DEF Credentials
    <3> QED
      BY <3>1, <3>2
  <2> QED
    BY <2>1, <2>2
<1>7. TypeOK'
  <2>1. ASSUME NEW d \in Devices, holder'[d] # Nobody
        PROVE  /\ txn'[holder'[d]].step \in {"registered", "done", "find", "refresh", "save"}
               /\ txn'[holder'[d]].device = d
    <3>1. holder'[d] = holder[d] /\ holder[d] # w /\ holder[d] \in Workers
      BY <1>4, <2>1 DEF IInv, LocksAreHeld
    <3> QED
      BY <1>2, <2>1, <3>1 DEF IInv, TypeOK
  <2>2. {credentials', answered', configured', rotated'} \subseteq [Devices -> 0 .. generated']
    BY <1>1, <1>6 DEF IInv, TypeOK
  <2>3. devices' \in [Devices -> DeviceRow' \union {Unknown}]
    BY <1>3
  <2> QED
    BY <1>1, <2>1, <2>2, <2>3 DEF IInv, TypeOK
<1>8. TransactionsOK'
  <2>1. Idle \in Transaction
    BY DEF Transaction
  <2>2. txn' \in [Workers -> Transaction']
    BY <1>1, <1>3, <2>1 DEF IInv, TransactionsOK
  <2> QED
    BY <1>1, <1>2, <2>2 DEF IInv, TransactionsOK
<1>9. LocksAreHeld'
  <2>1. ASSUME NEW v \in Workers, txn'[v].step \in Holding
        PROVE  holder'[txn'[v].device] = v
    <3>1. v # w /\ txn'[v] = txn[v]
      BY <1>2, <2>1 DEF Idle, Holding
    <3>2. holder[txn[v].device] = v /\ txn[v].device \in Devices
      BY <2>1, <3>1, HolderDef DEF IInv, LocksAreHeld
    <3> QED
      BY <1>4, <3>1, <3>2
  <2> QED
    BY <1>4, <2>1 DEF LocksAreHeld
<1>10. ASSUME NEW v \in Workers
       PROVE  TokenIsTrue(txn[v])' /\ ObjectIsTrue(txn[v])'
  <2>1. CASE v = w
    <3>1. txn'[v] = Idle
      BY <1>2, <2>1
    <3> QED
      BY <3>1 DEF TokenIsTrue, ObjectIsTrue, Holding, Idle
  <2>2. CASE v # w
    <3>1. txn'[v] = txn[v] /\ TokenIsTrue(txn[v]) /\ ObjectIsTrue(txn[v])
      BY <1>2, <2>2 DEF IInv, CallsAreTrue
    <3>2. txn[v].step = "reload" =>
            credentials'[txn[v].device] = credentials[txn[v].device] \/ txn[v].device \in overtaken'
      <4>1. txn[v].step = "reload" => txn[v].device \in Devices
        BY Shapes DEF IInv
      <4> QED
        BY <1>1, <1>6, <4>1
    <3>3. txn[v].step \in Holding => devices'[txn[v].device] = devices[txn[v].device]
                                     /\ described'[txn[v].device] = described[txn[v].device]
      <4>1. txn[v].step \in Holding => txn[v].device \in Devices /\ holder[txn[v].device] = v
        BY HolderDef DEF IInv, LocksAreHeld
      <4> QED
        BY <2>2, <4>1
    <3>4. overtaken \subseteq overtaken'
      BY <1>1
    <3> QED
      BY <3>1, <3>2, <3>3, <3>4, CallStays
  <2> QED
    BY <2>1, <2>2
<1>11. RegisteredIsNoRegistration'
  BY <1>2 DEF IInv, RegisteredIsNoRegistration, Idle
<1>12. RotationIsKept'
  BY <1>1, <1>6 DEF IInv, RotationIsKept, SingleWorker
<1> QED
  BY <1>7, <1>8, <1>9, <1>10, <1>11, <1>12 DEF IInv, CallsAreTrue

\* A transaction begins: no row is held by a worker that had none.
LEMMA BeginIInv ==
  ASSUME IInv, NEW w \in Workers, NEW t, Begin(w, t), t \in Transaction', t.step \in {"provision", "reload"},
         TokenIsTrue(t), generated' \in generated .. MaxTokens,
         UNCHANGED <<answered, configured>>
  PROVE  IInv'
<1>1. /\ w \in deployed /\ txn[w] = Idle /\ txn' = [txn EXCEPT ![w] = t]
      /\ UNCHANGED <<now, deployed, rows, holder, history>>
  BY DEF Begin
<1>2. \A d \in Devices : holder[d] # w
  BY <1>1, NobodyAssumption DEF IInv, TypeOK, Idle
<1>3. ObjectIsTrue(t) /\ t.step \notin Holding
  BY DEF ObjectIsTrue, Holding
<1>4. {answered', configured'} \subseteq [Devices -> 0 .. generated']
  <2>1. now \in Nat /\ generated \in Nat /\ now' = now /\ generated' \in Nat /\ generated <= generated'
    BY <1>1, BoundsAssumption DEF IInv, TypeOK
  <2>2. [Devices -> 0 .. generated] \subseteq [Devices -> 0 .. generated']
    BY <2>1, TypesStay
  <2> QED
    BY <2>2 DEF IInv, TypeOK
<1>5. now' \in now .. MaxTime
  BY <1>1, BoundsAssumption DEF IInv, TypeOK
<1> QED
  BY <1>1, <1>2, <1>3, <1>4, <1>5, QueryIInv

\* A token more is generated, or a token is found to be the current one.
LEMMA ArriveIInv ==
  ASSUME IInv, NEW w \in Workers, NEW d \in Devices,
         \/ ProvisionAgentCredential(w, d)
         \/ \E call \in Calls : Authenticate(w, d, call)
  PROVE  IInv'
<1>1. generated \in Nat /\ MaxTokens \in Nat /\ generated <= MaxTokens
  BY BoundsAssumption DEF IInv, TypeOK
<1>2. CASE ProvisionAgentCredential(w, d)
  <2> DEFINE t == [step |-> "provision", device |-> d, token |-> generated + 1,
                   found |-> credentials[d] # NoToken]
  <2>1. /\ generated < MaxTokens /\ Begin(w, t) /\ generated' = generated + 1
        /\ UNCHANGED <<answered, configured>>
    BY <1>2 DEF ProvisionAgentCredential
  <2>2. t \in Transaction' /\ t.step = "provision"
    BY <1>1, <2>1 DEF Transaction, Tokens
  <2> HIDE DEF t
  <2>3. TokenIsTrue(t)
    BY <2>2 DEF TokenIsTrue, Holding
  <2>4. generated' \in generated .. MaxTokens
    BY <1>1, <2>1
  <2> QED
    BY <2>1, <2>2, <2>3, <2>4, BeginIInv
<1>3. CASE \E call \in Calls : Authenticate(w, d, call)
  <2>1. PICK call \in Calls : Authenticate(w, d, call)
    BY <1>3
  <2> DEFINE t == [step |-> "reload", device |-> d, call |-> call, token |-> credentials[d]]
  <2>2. /\ configured[d] # NoToken /\ credentials[d] = configured[d] /\ Begin(w, t)
        /\ UNCHANGED <<now, generated, answered, configured>>
    BY <2>1 DEF Authenticate, tokens, Begin
  <2>3. credentials[d] \in Tokens /\ Tokens' = Tokens
    <3>1. credentials[d] \in 0 .. generated
      BY DEF IInv, TypeOK
    <3> QED
      BY <1>1, <2>2, <3>1 DEF Tokens, NoToken
  <2>4. t \in Transaction'
    BY <2>3 DEF Transaction
  <2>5. t.step = "reload" /\ t.token = credentials[t.device]
    OBVIOUS
  <2> HIDE DEF t
  <2>6. TokenIsTrue(t)
    BY <2>5 DEF TokenIsTrue, Holding
  <2>7. generated' \in generated .. MaxTokens
    BY <1>1, <2>2
  <2> QED
    BY <2>2, <2>4, <2>5, <2>6, <2>7, BeginIInv
<1> QED
  BY <1>2, <1>3

\* A call goes on without writing: it holds its credential if it did.
LEMMA ContinueIInv ==
  ASSUME IInv, NEW w \in Workers, NEW t \in Transaction, Continue(w, t), UNCHANGED holder,
         txn[w] # Idle, txn[w].device \in Devices,
         t.device = txn[w].device, t.step \in Holding <=> txn[w].step \in Holding,
         TokenIsTrue(t), ObjectIsTrue(t), t.step = "registered" => t.call.name # "register"
  PROVE  IInv'
<1>1. /\ txn' = [txn EXCEPT ![w] = t]
      /\ UNCHANGED <<now, deployed, rows, holder, history, generated, answered, configured>>
  BY DEF Continue, tokens
<1>2. w \in deployed
  BY DEF IInv, TransactionsOK
<1>3. /\ \A d \in Devices : holder[d] = w => txn[w].step \in Holding /\ txn[w].device = d
      /\ t.step \in Holding => holder[t.device] = w
  BY NobodyAssumption DEF IInv, TypeOK, LocksAreHeld, Holding
<1>4. /\ generated' \in generated .. MaxTokens /\ now' \in now .. MaxTime
      /\ {answered', configured'} \subseteq [Devices -> 0 .. generated']
  BY <1>1, BoundsAssumption DEF IInv, TypeOK
<1>5. t \in Transaction'
  <2>1. now \in Nat /\ now' = now /\ generated \in Nat /\ generated' = generated
    BY <1>1, BoundsAssumption DEF IInv, TypeOK
  <2> QED
    BY <2>1, TypesStay
<1> QED
  BY <1>1, <1>2, <1>3, <1>4, <1>5, QueryIInv

\* save() reads the credential a second time: a token that is not the first one
\* any more was overtaken.
LEMMA ReloadIInv ==
  ASSUME IInv, NEW w \in Workers, ReloadCredential(w)
  PROVE  IInv'
<1> DEFINE s == txn[w]
           t == [step |-> "use", device |-> s.device, call |-> s.call,
                 stale |-> credentials[s.device] # s.token, token |-> s.token]
<1>1. s.step = "reload" /\ Continue(w, t) /\ UNCHANGED holder
  BY DEF ReloadCredential
<1>2. s \in [step : {"reload"}, device : Devices, call : Calls, token : Tokens]
  BY <1>1, Shapes DEF IInv
<1>3. t \in Transaction
  BY <1>2 DEF Transaction
<1>4. s # Idle /\ s.step \notin Holding /\ s.device \in Devices
  BY <1>1, <1>2 DEF Idle, Holding
<1>5. t.step = "use" /\ t.device = s.device /\ (t.stale => credentials[s.device] # s.token)
  OBVIOUS
<1> HIDE DEF t
<1>6. TokenIsTrue(t)
  BY <1>1, <1>5 DEF IInv, CallsAreTrue, TokenIsTrue
<1>7. ObjectIsTrue(t) /\ t.step \notin Holding
  BY <1>5 DEF ObjectIsTrue, Holding
<1> QED
  BY <1>1, <1>3, <1>4, <1>5, <1>6, <1>7, ContinueIInv

\* A report of a registered device is received: the device was not seen later.
LEMMA FindRegisteredIInv ==
  ASSUME IInv, NEW w \in Workers, FindRegistered(w)
  PROVE  IInv'
<1> DEFINE s == txn[w]
           t == [s EXCEPT !.step = IF s.call.name = "report" THEN "find" ELSE "done", !.at = now]
<1>1. s.step = "registered" /\ devices[s.device] # Unknown /\ Continue(w, t) /\ UNCHANGED holder
  BY DEF FindRegistered
<1>2. s \in [step : {"registered", "done", "find"}, device : Devices, call : Calls,
             stale : BOOLEAN, token : Tokens, at : 0 .. now]
  BY <1>1, Shapes DEF IInv
<1>3. now \in Nat /\ devices[s.device] \in DeviceRow
  BY <1>1, <1>2, BoundsAssumption DEF IInv, TypeOK
<1>4. /\ t \in Transaction /\ t.device = s.device /\ t.call = s.call /\ t.at = now /\ t.stale = s.stale
      /\ t.step = IF s.call.name = "report" THEN "find" ELSE "done"
  <2> DEFINE step == IF s.call.name = "report" THEN "find" ELSE "done"
             u == [s EXCEPT !.step = step, !.at = now]
  <2>1. step \in {"find", "done"} /\ now \in 0 .. now
    BY <1>3
  <2>2. t = u
    OBVIOUS
  <2> HIDE DEF t, step
  <2>3. /\ u \in [step : {"registered", "done", "find"}, device : Devices, call : Calls,
                   stale : BOOLEAN, token : Tokens, at : 0 .. now]
        /\ u.device = s.device /\ u.call = s.call /\ u.at = now /\ u.stale = s.stale /\ u.step = step
    BY <1>2, <2>1
  <2> QED
    BY <2>2, <2>3 DEF Transaction, step
<1>5. s # Idle /\ s.step \in Holding /\ s.device \in Devices
  BY <1>1, <1>2 DEF Idle, Holding
<1> HIDE DEF t
<1>6. t.step \in {"find", "done"} /\ t.step \in Holding
  BY <1>4 DEF Holding
<1>7. TokenIsTrue(t)
  BY <1>4, <1>5, <1>6 DEF IInv, CallsAreTrue, TokenIsTrue
<1>8. ObjectIsTrue(t)
  <2>1. \A r \in DeviceRow : r.seen \in 0 .. now
    BY DEF DeviceRow
  <2> QED
    BY <1>1, <1>3, <1>4, <1>6, <2>1 DEF ObjectIsTrue
<1> QED
  BY <1>1, <1>4, <1>5, <1>6, <1>7, <1>8, ContinueIInv

\* The object to be saved is what the device becomes: described anew by a
\* registration, seen later by a report, and otherwise as it was.
LEMMA ChangedDef ==
  ASSUME now \in Nat, NEW row \in DeviceRow \union {Unknown}, NEW call \in Calls, NEW at \in 0 .. now,
         call.name # "other", row = Unknown => call.name = "register",
         call.name # "register" => row.seen <= at
  PROVE  LET object == Changed(row, call, at)
         IN /\ object \in DeviceRow
            /\ object.version = IF call.name = "register" THEN call.version ELSE row.version
            /\ row # Unknown => object.since = row.since /\ row.seen <= object.seen
<1>1. /\ call.name \in {"register", "report"}
      /\ call.name = "register" => call.version \in Versions
  BY DEF Calls, Register
<1>2. now \in 0 .. now
  OBVIOUS
<1>3. CASE row = Unknown
  <2>1. Changed(row, call, at) = Row(call.version, now, now)
    BY <1>3 DEF Changed
  <2> QED
    BY <1>1, <1>2, <1>3, <2>1 DEF DeviceRow, Row
<1>4. CASE row # Unknown
  <2>1. row \in DeviceRow /\ row.seen \in 0 .. now
    BY <1>4 DEF DeviceRow
  <2>2. CASE call.name = "report"
    <3>1. Changed(row, call, at) = [row EXCEPT !.seen = at]
      BY <2>2 DEF Changed
    <3> QED
      BY <2>1, <2>2, <3>1 DEF DeviceRow
  <2>3. CASE call.name = "register"
    <3> DEFINE New(v, x) == [row EXCEPT !.version = v, !.seen = x]
    <3>1. Changed(row, call, at) = New(call.version, now)
      BY <1>4, <2>3 DEF Changed
    <3>2. ASSUME NEW v \in Versions, NEW x \in 0 .. now
          PROVE  /\ New(v, x) \in DeviceRow /\ New(v, x).version = v
                 /\ New(v, x).since = row.since /\ New(v, x).seen = x
      BY <2>1 DEF DeviceRow
    <3> HIDE DEF New
    <3> QED
      BY <1>1, <1>2, <2>1, <2>3, <3>1, <3>2
  <2> QED
    BY <1>1, <2>2, <2>3
<1> QED
  BY <1>3, <1>4

LEMMA FindDeviceIInv ==
  ASSUME IInv, NEW w \in Workers, FindDevice(w)
  PROVE  IInv'
<1> DEFINE s == txn[w]
           row == devices[s.device]
           object == Changed(row, s.call, s.at)
           t == [step |-> "refresh", device |-> s.device, call |-> s.call, stale |-> s.stale,
                 token |-> s.token, object |-> object]
<1>1. s.step = "find" /\ Continue(w, t) /\ UNCHANGED holder
  BY DEF FindDevice
<1>2. s \in [step : {"registered", "done", "find"}, device : Devices, call : Calls,
             stale : BOOLEAN, token : Tokens, at : 0 .. now]
  BY <1>1, Shapes DEF IInv
<1>3. now \in Nat /\ row \in DeviceRow \union {Unknown}
  BY <1>2, BoundsAssumption DEF IInv, TypeOK
<1>4. /\ s.call.name # "other" /\ (row = Unknown => s.call.name = "register")
      /\ s.call.name # "register" => row.seen <= s.at
  BY <1>1 DEF IInv, CallsAreTrue, ObjectIsTrue
<1>5. /\ object \in DeviceRow
      /\ object.version = IF s.call.name = "register" THEN s.call.version ELSE row.version
      /\ row # Unknown => object.since = row.since /\ row.seen <= object.seen
  BY <1>2, <1>3, <1>4, ChangedDef
<1>6. row # Unknown => row.version = described[s.device]
  BY <1>2 DEF IInv, LastDescriptionCounts
<1> HIDE DEF object
<1>7. /\ t \in Transaction /\ t.device = s.device /\ t.call = s.call /\ t.stale = s.stale
      /\ t.object = object /\ t.step = "refresh"
  BY <1>2, <1>5 DEF Transaction
<1> HIDE DEF t
<1>8. s # Idle /\ s.step \in Holding /\ s.device \in Devices /\ t.step \in Holding
  BY <1>1, <1>2, <1>7 DEF Idle, Holding
<1>9. TokenIsTrue(t)
  BY <1>7, <1>8 DEF IInv, CallsAreTrue, TokenIsTrue
<1>10. ObjectIsTrue(t)
  BY <1>4, <1>5, <1>6, <1>7 DEF ObjectIsTrue
<1> QED
  BY <1>1, <1>7, <1>8, <1>9, <1>10, ContinueIInv

\* The second reading finds what the first one found.
LEMMA RefreshIInv ==
  ASSUME IInv, NEW w \in Workers, RefreshDevice(w)
  PROVE  IInv'
<1> DEFINE s == txn[w]
           t == [step |-> "save", device |-> s.device, call |-> s.call, stale |-> s.stale,
                 token |-> s.token, object |-> s.object, fresh |-> devices[s.device]]
<1>1. s.step = "refresh" /\ Continue(w, t) /\ UNCHANGED holder
  BY DEF RefreshDevice
<1>2. s \in [step : {"refresh"}, device : Devices, call : Calls, stale : BOOLEAN,
             token : Tokens, object : DeviceRow]
  BY <1>1, Shapes DEF IInv
<1>3. devices[s.device] \in DeviceRow \union {Unknown}
  BY <1>2 DEF IInv, TypeOK
<1>4. /\ t \in Transaction /\ t.device = s.device /\ t.call = s.call /\ t.stale = s.stale
      /\ t.object = s.object /\ t.fresh = devices[s.device] /\ t.step = "save"
  BY <1>2, <1>3 DEF Transaction
<1> HIDE DEF t
<1>5. s # Idle /\ s.step \in Holding /\ s.device \in Devices /\ t.step \in Holding
  BY <1>1, <1>2, <1>4 DEF Idle, Holding
<1>6. TokenIsTrue(t)
  BY <1>4, <1>5 DEF IInv, CallsAreTrue, TokenIsTrue
<1>7. ObjectIsTrue(t)
  BY <1>1, <1>4 DEF IInv, CallsAreTrue, ObjectIsTrue
<1> QED
  BY <1>1, <1>4, <1>5, <1>6, <1>7, ContinueIInv

\* The clock runs, the administrator configures an agent, or nothing happens.
LEMMA OutsideIInv ==
  ASSUME IInv, UNCHANGED <<deployed, rows, holder, txn, generated, answered, history>>,
         now' \in now .. MaxTime, configured' \in [Devices -> 0 .. generated]
  PROVE  IInv'
<1>1. PICK w \in deployed : w \in Workers
  BY DEF IInv, TypeOK
<1> DEFINE t == txn[w]
<1>2. txn' = [txn EXCEPT ![w] = t]
  BY <1>1 DEF IInv, TransactionsOK
<1>3. t \in Transaction'
  <2>1. now \in Nat /\ now' \in Nat /\ now <= now' /\ generated \in Nat /\ generated' = generated
    BY BoundsAssumption DEF IInv, TypeOK
  <2> QED
    BY <1>1, <2>1, Shapes, TypesStay DEF IInv
<1>4. /\ \A d \in Devices : holder[d] = w => t.step \in Holding /\ t.device = d
      /\ t.step \in Holding => holder[t.device] = w
  BY <1>1, NobodyAssumption DEF IInv, TypeOK, LocksAreHeld, Holding
<1>5. /\ TokenIsTrue(t) /\ ObjectIsTrue(t)
      /\ t.step = "registered" => t.call.name # "register"
  BY <1>1 DEF IInv, CallsAreTrue, RegisteredIsNoRegistration
<1>6. /\ generated' \in generated .. MaxTokens
      /\ {answered', configured'} \subseteq [Devices -> 0 .. generated']
  BY BoundsAssumption DEF IInv, TypeOK
<1> HIDE DEF t
<1> QED
  BY <1>1, <1>2, <1>3, <1>4, <1>5, <1>6, QueryIInv

\* A provisioning commits.  A call that has read the credential and not yet read
\* it again will find it changed: its device is overtaken.
LEMMA SaveCredentialIInv ==
  ASSUME IInv, NEW w \in Workers, SaveCredential(w)
  PROVE  IInv'
<1> DEFINE t == txn[w]
           c == txn[w].device
<1>1. /\ t.step = "provision"
      /\ credentials' = [credentials EXCEPT ![c] = t.token]
      /\ rotated' = [rotated EXCEPT ![c] = t.token]
      /\ overtaken' = IF BeingChecked(c) THEN overtaken \union {c} ELSE overtaken
      /\ answered' \in {answered, [answered EXCEPT ![c] = t.token]}
      /\ txn' = [txn EXCEPT ![w] = Idle]
      /\ UNCHANGED <<now, deployed, devices, holder, generated, configured, described>>
  BY DEF SaveCredential, NewToken
<1>2. /\ t \in [step : {"provision"}, device : Devices, token : Tokens, found : BOOLEAN]
      /\ c \in Devices /\ t.token \in 0 .. generated /\ t # Idle
  <2>1. t \in [step : {"provision"}, device : Devices, token : Tokens, found : BOOLEAN]
    BY <1>1, Shapes DEF IInv
  <2>2. generated \in Nat
    BY BoundsAssumption DEF IInv, TypeOK
  <2> QED
    BY <2>1, <2>2 DEF Tokens, Idle
<1>3. DeviceRow' = DeviceRow /\ Transaction' = Transaction
  <2>1. DeviceRow' = DeviceRow /\ Tokens' = Tokens
    BY <1>1 DEF DeviceRow, Tokens
  <2> QED
    BY <1>1, <2>1 DEF Transaction
<1>4. \A v \in Workers : txn'[v] = IF v = w THEN Idle ELSE txn[v]
  BY <1>1 DEF IInv, TransactionsOK
<1>5. \A d \in Devices : holder[d] # w
  BY <1>1, NobodyAssumption DEF IInv, TypeOK
<1>6. TypeOK'
  <2>1. ASSUME NEW d \in Devices, holder'[d] # Nobody
        PROVE  /\ txn'[holder'[d]].step \in {"registered", "done", "find", "refresh", "save"}
               /\ txn'[holder'[d]].device = d
    <3>1. holder'[d] = holder[d] /\ holder[d] # w /\ holder[d] \in Workers
      BY <1>1, <1>5, <2>1 DEF IInv, LocksAreHeld
    <3> QED
      BY <1>4, <2>1, <3>1 DEF IInv, TypeOK
  <2>2. {credentials', answered', configured', rotated'} \subseteq [Devices -> 0 .. generated']
    BY <1>1, <1>2 DEF IInv, TypeOK
  <2>3. devices' \in [Devices -> DeviceRow' \union {Unknown}]
    BY <1>1, <1>3 DEF IInv, TypeOK
  <2>4. overtaken' \subseteq Devices
    BY <1>1, <1>2 DEF IInv, TypeOK
  <2> QED
    BY <1>1, <2>1, <2>2, <2>3, <2>4 DEF IInv, TypeOK
<1>7. TransactionsOK'
  <2>1. Idle \in Transaction
    BY DEF Transaction
  <2>2. txn' \in [Workers -> Transaction']
    BY <1>1, <1>3, <2>1 DEF IInv, TransactionsOK
  <2> QED
    BY <1>1, <1>4, <2>2 DEF IInv, TransactionsOK
<1>8. LocksAreHeld'
  BY <1>1, <1>4 DEF IInv, LocksAreHeld, Idle, Holding
<1>9. overtaken \subseteq overtaken' /\ overtaken' \subseteq overtaken \union {c}
  BY <1>1
<1>10. ASSUME NEW v \in Workers
       PROVE  TokenIsTrue(txn[v])' /\ ObjectIsTrue(txn[v])'
  <2>1. CASE v = w
    <3>1. txn'[v] = Idle
      BY <1>4, <2>1
    <3> QED
      BY <3>1 DEF TokenIsTrue, ObjectIsTrue, Holding, Idle
  <2>2. CASE v # w
    <3>1. txn'[v] = txn[v] /\ TokenIsTrue(txn[v]) /\ ObjectIsTrue(txn[v])
      BY <1>4, <2>2 DEF IInv, CallsAreTrue
    <3>2. txn[v].step = "reload" =>
            credentials'[txn[v].device] = credentials[txn[v].device] \/ txn[v].device \in overtaken'
      <4>1. txn[v].step = "reload" => txn[v].device \in Devices
        BY Shapes DEF IInv
      <4>2. \A d \in Devices : d # c => credentials'[d] = credentials[d]
        BY <1>1 DEF IInv, TypeOK
      <4>3. txn[v].step = "reload" /\ txn[v].device = c => c \in overtaken'
        BY <1>1 DEF BeingChecked
      <4> QED
        BY <4>1, <4>2, <4>3
    <3>3. devices'[txn[v].device] = devices[txn[v].device] /\ described'[txn[v].device] = described[txn[v].device]
      BY <1>1
    <3> QED
      BY <1>9, <3>1, <3>2, <3>3, CallStays
  <2> QED
    BY <2>1, <2>2
<1>11. RegisteredIsNoRegistration'
  BY <1>4 DEF IInv, RegisteredIsNoRegistration, Idle
<1>12. RotationIsKept'
  <2>1. \A d \in Devices \ overtaken' : credentials'[d] = rotated'[d]
    BY <1>1, <1>2, <1>9 DEF IInv, TypeOK, RotationIsKept
  <2>2. ASSUME SingleWorker
        PROVE  ~BeingChecked(c)
    <3>1. ASSUME NEW v \in Workers, txn[v].step = "reload"
          PROVE  FALSE
      <4>1. v \in deployed /\ w \in deployed
        BY <1>2, <3>1 DEF IInv, TransactionsOK, Idle
      <4> QED
        BY <1>1, <2>2, <3>1, <4>1 DEF SingleWorker
    <3> QED
      BY <3>1 DEF BeingChecked
  <2>3. SingleWorker' = SingleWorker
    BY <1>1 DEF SingleWorker
  <2> QED
    BY <1>1, <2>1, <2>2, <2>3 DEF IInv, RotationIsKept
<1>13. LastDescriptionCounts'
  BY <1>1 DEF IInv, LastDescriptionCounts
<1> QED
  BY <1>6, <1>7, <1>8, <1>10, <1>11, <1>12, <1>13 DEF IInv, CallsAreTrue

\* What is written over a row that is still as it was read is the object itself.
LEMMA SavedDef ==
  ASSUME NEW object \in DeviceRow, NEW row \in DeviceRow \union {Unknown}
  PROVE  Saved(object, row, row) = object
<1>1. CASE row = Unknown
  BY <1>1 DEF Saved
<1>2. CASE row # Unknown
  <2>1. /\ DOMAIN row = {"exists", "version", "since", "seen"}
        /\ object = [col \in {"exists", "version", "since", "seen"} |-> object[col]]
    BY <1>2 DEF DeviceRow
  <2>2. Saved(object, row, row) = [col \in DOMAIN row |-> IF object[col] = row[col] THEN row[col] ELSE object[col]]
    BY <1>2 DEF Saved
  <2>3. Saved(object, row, row) = [col \in {"exists", "version", "since", "seen"} |-> object[col]]
    BY <2>1, <2>2
  <2> QED
    BY <2>1, <2>3
<1> QED
  BY <1>1, <1>2

\* A device is saved by the call that holds it: it becomes the object of the call.
LEMMA SaveDeviceDef ==
  ASSUME IInv, NEW w \in Workers, SaveDevice(w)
  PROVE  LET t == txn[w]
             c == txn[w].device
         IN /\ c \in Devices /\ holder[c] = w /\ t.object \in DeviceRow /\ t.call \in Calls
            /\ devices' = [devices EXCEPT ![c] = t.object]
            /\ t.object.version = IF t.call.name = "register" THEN t.call.version ELSE described[c]
            /\ devices[c] # Unknown => /\ t.object.since = devices[c].since
                                       /\ devices[c].seen <= t.object.seen
<1> DEFINE t == txn[w]
           c == txn[w].device
<1>1. t.step = "save" /\ devices' = [devices EXCEPT ![c] = Saved(t.object, t.fresh, @)]
  BY DEF SaveDevice
<1>2. t \in [step : {"save"}, device : Devices, call : Calls, stale : BOOLEAN,
             token : Tokens, object : DeviceRow, fresh : DeviceRow \union {Unknown}]
  BY <1>1, Shapes DEF IInv
<1>3. holder[c] = w
  BY <1>1 DEF IInv, LocksAreHeld, Holding
<1>4. ObjectIsTrue(t)
  BY DEF IInv, CallsAreTrue
<1>5. t.fresh = devices[c]
  BY <1>1, <1>4 DEF ObjectIsTrue
<1>6. Saved(t.object, t.fresh, devices[c]) = t.object
  BY <1>2, <1>5, SavedDef
<1> QED
  BY <1>1, <1>2, <1>3, <1>4, <1>6 DEF ObjectIsTrue

LEMMA SaveDeviceIInv ==
  ASSUME IInv, NEW w \in Workers, SaveDevice(w)
  PROVE  IInv'
<1> DEFINE t == txn[w]
           c == txn[w].device
<1>1. /\ c \in Devices /\ holder[c] = w /\ t.object \in DeviceRow /\ t.call \in Calls
      /\ devices' = [devices EXCEPT ![c] = t.object]
      /\ t.object.version = IF t.call.name = "register" THEN t.call.version ELSE described[c]
  BY SaveDeviceDef
<1>2. /\ End(w) /\ credentials' = Credentials(w)
      /\ described' = IF t.call.name = "register"
                        THEN [described EXCEPT ![c] = t.call.version] ELSE described
  BY DEF SaveDevice, Commit
<1>3. t.call.name = "register" => t.call.version \in Versions
  BY <1>1 DEF Calls, Register
<1>4. devices' \in [Devices -> DeviceRow \union {Unknown}] /\ described' \in [Devices -> Versions]
  BY <1>1, <1>2, <1>3 DEF IInv, TypeOK
<1>5. /\ \A d \in Devices : d # c => devices'[d] = devices[d] /\ described'[d] = described[d]
      /\ devices'[c] = t.object
      /\ described'[c] = IF t.call.name = "register" THEN t.call.version ELSE described[c]
  BY <1>1, <1>2 DEF IInv, TypeOK
<1>6. LastDescriptionCounts'
  <2>1. \A d \in Devices : devices'[d] # Unknown => devices'[d].version = described'[d]
    BY <1>1, <1>5 DEF IInv, LastDescriptionCounts
  <2> QED
    BY <2>1 DEF LastDescriptionCounts
<1>7. \A d \in Devices : holder[d] # w => devices'[d] = devices[d] /\ described'[d] = described[d]
  BY <1>1, <1>5
<1> QED
  BY <1>2, <1>4, <1>6, <1>7, EndIInv

\* The transactions that end without a change of a device.
LEMMA LeaveIInv ==
  ASSUME IInv, NEW w \in Workers,
         CredentialConflict(w) \/ NotRegistered(w) \/ RollsBack(w) \/ OtherCommits(w)
  PROVE  IInv'
<1>1. /\ End(w) /\ UNCHANGED <<devices, described>>
      /\ credentials' = credentials \/ credentials' = Credentials(w)
  BY DEF CredentialConflict, NotRegistered, RollsBack, Rejects, OtherCommits, Commit, rows
<1>2. /\ devices' \in [Devices -> DeviceRow \union {Unknown}] /\ described' \in [Devices -> Versions]
      /\ LastDescriptionCounts'
  BY <1>1 DEF IInv, TypeOK, LastDescriptionCounts
<1> QED
  BY <1>1, <1>2, EndIInv

LEMMA NextIInv == IInv /\ [Next]_vars => IInv'
<1> SUFFICES ASSUME IInv, [Next]_vars PROVE IInv'
  OBVIOUS
<1>1. now \in now .. MaxTime /\ configured \in [Devices -> 0 .. generated]
  BY BoundsAssumption DEF IInv, TypeOK
<1>2. CASE TimePasses
  <2>1. /\ UNCHANGED <<deployed, rows, holder, txn, generated, answered, configured, history>>
        /\ now' \in now .. MaxTime
    BY <1>2, BoundsAssumption DEF TimePasses, tokens, IInv, TypeOK
  <2> QED
    BY <1>1, <2>1, OutsideIInv
<1>3. ASSUME NEW d \in Devices, Configure(d)
      PROVE  IInv'
  <2>1. /\ UNCHANGED <<now, deployed, rows, holder, txn, generated, answered, history>>
        /\ configured' = [configured EXCEPT ![d] = answered[d]]
    BY <1>3 DEF Configure
  <2>2. configured' \in [Devices -> 0 .. generated]
    BY <1>1, <2>1 DEF IInv, TypeOK
  <2> QED
    BY <1>1, <2>1, <2>2, OutsideIInv
<1>4. ASSUME NEW d \in Devices, NEW w \in Workers,
             \/ ProvisionAgentCredential(w, d)
             \/ \E call \in Calls : Authenticate(w, d, call)
      PROVE  IInv'
  BY <1>4, ArriveIInv
<1>5. ASSUME NEW w \in Workers, Work(w)
      PROVE  IInv'
  BY <1>5, SaveCredentialIInv, ReloadIInv, UseIInv, FindRegisteredIInv, FindDeviceIInv,
     RefreshIInv, SaveDeviceIInv, LeaveIInv DEF Work
<1>6. ASSUME NEW w \in Workers, RollsBack(w)
      PROVE  IInv'
  BY <1>6, LeaveIInv
<1>7. CASE UNCHANGED vars
  <2>1. UNCHANGED <<now, deployed, rows, holder, txn, generated, answered, configured, history>>
    BY <1>7 DEF vars, tokens
  <2> QED
    BY <1>1, <2>1, OutsideIInv
<1> QED
  BY <1>2, <1>3, <1>4, <1>5, <1>6, <1>7 DEF Next

-----------------------------------------------------------------------------
(* The theorems.                                                             *)

\* The inductive invariant holds of every state of the system: in whatever order
\* workers provision, register and report, a call that holds its credential has
\* the device as it is.
THEOREM RegistryInvariance == Spec => []IInv
<1> QED
  BY InitIInv, NextIInv, PTL DEF Spec

\* The rows are what the columns may hold, and a lock is held by a call that has
\* written its credential and not ended (authenticate_agent.py:35).
THEOREM TypeCorrect == Spec => []TypeOK
<1>1. IInv => TypeOK
  BY DEF IInv
<1> QED
  BY <1>1, RegistryInvariance, PTL

\* The token that the last committed provisioning gave is the one that counts,
\* unless a call of that device was just being checked; with one worker it always
\* is (provision_agent_credential.py:31-45).
THEOREM RotationCorrect == Spec => []RotationIsKept
<1>1. IInv => RotationIsKept
  BY DEF IInv
<1> QED
  BY <1>1, RegistryInvariance, PTL

\* With any number of workers, no report writes back an older description of the
\* device than its last registration gave (register_device.py:21-29,
\* sqlalchemy_device_repository.py:25-53).
THEOREM DescriptionCorrect == Spec => []LastDescriptionCounts
<1>1. IInv => LastDescriptionCounts
  BY DEF IInv
<1> QED
  BY <1>1, RegistryInvariance, PTL

\* No step, of any worker, forgets a device, moves the instant of its registration
\* or makes it seen earlier than it was (register_device.py:22-40,
\* mark_device_seen.py:19-25).
THEOREM RegistryGrowsCorrect == Spec => RegistryGrows
<1> DEFINE Grows ==
      \A d \in Devices : devices[d] # Unknown =>
        /\ devices'[d] # Unknown
        /\ devices'[d].since = devices[d].since
        /\ devices[d].seen <= devices'[d].seen
<1>1. ASSUME IInv, Next
      PROVE  Grows
  <2>1. \A d \in Devices : devices[d] # Unknown => devices[d].seen <= devices[d].seen
    <3>1. \A r \in DeviceRow : r.seen \in 0 .. now
      BY DEF DeviceRow
    <3> QED
      BY <1>1, <3>1 DEF IInv, TypeOK
  <2>2. CASE devices' = devices
    BY <2>1, <2>2
  <2>3. ASSUME NEW w \in Workers, SaveDevice(w)
        PROVE  Grows
    <3> DEFINE t == txn[w]
               c == txn[w].device
    <3>1. /\ c \in Devices /\ t.object \in DeviceRow
          /\ devices' = [devices EXCEPT ![c] = t.object]
          /\ devices[c] # Unknown => /\ t.object.since = devices[c].since
                                     /\ devices[c].seen <= t.object.seen
      BY <1>1, <2>3, SaveDeviceDef
    <3>2. \A d \in Devices : devices'[d] = IF d = c THEN t.object ELSE devices[d]
      BY <1>1, <3>1 DEF IInv, TypeOK
    <3>3. t.object # Unknown
      BY <3>1, RowIsKnown
    <3> HIDE DEF t, c
    <3> QED
      BY <2>1, <3>1, <3>2, <3>3
  <2>4. devices' = devices \/ \E w \in Workers : SaveDevice(w)
    BY <1>1 DEF Next, Work, TimePasses, Configure, ProvisionAgentCredential, Authenticate, Begin,
                Continue, SaveCredential, CredentialConflict, ReloadCredential, UseCredential,
                NotRegistered, FindRegistered, OtherCommits, FindDevice, RefreshDevice, RollsBack,
                Rejects, rows
  <2> QED
    BY <2>2, <2>3, <2>4
<1>2. IInv /\ [Next]_vars => [Grows]_vars
  BY <1>1
<1> QED
  BY <1>2, RegistryInvariance, PTL DEF Spec, RegistryGrows
=============================================================================
