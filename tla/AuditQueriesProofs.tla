--------------------------- MODULE AuditQueriesProofs ---------------------------
(***************************************************************************)
(* Theorems about AuditQueries, for any devices, companies, commands,         *)
(* filters, ranges and limits.                                               *)
(*                                                                         *)
(* The queries of a request see the tables at different instants.  What makes   *)
(* their answers agree is that the tables only grow: an event is never          *)
(* removed, a pair of company and device never loses its link, a device stays    *)
(* registered.  So an answer stays true (AnswersAreTrue), it has whatever was     *)
(* there when the request was accepted (AnswersAreComplete), and it has what an    *)
(* earlier query has already returned (LaterKnowsMore).                          *)
(***************************************************************************)
EXTENDS AuditQueries, FiniteSetTheorems, SequenceTheorems, WellFoundedInduction, TLAPS

-----------------------------------------------------------------------------
(* The inductive invariant.                                                  *)

LinkTable == [Companies \X Devices -> {"NONE", "ACTIVE", "REVOKED_BY_DEVICE"}]
RegistryTable == [Devices -> Instants \union {Never}]
AllRequests == {"network", "lifecycle", "movements", "incident-window"}

\* Who has a link is registered.
TablesInv ==
  /\ IsFiniteSet(events)
  /\ \A c \in Companies, d \in Devices : links[<<c, d>>] # "NONE" => registered[d] # Never

CommandType ==
  command \in [name : Commands, window : Windows, limit : Limits, device : Filters,
               todo : Seq(AllRequests), query : Nat, got : {command.got},
               answered : AllRequests \union {"none"},
               before : [events : SUBSET Event, links : LinkTable, registered : RegistryTable]]

\* The requests that a command may still have to make.
Todos(name, d) ==
  CASE name # "export-json" -> {<<>>, <<name>>}
    [] name = "export-json" /\ d = AnyDevice ->
         {<<>>, <<"incident-window">>, <<"lifecycle", "incident-window">>,
          <<"network", "lifecycle", "incident-window">>}
    [] OTHER ->
         {<<>>, <<"incident-window">>, <<"movements", "incident-window">>,
          <<"lifecycle", "movements", "incident-window">>,
          <<"network", "lifecycle", "movements", "incident-window">>}

Asks(request) == {Queries(request)[i] : i \in DOMAIN Queries(request)}
Members(s) == {s[i] : i \in DOMAIN s}

\* What was asked is what the command has already come to, in its order.
ProgressInv ==
  /\ command.todo \in Todos(command.name, command.device)
  /\ \A q \in DOMAIN command.got :
       /\ q[1] \in Members(Requests(command.name, command.device)) /\ q \in Asks(q[1])
       /\ q[1] \in Members(command.todo) => q[1] = Head(command.todo) /\ command.query > 0
       /\ q[2] # "search" =>
            \/ command.todo = <<>>
            \/ command.todo = <<"incident-window">> /\ command.query > 2
  /\ \A request \in Members(Requests(command.name, command.device)) \ Members(command.todo) :
       Asks(request) \subseteq DOMAIN command.got
  /\ command.todo # <<>> =>
       /\ command.query \in 0 .. Len(Queries(Head(command.todo)))
       /\ \A i \in 1 .. command.query - 1 : Queries(Head(command.todo))[i] \in DOMAIN command.got
  /\ command.answered # "none" =>
       /\ command.answered \in Members(Requests(command.name, command.device)) \ Members(command.todo)
       /\ command.query = 0

\* The request that is being answered or has just been.
Current == {r \in AllRequests :
              \/ command.todo # <<>> /\ command.query > 0 /\ r = Head(command.todo)
              \/ command.answered = r}

\* The tables have what they had when the request was accepted.
BeforeInv ==
  LET before == command.before
  IN /\ before.events \subseteq events
     /\ \A c \in Companies, d \in Devices : before.links[<<c, d>>] # "NONE" =>
          links[<<c, d>>] # "NONE" /\ before.registered[d] # Never
     /\ \A d \in Devices : before.registered[d] # Never => registered[d] = before.registered[d]

\* The page is full, of events that are no older.
Full(page, e) == Cardinality(page) = command.limit /\ \A f \in page : e.at <= f.at

AnswerIsTrue(q, r) ==
  /\ q[2] = "search" => r \subseteq events /\ \A e \in r : e.table = q[3] /\ Applies(e, q)
  /\ q[2] = "ids" => \A d \in r : \E e \in OwnEvents(events, d) : InWindow(e)
  /\ q[2] = "seen" => \A d \in DOMAIN r : \E e \in OwnEvents(events, d) : e.at = r[d]
  /\ q[3] = "links" => \A d \in Devices : r[<<Own, d>>] # "NONE" => links[<<Own, d>>] # "NONE"

AnswerIsComplete(q, r) ==
  LET before == command.before
      known == {e \in before.events : e.table = q[3] /\ Applies(e, q)}
  IN /\ q[2] = "search" => \A e \in known : e \in r \/ Full(r, e)
     /\ q[2] = "ids" => \A e \in known : e.device \in r
     /\ q[2] = "seen" => \A e \in known : e.device \in DOMAIN r /\ e.at <= r[e.device]
     /\ q[3] = "links" => \A d \in Devices : before.links[<<Own, d>>] # "NONE" => r[<<Own, d>>] # "NONE"
     /\ q[3] = "devices" => \A d \in Devices : before.registered[d] # Never => r[d] = before.registered[d]

\* What a list has shown, the devices of a range and the movements have as well.
KnowsMore(p, shown, q, r) ==
  p[2] = "search" /\ p[3] = q[3] =>
    /\ q[2] = "ids" => \A e \in shown : e.device \in r
    /\ q[1] = "movements" /\ p[1] \in {"network", "lifecycle"} =>
         \A e \in shown : e \in r \/ Full(r, e)

AnswersAreTrue == \A q \in DOMAIN command.got : AnswerIsTrue(q, command.got[q])
AnswersAreComplete ==
  \A q \in DOMAIN command.got : q[1] \in Current => AnswerIsComplete(q, command.got[q])
LaterKnowsMore ==
  \A p, q \in DOMAIN command.got : KnowsMore(p, command.got[p], q, command.got[q])

\* Movements are of one device.
DeviceInv == command.name = "movements" => command.device # AnyDevice

CommandInv ==
  /\ CommandType /\ ProgressInv /\ BeforeInv /\ DeviceInv
  /\ AnswersAreTrue /\ AnswersAreComplete /\ LaterKnowsMore

IInv == TypeOK /\ TablesInv /\ (Running => CommandInv)

-----------------------------------------------------------------------------
(* The operators of the model.                                               *)

\* Among the events of a finite set one is the newest.
LEMMA NewestIsThere ==
  ASSUME NEW rows, IsFiniteSet(rows), rows # {}, \A e \in rows : e.at \in Nat
  PROVE  \E e \in rows : \A f \in rows : f.at <= e.at
<1> DEFINE newer(e) == {f \in rows : f.at > e.at}
           families == {newer(e) : e \in rows}
<1>1. families # {} /\ families \subseteq FiniteSubsetsOf(rows)
  <2>1. \A e \in rows : newer(e) \in SUBSET rows /\ IsFiniteSet(newer(e))
    BY FS_Subset
  <2> QED
    BY <2>1 DEF FiniteSubsetsOf
<1>2. PICK least \in families : \A y \in families : <<y, least>> \notin StrictSubsetOrdering(rows)
  <2> HIDE DEF families
  <2> QED
    BY <1>1, FS_StrictSubsetOrderingWellFounded, WFMin
<1>3. PICK e \in rows : least = newer(e)
  BY <1>2
<1>4. SUFFICES ASSUME NEW f \in rows, ~(f.at <= e.at)
               PROVE  FALSE
  OBVIOUS
<1>5. newer(f) \subseteq newer(e) /\ f \in newer(e) /\ f \notin newer(f)
  BY <1>4
<1>6. newer(f) \in families /\ newer(f) \subseteq rows /\ newer(e) \subseteq rows
  OBVIOUS
<1>7. <<newer(f), newer(e)>> \in StrictSubsetOrdering(rows)
  <2> HIDE DEF newer
  <2> QED
    BY <1>5, <1>6 DEF StrictSubsetOrdering
<1> QED
  BY <1>2, <1>3, <1>6, <1>7

\* What a page of the newest events leaves out is no newer than the page, which is
\* full then.
LEMMA PageLeavesOut ==
  ASSUME NEW rows, IsFiniteSet(rows), NEW limit \in Nat, NEW page \in Newest(rows, limit)
  PROVE  /\ page \subseteq rows /\ IsFiniteSet(page) /\ Cardinality(page) \in Nat
         /\ Cardinality(page) <= limit
         /\ \A e \in rows \ page : Cardinality(page) = limit /\ \A f \in page : e.at <= f.at
<1>1. /\ page \subseteq rows
      /\ Cardinality(page) = IF Cardinality(rows) < limit THEN Cardinality(rows) ELSE limit
      /\ \A e \in page, f \in rows \ page : f.at <= e.at
  BY DEF Newest
<1>2. /\ IsFiniteSet(page) /\ Cardinality(page) \in Nat /\ Cardinality(rows) \in Nat
      /\ Cardinality(rows) = Cardinality(page) => rows = page
  BY <1>1, FS_Subset, FS_CardinalityType
<1>3. rows # page => Cardinality(page) = limit
  BY <1>1, <1>2
<1> QED
  BY <1>1, <1>2, <1>3

\* A list is full, of events that are no older.
TooOld(e, page, limit) == Cardinality(page) = limit /\ \A f \in page : e.at <= f.at

\* The newest of two lists: an event that was too old for a list that is full is
\* too old for the two together.
LEMMA MergedPage ==
  ASSUME NEW N, NEW L, IsFiniteSet(N), IsFiniteSet(L), \A f \in N \union L : f.at \in Nat,
         NEW limit \in Nat, NEW page \in Newest(N \union L, limit),
         NEW e, e.at \in Nat, e \notin page,
         NEW P \in {N, L}, e \in P \/ TooOld(e, P, limit)
  PROVE  TooOld(e, page, limit)
<1> USE DEF TooOld
<1> DEFINE rows == N \union L
<1>1. IsFiniteSet(rows) /\ P \subseteq rows /\ IsFiniteSet(P)
  BY FS_Union
<1>2. /\ page \subseteq rows /\ IsFiniteSet(page) /\ Cardinality(page) \in Nat
      /\ \A g \in rows \ page : Cardinality(page) = limit /\ \A f \in page : g.at <= f.at
  BY <1>1, PageLeavesOut
<1>3. CASE e \in P
  BY <1>1, <1>2, <1>3
<1>4. CASE e \notin P /\ Cardinality(P) = limit /\ \A f \in P : e.at <= f.at
  <2>1. /\ Cardinality(page) = IF Cardinality(rows) < limit THEN Cardinality(rows) ELSE limit
        /\ Cardinality(P) <= Cardinality(rows) /\ Cardinality(rows) \in Nat
    BY <1>1, FS_Subset, FS_CardinalityType DEF Newest
  <2>2. Cardinality(page) = limit
    BY <1>4, <2>1
  <2>3. ASSUME NEW f \in page, ~(e.at <= f.at)
        PROVE  FALSE
    <3>1. f \notin P
      BY <1>4, <2>3
    <3>2. P \subseteq page => P = page
      BY <1>2, <1>4, <2>2, FS_Subset
    <3>3. PICK g \in P : g \notin page
      BY <3>1, <3>2, <2>3
    <3>4. g \in rows /\ g.at <= f.at /\ e.at <= g.at /\ g.at \in Nat /\ f.at \in Nat
      BY <1>1, <1>2, <1>4, <2>3, <3>3
    <3> QED
      BY <2>3, <3>4
  <2> QED
    BY <2>2, <2>3
<1> QED
  BY <1>3, <1>4

\* The latest instants of each device.
LEMMA LatestSeenDef ==
  ASSUME NEW rows, IsFiniteSet(rows), \A e \in rows : e.at \in Nat
  PROVE  /\ DOMAIN LatestSeen(rows) = {e.device : e \in rows}
         /\ \A d \in DOMAIN LatestSeen(rows) :
              \E e \in rows : e.device = d /\ e.at = LatestSeen(rows)[d]
         /\ \A e \in rows : e.at <= LatestSeen(rows)[e.device]
<1> DEFINE Newest1(d, e) == e.device = d /\ \A f \in rows : f.device = d => f.at <= e.at
<1>1. ASSUME NEW d \in {e.device : e \in rows}
      PROVE  \E e \in rows : Newest1(d, e)
  <2> DEFINE own == {e \in rows : e.device = d}
  <2>1. IsFiniteSet(own) /\ own # {} /\ \A e \in own : e.at \in Nat
    BY FS_Subset
  <2>2. PICK e \in own : \A f \in own : f.at <= e.at
    <3> HIDE DEF own
    <3> QED
      BY <2>1, NewestIsThere
  <2> QED
    BY <2>2
<1>2. /\ DOMAIN LatestSeen(rows) = {e.device : e \in rows}
      /\ \A d \in {e.device : e \in rows} : LatestSeen(rows)[d] = (CHOOSE e \in rows : Newest1(d, e)).at
  BY DEF LatestSeen
<1>3. ASSUME NEW d \in {e.device : e \in rows}
      PROVE  \E e \in rows : Newest1(d, e) /\ e.at = LatestSeen(rows)[d]
  <2> HIDE DEF Newest1
  <2> QED
    BY <1>1, <1>2
<1> QED
  BY <1>2, <1>3

\* The queries of each request.
Search(request, table) == <<request, "search", table>>
Window(read, table) == <<"incident-window", read, table>>

LEMMA QueryList ==
  /\ Queries("network") = <<Search("network", "network")>>
  /\ Queries("lifecycle") = <<Search("lifecycle", "lifecycle")>>
  /\ Queries("movements") = <<Search("movements", "network"), Search("movements", "lifecycle")>>
  /\ Queries("incident-window") =
       <<Search("incident-window", "network"), Search("incident-window", "lifecycle"),
         Window("ids", "network"), Window("ids", "lifecycle"),
         Window("seen", "network"), Window("seen", "lifecycle"),
         Window("list", "links"), Window("list", "devices")>>
<1>1. Queries("network") = <<Search("network", "network")>>
  BY DEF Queries, Search
<1>2. Queries("lifecycle") = <<Search("lifecycle", "lifecycle")>>
  BY DEF Queries, Search
<1>3. Queries("movements") = <<Search("movements", "network"), Search("movements", "lifecycle")>>
  BY DEF Queries, SearchBoth, Search
<1>4. Queries("incident-window")
        = <<Search("incident-window", "network"), Search("incident-window", "lifecycle")>>
            \o <<Window("ids", "network"), Window("ids", "lifecycle"),
                 Window("seen", "network"), Window("seen", "lifecycle"),
                 Window("list", "links"), Window("list", "devices")>>
  BY DEF Queries, SearchBoth, Search, Window
<1>5. ASSUME NEW a, NEW b, NEW c, NEW d, NEW e, NEW f, NEW g, NEW h
      PROVE  <<a, b>> \o <<c, d, e, f, g, h>> = <<a, b, c, d, e, f, g, h>>
  <2> DEFINE S == {a, b, c, d, e, f, g, h}
             s == <<a, b>>
             t == <<c, d, e, f, g, h>>
             u == <<a, b, c, d, e, f, g, h>>
  <2>1. s \in Seq(S) /\ t \in Seq(S) /\ u \in Seq(S) /\ Len(s) = 2 /\ Len(t) = 6 /\ Len(u) = 8
    OBVIOUS
  <2>2. \A i \in 1 .. 8 : u[i] = IF i <= 2 THEN s[i] ELSE t[i - 2]
    <3>1. /\ s[1] = a /\ s[2] = b
          /\ t[1] = c /\ t[2] = d /\ t[3] = e /\ t[4] = f /\ t[5] = g /\ t[6] = h
          /\ u[1] = a /\ u[2] = b /\ u[3] = c /\ u[4] = d /\ u[5] = e /\ u[6] = f /\ u[7] = g /\ u[8] = h
      OBVIOUS
    <3>2. \A i \in 1 .. 8 : i \in {1, 2, 3, 4, 5, 6, 7, 8}
      OBVIOUS
    <3> HIDE DEF s, t, u
    <3> QED
      BY <3>1, <3>2
  <2> HIDE DEF S, s, t, u
  <2>3. s \o t \in Seq(S) /\ Len(s \o t) = 8 /\ \A i \in 1 .. 8 : (s \o t)[i] = u[i]
    <3>1. /\ s \o t \in Seq(S) /\ Len(s \o t) = Len(s) + Len(t)
          /\ \A i \in 1 .. Len(s) + Len(t) :
               (s \o t)[i] = IF i <= Len(s) THEN s[i] ELSE t[i - Len(s)]
      BY <2>1, ConcatProperties
    <3>2. Len(s) = 2 /\ Len(t) = 6 /\ Len(s) + Len(t) = 8
      BY <2>1
    <3>3. \A i \in 1 .. 8 : (s \o t)[i] = u[i]
      <4>1. \A i \in 1 .. 8 : (s \o t)[i] = IF i <= 2 THEN s[i] ELSE t[i - 2]
        BY <3>1, <3>2
      <4> QED
        BY <2>2, <4>1
    <3> QED
      BY <3>1, <3>2, <3>3
  <2>4. s \o t = u
    BY <2>1, <2>3, SeqEqual
  <2> QED
    BY <2>4 DEF s, t, u
<1> QED
  BY <1>1, <1>2, <1>3, <1>4, <1>5

\* What the queries of a request are like.
QueryKind(request, k, q) ==
  /\ q \in Asks(request) /\ q[1] = request /\ q[2] \in {"search", "ids", "seen", "list"}
  /\ q[2] = "list" => q[3] \in {"links", "devices"}
  /\ q[2] # "list" => q[3] \in {"network", "lifecycle"}
  /\ q[2] # "search" => request = "incident-window" /\ k > 2
  /\ request = "incident-window" /\ q[2] = "search" => k <= 2
  /\ request \in {"network", "lifecycle"} => q[3] = request

LEMMA QueryKinds ==
  ASSUME NEW request \in AllRequests
  PROVE  /\ Len(Queries(request)) \in Nat \ {0} /\ DOMAIN Queries(request) = 1 .. Len(Queries(request))
         /\ \A k \in 1 .. Len(Queries(request)) : QueryKind(request, k, Queries(request)[k])
<1>1. CASE request = "network"
  <2>1. Len(Queries(request)) = 1 /\ Queries(request)[1] = Search("network", "network")
        /\ DOMAIN Queries(request) = 1 .. 1
    BY <1>1, QueryList
  <2> QED
    BY <1>1, <2>1 DEF Search, Asks, QueryKind
<1>2. CASE request = "lifecycle"
  <2>1. Len(Queries(request)) = 1 /\ Queries(request)[1] = Search("lifecycle", "lifecycle")
        /\ DOMAIN Queries(request) = 1 .. 1
    BY <1>2, QueryList
  <2> QED
    BY <1>2, <2>1 DEF Search, Asks, QueryKind
<1>3. CASE request = "movements"
  <2>1. /\ Len(Queries(request)) = 2 /\ DOMAIN Queries(request) = 1 .. 2
        /\ Queries(request)[1] = Search("movements", "network")
        /\ Queries(request)[2] = Search("movements", "lifecycle")
    BY <1>3, QueryList
  <2> QED
    BY <1>3, <2>1 DEF Search, Asks, QueryKind
<1>4. CASE request = "incident-window"
  <2>1. /\ Len(Queries(request)) = 8 /\ DOMAIN Queries(request) = 1 .. 8
        /\ Queries(request)[1] = Search("incident-window", "network")
        /\ Queries(request)[2] = Search("incident-window", "lifecycle")
        /\ Queries(request)[3] = Window("ids", "network")
        /\ Queries(request)[4] = Window("ids", "lifecycle")
        /\ Queries(request)[5] = Window("seen", "network")
        /\ Queries(request)[6] = Window("seen", "lifecycle")
        /\ Queries(request)[7] = Window("list", "links")
        /\ Queries(request)[8] = Window("list", "devices")
    BY <1>4, QueryList
  <2>2. \A k \in 1 .. 8 : k \in {1, 2, 3, 4, 5, 6, 7, 8}
    OBVIOUS
  <2>3. ASSUME NEW k \in 1 .. 8
        PROVE  QueryKind(request, k, Queries(request)[k])
    <3>1. Queries(request)[k] \in Asks(request)
      BY <2>1 DEF Asks
    <3>2. /\ k <= 2 => \E table \in {"network", "lifecycle"} : Queries(request)[k] = Search(request, table)
          /\ k > 2 => \/ \E read \in {"ids", "seen"}, table \in {"network", "lifecycle"} :
                           Queries(request)[k] = Window(read, table)
                     \/ \E table \in {"links", "devices"} : Queries(request)[k] = Window("list", table)
      BY <1>4, <2>1, <2>2
    <3>3. CASE k <= 2
      <4>1. PICK table \in {"network", "lifecycle"} : Queries(request)[k] = <<request, "search", table>>
        BY <3>2, <3>3 DEF Search
      <4> QED
        BY <1>4, <3>1, <3>3, <4>1 DEF QueryKind
    <3>4. CASE k > 2
      <4>1. CASE \E read \in {"ids", "seen"}, table \in {"network", "lifecycle"} :
                   Queries(request)[k] = Window(read, table)
        BY <1>4, <3>1, <3>4, <4>1 DEF Window, QueryKind
      <4>2. CASE \E table \in {"links", "devices"} : Queries(request)[k] = Window("list", table)
        BY <1>4, <3>1, <3>4, <4>2 DEF Window, QueryKind
      <4> QED
        BY <3>2, <3>4, <4>1, <4>2
    <3> QED
      BY <3>3, <3>4
  <2> QED
    BY <1>4, <2>1, <2>3
<1> QED
  BY <1>1, <1>2, <1>3, <1>4 DEF AllRequests

\* The queries that the answers are made of.
LEMMA AskedForTheAnswers ==
  /\ \A table \in {"network", "lifecycle"} :
       /\ Search(table, table) \in Asks(table)
       /\ Search("movements", table) \in Asks("movements")
       /\ Search("incident-window", table) \in Asks("incident-window")
       /\ Window("ids", table) \in Asks("incident-window")
       /\ Window("seen", table) \in Asks("incident-window")
  /\ \A table \in {"links", "devices"} : Window("list", table) \in Asks("incident-window")
<1>1. /\ Search("network", "network") \in Asks("network")
      /\ Search("lifecycle", "lifecycle") \in Asks("lifecycle")
  BY QueryList DEF Asks
<1>2. /\ Search("movements", "network") \in Asks("movements")
      /\ Search("movements", "lifecycle") \in Asks("movements")
  BY QueryList DEF Asks
<1>3. /\ 1 \in 1 .. 8 /\ 2 \in 1 .. 8 /\ 3 \in 1 .. 8 /\ 4 \in 1 .. 8
      /\ 5 \in 1 .. 8 /\ 6 \in 1 .. 8 /\ 7 \in 1 .. 8 /\ 8 \in 1 .. 8
  OBVIOUS
<1>4. /\ Search("incident-window", "network") \in Asks("incident-window")
      /\ Search("incident-window", "lifecycle") \in Asks("incident-window")
      /\ Window("ids", "network") \in Asks("incident-window")
      /\ Window("ids", "lifecycle") \in Asks("incident-window")
      /\ Window("seen", "network") \in Asks("incident-window")
      /\ Window("seen", "lifecycle") \in Asks("incident-window")
      /\ Window("list", "links") \in Asks("incident-window")
      /\ Window("list", "devices") \in Asks("incident-window")
  BY <1>3, QueryList DEF Asks
<1> QED
  BY <1>1, <1>2, <1>4

LEMMA Tuple0 == Members(<<>>) = {}
  BY DEF Members

LEMMA Tuple1 ==
  ASSUME NEW a
  PROVE  /\ <<a>> # <<>> /\ Head(<<a>>) = a /\ Tail(<<a>>) = <<>>
         /\ Members(<<a>>) = {a}
<1>1. <<a>> # <<>> /\ Head(<<a>>) = a
  OBVIOUS
<1>2. Tail(<<a>>) = <<>>
  OBVIOUS
<1>3. Members(<<a>>) = {a}
  BY DEF Members
<1> QED
  BY <1>1, <1>2, <1>3

LEMMA Tuple2 ==
  ASSUME NEW a, NEW b
  PROVE  /\ <<a, b>> # <<>> /\ Head(<<a, b>>) = a /\ Tail(<<a, b>>) = <<b>>
         /\ Members(<<a, b>>) = {a, b}
<1>1. <<a, b>> # <<>> /\ Head(<<a, b>>) = a
  OBVIOUS
<1>2. Tail(<<a, b>>) = <<b>>
  OBVIOUS
<1>3. Members(<<a, b>>) = {a, b}
  BY DEF Members
<1> QED
  BY <1>1, <1>2, <1>3

LEMMA Tuple3 ==
  ASSUME NEW a, NEW b, NEW c
  PROVE  /\ <<a, b, c>> # <<>> /\ Head(<<a, b, c>>) = a /\ Tail(<<a, b, c>>) = <<b, c>>
         /\ Members(<<a, b, c>>) = {a, b, c}
<1>1. <<a, b, c>> # <<>> /\ Head(<<a, b, c>>) = a
  OBVIOUS
<1>2. Tail(<<a, b, c>>) = <<b, c>>
  OBVIOUS
<1>3. Members(<<a, b, c>>) = {a, b, c}
  BY DEF Members
<1> QED
  BY <1>1, <1>2, <1>3

LEMMA Tuple4 ==
  ASSUME NEW a, NEW b, NEW c, NEW d
  PROVE  /\ <<a, b, c, d>> # <<>> /\ Head(<<a, b, c, d>>) = a /\ Tail(<<a, b, c, d>>) = <<b, c, d>>
         /\ Members(<<a, b, c, d>>) = {a, b, c, d}
<1>1. <<a, b, c, d>> # <<>> /\ Head(<<a, b, c, d>>) = a
  OBVIOUS
<1>2. Tail(<<a, b, c, d>>) = <<b, c, d>>
  OBVIOUS
<1>3. Members(<<a, b, c, d>>) = {a, b, c, d}
  BY DEF Members
<1> QED
  BY <1>1, <1>2, <1>3

\* The requests of a command follow one another.
TodoStep(name, d, todo) ==
  /\ todo \in Seq(AllRequests) /\ Members(todo) \subseteq Members(Requests(name, d))
  /\ todo = <<>> => Members(todo) = {}
  /\ todo # <<>> =>
       /\ Head(todo) \in AllRequests /\ Head(todo) \in Members(todo)
       /\ Tail(todo) \in Todos(name, d) /\ Members(Tail(todo)) = Members(todo) \ {Head(todo)}
       /\ Head(todo) = "incident-window" => todo = <<"incident-window">> /\ Tail(todo) = <<>>
       /\ Head(todo) \in {"network", "lifecycle"} =>
            {"movements", "incident-window"} \intersect Members(Requests(name, d))
              \subseteq Members(todo)
  /\ Members(Requests(name, d)) \subseteq AllRequests

LEMMA TodoSteps ==
  ASSUME NEW name \in AllCommands, NEW d, NEW todo \in Todos(name, d)
  PROVE  TodoStep(name, d, todo)
<1> SUFFICES
      /\ todo \in Seq(AllRequests) /\ Members(todo) \subseteq Members(Requests(name, d))
      /\ todo = <<>> => Members(todo) = {}
      /\ todo # <<>> =>
           /\ Head(todo) \in AllRequests /\ Head(todo) \in Members(todo)
           /\ Tail(todo) \in Todos(name, d) /\ Members(Tail(todo)) = Members(todo) \ {Head(todo)}
           /\ Head(todo) = "incident-window" => todo = <<"incident-window">> /\ Tail(todo) = <<>>
           /\ Head(todo) \in {"network", "lifecycle"} =>
                {"movements", "incident-window"} \intersect Members(Requests(name, d))
                  \subseteq Members(todo)
      /\ Members(Requests(name, d)) \subseteq AllRequests
  BY DEF TodoStep
<1> DEFINE N == "network"
           L == "lifecycle"
           M == "movements"
           I == "incident-window"
<1>1. CASE name # "export-json"
  <2>1. Requests(name, d) = <<name>> /\ Todos(name, d) = {<<>>, <<name>>} /\ name \in AllRequests
    BY <1>1 DEF Requests, Todos, AllCommands, AllRequests
  <2>2. <<name>> \in Seq(AllRequests) /\ <<>> \in Seq(AllRequests)
    BY <2>1
  <2>3. CASE todo = <<>>
    BY <2>1, <2>2, <2>3, Tuple0, Tuple1
  <2>4. CASE todo = <<name>>
    <3>1. todo # <<>> /\ Head(todo) = name /\ Tail(todo) = <<>> /\ Members(todo) = {name}
      BY <2>4, Tuple1
    <3> QED
      BY <2>1, <2>2, <2>4, <3>1, Tuple0
  <2> QED
    BY <2>1, <2>3, <2>4
<1>2. CASE name = "export-json" /\ d = AnyDevice
  <2>1. /\ Requests(name, d) = <<N, L, I>>
        /\ Todos(name, d) = {<<>>, <<I>>, <<L, I>>, <<N, L, I>>}
    BY <1>2 DEF Requests, Todos
  <2>0. Requests(name, d) = <<N, L, I>>
    BY <2>1
  <2>2. <<N, L, I>> \in Seq(AllRequests) /\ <<L, I>> \in Seq(AllRequests) /\ <<I>> \in Seq(AllRequests)
        /\ <<>> \in Seq(AllRequests)
    BY DEF AllRequests
  <2>3. Members(Requests(name, d)) = {N, L, I}
    BY <2>0 DEF Members
  <2>4. CASE todo = <<>>
    BY <2>2, <2>3, <2>4, Tuple0, Tuple1, Tuple2, Tuple3, Tuple4 DEF AllRequests
  <2>5. CASE todo = <<I>>
    <3>1. todo # <<>> /\ Head(todo) = I /\ Tail(todo) = <<>> /\ Members(todo) = {I}
      BY <2>5, Tuple1
    <3>2. Members(Tail(todo)) = {}
      BY <3>1, Tuple0
    <3>3. todo \in Seq(AllRequests) /\ Tail(todo) \in Todos(name, d)
      BY <2>1, <2>2, <2>5, <3>1
    <3> QED
      BY <2>3, <2>5, <3>1, <3>2, <3>3 DEF AllRequests
  <2>6. CASE todo = <<L, I>>
    <3>1. todo # <<>> /\ Head(todo) = L /\ Tail(todo) = <<I>> /\ Members(todo) = {L, I}
      BY <2>6, Tuple2
    <3>2. Members(Tail(todo)) = {I}
      BY <3>1, Tuple1
    <3>3. todo \in Seq(AllRequests) /\ Tail(todo) \in Todos(name, d)
      BY <2>1, <2>2, <2>6, <3>1
    <3>4. Members(Tail(todo)) = Members(todo) \ {Head(todo)} /\ Members(todo) \subseteq Members(Requests(name, d))
      BY <2>3, <3>1, <3>2
    <3>5. Members(Requests(name, d)) \subseteq AllRequests /\ Head(todo) \in AllRequests
      BY <2>3, <3>1 DEF AllRequests
    <3> QED
      BY <2>3, <3>1, <3>3, <3>4, <3>5
  <2>7. CASE todo = <<N, L, I>>
    <3>1. todo # <<>> /\ Head(todo) = N /\ Tail(todo) = <<L, I>> /\ Members(todo) = {N, L, I}
      BY <2>7, Tuple3
    <3>2. Members(Tail(todo)) = {L, I}
      BY <3>1, Tuple2
    <3>3. todo \in Seq(AllRequests) /\ Tail(todo) \in Todos(name, d)
      BY <2>1, <2>2, <2>7, <3>1
    <3>4. Members(Tail(todo)) = Members(todo) \ {Head(todo)} /\ Members(todo) \subseteq Members(Requests(name, d))
      BY <2>3, <3>1, <3>2
    <3>5. Members(Requests(name, d)) \subseteq AllRequests /\ Head(todo) \in AllRequests
      BY <2>3, <3>1 DEF AllRequests
    <3> QED
      BY <2>3, <3>1, <3>3, <3>4, <3>5
  <2> QED
    BY <2>1, <2>4, <2>5, <2>6, <2>7
<1>3. CASE name = "export-json" /\ d # AnyDevice
  <2>1. /\ Requests(name, d) = <<N, L, M, I>>
        /\ Todos(name, d) = {<<>>, <<I>>, <<M, I>>, <<L, M, I>>, <<N, L, M, I>>}
    BY <1>3 DEF Requests, Todos
  <2>0. Requests(name, d) = <<N, L, M, I>>
    BY <2>1
  <2>2. /\ <<N, L, M, I>> \in Seq(AllRequests) /\ <<L, M, I>> \in Seq(AllRequests)
        /\ <<M, I>> \in Seq(AllRequests) /\ <<I>> \in Seq(AllRequests) /\ <<>> \in Seq(AllRequests)
    BY DEF AllRequests
  <2>3. Members(Requests(name, d)) = {N, L, M, I}
    BY <2>0 DEF Members
  <2>4. CASE todo = <<>>
    BY <2>2, <2>3, <2>4, Tuple0, Tuple1, Tuple2, Tuple3, Tuple4 DEF AllRequests
  <2>5. CASE todo = <<I>>
    <3>1. todo # <<>> /\ Head(todo) = I /\ Tail(todo) = <<>> /\ Members(todo) = {I}
      BY <2>5, Tuple1
    <3>2. Members(Tail(todo)) = {}
      BY <3>1, Tuple0
    <3>3. todo \in Seq(AllRequests) /\ Tail(todo) \in Todos(name, d)
      BY <2>1, <2>2, <2>5, <3>1
    <3> QED
      BY <2>3, <2>5, <3>1, <3>2, <3>3 DEF AllRequests
  <2>6. CASE todo = <<M, I>>
    <3>1. todo # <<>> /\ Head(todo) = M /\ Tail(todo) = <<I>> /\ Members(todo) = {M, I}
      BY <2>6, Tuple2
    <3>2. Members(Tail(todo)) = {I}
      BY <3>1, Tuple1
    <3>3. todo \in Seq(AllRequests) /\ Tail(todo) \in Todos(name, d)
      BY <2>1, <2>2, <2>6, <3>1
    <3>4. Members(Tail(todo)) = Members(todo) \ {Head(todo)} /\ Members(todo) \subseteq Members(Requests(name, d))
      BY <2>3, <3>1, <3>2
    <3>5. Members(Requests(name, d)) \subseteq AllRequests /\ Head(todo) \in AllRequests
      BY <2>3, <3>1 DEF AllRequests
    <3> QED
      BY <2>3, <3>1, <3>3, <3>4, <3>5
  <2>7. CASE todo = <<L, M, I>>
    <3>1. todo # <<>> /\ Head(todo) = L /\ Tail(todo) = <<M, I>> /\ Members(todo) = {L, M, I}
      BY <2>7, Tuple3
    <3>2. Members(Tail(todo)) = {M, I}
      BY <3>1, Tuple2
    <3>3. todo \in Seq(AllRequests) /\ Tail(todo) \in Todos(name, d)
      BY <2>1, <2>2, <2>7, <3>1
    <3>4. Members(Tail(todo)) = Members(todo) \ {Head(todo)} /\ Members(todo) \subseteq Members(Requests(name, d))
      BY <2>3, <3>1, <3>2
    <3>5. Members(Requests(name, d)) \subseteq AllRequests /\ Head(todo) \in AllRequests
      BY <2>3, <3>1 DEF AllRequests
    <3> QED
      BY <2>3, <3>1, <3>3, <3>4, <3>5
  <2>8. CASE todo = <<N, L, M, I>>
    <3>1. todo # <<>> /\ Head(todo) = N /\ Tail(todo) = <<L, M, I>> /\ Members(todo) = {N, L, M, I}
      BY <2>8, Tuple4
    <3>2. Members(Tail(todo)) = {L, M, I}
      <4>1. Members(<<L, M, I>>) = {L, M, I}
        BY DEF Members
      <4>2. Tail(todo) = <<L, M, I>>
        BY <3>1
      <4> QED
        BY <4>1, <4>2
    <3>3. todo \in Seq(AllRequests) /\ Tail(todo) \in Todos(name, d)
      BY <2>1, <2>2, <2>8, <3>1
    <3>4. Members(Tail(todo)) = Members(todo) \ {Head(todo)} /\ Members(todo) \subseteq Members(Requests(name, d))
      BY <2>3, <3>1, <3>2
    <3>5. Members(Requests(name, d)) \subseteq AllRequests /\ Head(todo) \in AllRequests
      BY <2>3, <3>1 DEF AllRequests
    <3> QED
      BY <2>3, <3>1, <3>3, <3>4, <3>5
  <2> QED
    BY <2>1, <2>4, <2>5, <2>6, <2>7, <2>8
<1> QED
  BY <1>1, <1>2, <1>3

LEMMA RequestsAreTodo ==
  ASSUME NEW name \in AllCommands, NEW d
  PROVE  Requests(name, d) \in Todos(name, d) /\ Requests(name, d) # <<>>
<1>1. CASE name # "export-json"
  BY <1>1, Tuple0, Tuple1, Tuple2, Tuple3, Tuple4 DEF Requests, Todos
<1>2. CASE name = "export-json" /\ d = AnyDevice
  BY <1>2, Tuple0, Tuple1, Tuple2, Tuple3, Tuple4 DEF Requests, Todos
<1>3. CASE name = "export-json" /\ d # AnyDevice
  BY <1>3, Tuple0, Tuple1, Tuple2, Tuple3, Tuple4 DEF Requests, Todos
<1> QED
  BY <1>1, <1>2, <1>3

-----------------------------------------------------------------------------
(* The writers: the tables grow.                                             *)

LEMMA InitIInv == Init => IInv
<1> SUFFICES ASSUME Init PROVE IInv
  OBVIOUS
<1>1. now \in Instants /\ 0 \in Instants
  BY TimesAssumption DEF Init, Instants
<1>2. registered \in RegistryTable /\ seen \in RegistryTable
  BY <1>1 DEF Init, RegistryTable
<1>3. links \in LinkTable
  BY DEF Init, LinkTable
<1>4. ~Running /\ events = {}
  BY DEF Init, Running
<1>5. TypeOK
  BY <1>1, <1>2, <1>3, <1>4 DEF TypeOK, RegistryTable, LinkTable
<1>6. \A c \in Companies, d \in Devices : links[<<c, d>>] # "NONE" => registered[d] # Never
  BY <1>1, StartAssumption, TimesAssumption DEF Init, Instants
<1> QED
  BY <1>4, <1>5, <1>6, FS_EmptySet DEF IInv, TablesInv

LEMMA TablesGrow ==
  ASSUME IInv, UNCHANGED command, now' \in Instants,
         registered' \in RegistryTable, seen' \in RegistryTable, links' \in LinkTable,
         events \subseteq events', events' \subseteq Event, IsFiniteSet(events'),
         \A e \in events' : links'[<<e.company, e.device>>] # "NONE",
         \A c \in Companies, d \in Devices : links[<<c, d>>] # "NONE" => links'[<<c, d>>] # "NONE",
         \A c \in Companies, d \in Devices : links'[<<c, d>>] # "NONE" => registered'[d] # Never,
         \A d \in Devices : registered[d] # Never => registered'[d] = registered[d]
  PROVE  IInv'
<1>1. Running' = Running
  BY DEF Running, Idle
<1>2. TypeOK'
  BY <1>1 DEF IInv, TypeOK, RegistryTable, LinkTable, Queries, SearchBoth
<1>3. TablesInv'
  BY DEF TablesInv
<1> SUFFICES ASSUME Running PROVE CommandInv'
  BY <1>1, <1>2, <1>3 DEF IInv
<1>4. CommandInv
  BY DEF IInv
<1>5. CommandType'
  BY <1>4 DEF CommandInv, CommandType, LinkTable, RegistryTable, Event, Instants
<1>6. ProgressInv'
  BY <1>4 DEF CommandInv, ProgressInv
<1>7. BeforeInv'
  BY <1>4 DEF CommandInv, BeforeInv
<1>8. AnswersAreTrue'
  <2>1. \A e, q : Applies(e, q)' = Applies(e, q)
    BY DEF Applies
  <2>2. \A e : InWindow(e)' = InWindow(e)
    BY DEF InWindow
  <2>3. \A d : OwnEvents(events, d) \subseteq OwnEvents(events', d)
    BY DEF OwnEvents
  <2>4. \A d : OwnEvents(events, d)' = OwnEvents(events', d)
    BY DEF OwnEvents
  <2>5. \A d \in Devices : links[<<Own, d>>] # "NONE" => links'[<<Own, d>>] # "NONE"
    BY NamesAssumption
  <2>6. ASSUME NEW q, NEW r, AnswerIsTrue(q, r)
        PROVE  AnswerIsTrue(q, r)'
    BY <2>1, <2>2, <2>3, <2>4, <2>5, <2>6 DEF AnswerIsTrue
  <2> QED
    BY <1>4, <2>6 DEF CommandInv, AnswersAreTrue
<1>9. AnswersAreComplete'
  <2>1. \A q, r : AnswerIsComplete(q, r)' = AnswerIsComplete(q, r)
    BY DEF AnswerIsComplete, Applies, Full
  <2>2. Current' = Current
    BY DEF Current
  <2> QED
    BY <1>4, <2>1, <2>2 DEF CommandInv, AnswersAreComplete
<1>10. LaterKnowsMore'
  <2>1. \A p, q, r, s : KnowsMore(p, r, q, s)' = KnowsMore(p, r, q, s)
    BY DEF KnowsMore, Full
  <2> QED
    BY <1>4, <2>1 DEF CommandInv, LaterKnowsMore
<1>11. DeviceInv'
  BY <1>4 DEF CommandInv, DeviceInv
<1> QED
  BY <1>5, <1>6, <1>7, <1>8, <1>9, <1>10, <1>11 DEF CommandInv

LEMMA TimeIInv ==
  ASSUME IInv, TimePasses
  PROVE  IInv'
<1>1. now' \in Instants
  BY TimesAssumption DEF TimePasses, IInv, TypeOK, Instants
<1>2. UNCHANGED <<registered, seen, links, events, command>>
  BY DEF TimePasses, registry
<1>3. /\ registered \in RegistryTable /\ seen \in RegistryTable /\ links \in LinkTable
      /\ events \subseteq Event /\ \A e \in events : links[<<e.company, e.device>>] # "NONE"
  BY DEF IInv, TypeOK, RegistryTable, LinkTable
<1>4. IsFiniteSet(events) /\ \A c \in Companies, d \in Devices : links[<<c, d>>] # "NONE" => registered[d] # Never
  BY DEF IInv, TablesInv
<1> QED
  BY <1>1, <1>2, <1>3, <1>4, TablesGrow

LEMMA RegisterIInv ==
  ASSUME IInv, NEW d \in Devices, RegisterDevice(d)
  PROVE  IInv'
<1>1. /\ registered \in RegistryTable /\ seen \in RegistryTable /\ links \in LinkTable /\ now \in Instants
      /\ events \subseteq Event /\ \A e \in events : links[<<e.company, e.device>>] # "NONE"
  BY DEF IInv, TypeOK, RegistryTable, LinkTable
<1>2. IsFiniteSet(events) /\ \A c \in Companies, x \in Devices : links[<<c, x>>] # "NONE" => registered[x] # Never
  BY DEF IInv, TablesInv
<1>3. UNCHANGED <<now, links, events, command>>
  BY DEF RegisterDevice
<1>4. registered' \in RegistryTable /\ seen' \in RegistryTable
      /\ \A x \in Devices : registered[x] # Never => registered'[x] = registered[x]
  BY <1>1 DEF RegisterDevice, RegistryTable
<1>5. \A c \in Companies, x \in Devices : links[<<c, x>>] # "NONE" => registered'[x] # Never
  BY <1>2, <1>4
<1> QED
  BY <1>1, <1>2, <1>3, <1>4, <1>5, TablesGrow

LEMMA LinkIInv ==
  ASSUME IInv, NEW c \in Companies, NEW d \in Devices, Link(c, d) \/ Revoke(c, d)
  PROVE  IInv'
<1>1. /\ registered \in RegistryTable /\ seen \in RegistryTable /\ links \in LinkTable /\ now \in Instants
      /\ events \subseteq Event /\ \A e \in events : links[<<e.company, e.device>>] # "NONE"
  BY DEF IInv, TypeOK, RegistryTable, LinkTable
<1>2. IsFiniteSet(events) /\ \A k \in Companies, x \in Devices : links[<<k, x>>] # "NONE" => registered[x] # Never
  BY DEF IInv, TablesInv
<1>3. UNCHANGED <<now, registered, seen, events, command>>
  BY DEF Link, Revoke
<1>4. PICK status \in {"ACTIVE", "REVOKED_BY_DEVICE"} : links' = [links EXCEPT ![<<c, d>>] = status]
  BY DEF Link, Revoke
<1>5. registered[d] # Never
  BY <1>2 DEF Link, Revoke
<1>6. links' \in LinkTable
      /\ \A pair \in Companies \X Devices : links'[pair] = IF pair = <<c, d>> THEN status ELSE links[pair]
  BY <1>1, <1>4 DEF LinkTable
<1>7. \A k \in Companies, x \in Devices : links'[<<k, x>>] = IF k = c /\ x = d THEN status ELSE links[<<k, x>>]
  BY <1>6
<1>8. \A k \in Companies, x \in Devices : links[<<k, x>>] # "NONE" => links'[<<k, x>>] # "NONE"
  BY <1>7
<1>9. \A k \in Companies, x \in Devices : links'[<<k, x>>] # "NONE" => registered[x] # Never
  BY <1>2, <1>5, <1>7
<1>10. \A e \in events : e.company \in Companies /\ e.device \in Devices
  BY <1>1 DEF Event
<1>11. \A e \in events : links'[<<e.company, e.device>>] # "NONE"
  BY <1>1, <1>8, <1>10
<1> QED
  BY <1>1, <1>2, <1>3, <1>6, <1>8, <1>9, <1>11, TablesGrow

LEMMA EventsIInv ==
  ASSUME IInv, NEW new, IsFiniteSet(new), new \subseteq Event,
         \A e \in new : links[<<e.company, e.device>>] # "NONE",
         events' = events \union new, seen' \in RegistryTable,
         UNCHANGED <<now, registered, links, command>>
  PROVE  IInv'
<1>1. /\ registered \in RegistryTable /\ links \in LinkTable /\ now \in Instants
      /\ events \subseteq Event /\ \A e \in events : links[<<e.company, e.device>>] # "NONE"
  BY DEF IInv, TypeOK, RegistryTable, LinkTable
<1>2. IsFiniteSet(events) /\ \A c \in Companies, x \in Devices : links[<<c, x>>] # "NONE" => registered[x] # Never
  BY DEF IInv, TablesInv
<1>3. IsFiniteSet(events')
  BY <1>2, FS_Union
<1>4. events \subseteq events' /\ events' \subseteq Event
      /\ \A e \in events' : links[<<e.company, e.device>>] # "NONE"
  BY <1>1
<1> QED
  BY <1>1, <1>2, <1>3, <1>4, TablesGrow

LEMMA IngestIInv ==
  ASSUME IInv, NEW c \in Companies, NEW d \in Devices, NEW table \in {"network", "lifecycle"},
         NEW at \in 0 .. now, Ingest(table, c, d, at)
  PROVE  IInv'
<1> DEFINE report == Row(table, c, d, "REPORT", at)
           recovered == Row("lifecycle", c, d, "AGENT_RECOVERED", now)
           new == {report} \union Recovery(c, d)
<1>1. seen \in RegistryTable /\ now \in Instants /\ links[<<c, d>>] = "ACTIVE"
  BY DEF IInv, TypeOK, RegistryTable, Ingest, MayReport
<1>2. at \in Instants
  BY <1>1, TimesAssumption DEF Instants
<1>3. /\ report \in Event /\ report.company = c /\ report.device = d
      /\ recovered \in Event /\ recovered.company = c /\ recovered.device = d
  BY <1>1, <1>2 DEF Row, Event
<1>4. new \subseteq {report, recovered}
  BY DEF Recovery
<1>5. IsFiniteSet({report, recovered})
  <2> HIDE DEF report, recovered
  <2>1. IsFiniteSet({report} \union {recovered})
    BY FS_Singleton, FS_Union
  <2>2. {report} \union {recovered} = {report, recovered}
    OBVIOUS
  <2> QED
    BY <2>1, <2>2
<1>6. /\ events' = events \union new /\ seen' = [seen EXCEPT ![d] = now]
      /\ UNCHANGED <<now, registered, links, command>>
  BY DEF Ingest
<1>7. seen' \in RegistryTable
  BY <1>1, <1>6 DEF RegistryTable
<1> HIDE DEF new, report, recovered
<1>8. IsFiniteSet(new)
  BY <1>4, <1>5, FS_Subset
<1>9. new \subseteq Event /\ \A e \in new : e.company = c /\ e.device = d
  BY <1>3, <1>4
<1> QED
  BY <1>1, <1>6, <1>7, <1>8, <1>9, EventsIInv

LEMMA DetectIInv ==
  ASSUME IInv, NEW d \in Devices, DetectMissedHeartbeats(d)
  PROVE  IInv'
<1> DEFINE linked == {x \in Companies : links[<<x, d>>] = "ACTIVE"}
           missed(c) == Row("lifecycle", c, d, "AGENT_MISSED_HEARTBEAT", now)
           new == {missed(c) : c \in linked}
<1>1. seen \in RegistryTable /\ now \in Instants
  BY DEF IInv, TypeOK, RegistryTable
<1>2. \A c \in Companies : missed(c) \in Event /\ missed(c).company = c /\ missed(c).device = d
  BY <1>1 DEF Row, Event
<1>3. IsFiniteSet(linked)
  BY NamesAssumption, FS_Subset
<1>4. IsFiniteSet(new)
  <2> DEFINE f == [c \in linked |-> missed(c)]
  <2>1. f \in Surjection(linked, new)
    BY DEF Surjection
  <2> HIDE DEF linked, new, f
  <2> QED
    BY <1>3, <2>1, FS_Surjection
<1>5. /\ events' = events \union new
      /\ UNCHANGED <<now, registered, links, command>> /\ seen' = seen
  BY DEF DetectMissedHeartbeats, registry
<1> HIDE DEF missed
<1>6. new \subseteq Event /\ \A e \in new : links[<<e.company, e.device>>] # "NONE"
  BY <1>2
<1> HIDE DEF new, linked
<1> QED
  BY <1>1, <1>4, <1>5, <1>6, EventsIInv

-----------------------------------------------------------------------------
(* The command: its start, its requests and its end.                         *)

LEMMA EndIInv ==
  ASSUME IInv, command' = Idle, UNCHANGED <<now, registry, events>>
  PROVE  IInv'
<1>1. UNCHANGED <<now, registered, seen, links, events>> /\ ~Running'
  BY DEF registry, Running, Idle
<1> QED
  BY <1>1 DEF IInv, TypeOK, TablesInv

LEMMA StartIInv ==
  ASSUME IInv, NEW name \in Commands, NEW w \in Windows, NEW limit \in Limits, NEW d \in Filters,
         StartCommand(name, w, limit, d)
  PROVE  IInv'
<1> DEFINE todo == Requests(name, d)
<1>1. UNCHANGED <<now, registered, seen, links, events>>
  BY DEF StartCommand, registry
<1>2. command' = [name |-> name, window |-> w, limit |-> limit, device |-> d,
                  todo |-> todo, query |-> 0, got |-> <<>>, answered |-> "none", before |-> Tables]
  BY DEF StartCommand
<1>3. name \in AllCommands
  BY NamesAssumption
<1>4. /\ todo \in Todos(name, d) /\ todo # <<>> /\ todo \in Seq(AllRequests)
      /\ Head(todo) \in AllRequests
  <2>1. todo \in Todos(name, d) /\ todo # <<>>
    BY <1>3, RequestsAreTodo
  <2>2. TodoStep(name, d, todo)
    BY <1>3, <2>1, TodoSteps
  <2> HIDE DEF todo
  <2> QED
    BY <2>1, <2>2 DEF TodoStep
<1>5. Len(Queries(Head(todo))) \in Nat \ {0}
  BY <1>4, QueryKinds
<1> HIDE DEF todo
<1>6. /\ command'.name = name /\ command'.window = w /\ command'.limit = limit
      /\ command'.device = d /\ command'.todo = todo /\ command'.query = 0
      /\ DOMAIN command'.got = {} /\ command'.answered = "none" /\ command'.before = Tables
  BY <1>2
<1>7. TablesInv'
  BY <1>1 DEF IInv, TablesInv
<1>8. TypeOK'
  <2>1. /\ command'.name \in Commands /\ command'.window \in Windows /\ command'.limit \in Limits
        /\ command'.query \in 0 .. Len(Queries(Head(command'.todo)))
    BY <1>5, <1>6
  <2>2. \A r : Queries(r)' = Queries(r)
    BY DEF Queries, SearchBoth
  <2> QED
    BY <1>1, <1>6, <2>1, <2>2 DEF IInv, TypeOK
<1>9. Tables \in [events : SUBSET Event, links : LinkTable, registered : RegistryTable]
      /\ Tables.events = events /\ Tables.links = links /\ Tables.registered = registered
  BY DEF Tables, IInv, TypeOK, LinkTable, RegistryTable
<1>10. CommandType'
  <2>1. command' \in [name : Commands, window : Windows, limit : Limits, device : Filters,
               todo : Seq(AllRequests), query : Nat, got : {command'.got},
               answered : AllRequests \union {"none"},
               before : [events : SUBSET Event, links : LinkTable, registered : RegistryTable]]
    <3> HIDE DEF Tables
    <3> QED
      BY <1>2, <1>4, <1>9
  <2> QED
    BY <2>1 DEF CommandType, LinkTable, RegistryTable, Event, Instants, AllRequests
<1>11. ProgressInv'
  <2>1. todo = Requests(name, d)
    BY DEF todo
  <2>2. \A n, x : Requests(n, x)' = Requests(n, x) /\ Todos(n, x)' = Todos(n, x)
    BY DEF Requests, Todos
  <2>3. \A r : Queries(r)' = Queries(r)
    BY DEF Queries, SearchBoth
  <2> QED
    BY <1>4, <1>5, <1>6, <2>1, <2>2, <2>3 DEF ProgressInv, Members
<1>12. BeforeInv'
  <2>1. \A c \in Companies, x \in Devices : links[<<c, x>>] # "NONE" => registered[x] # Never
    BY DEF IInv, TablesInv
  <2> QED
    BY <1>1, <1>6, <1>9, <2>1 DEF BeforeInv
<1>13. AnswersAreTrue' /\ AnswersAreComplete' /\ LaterKnowsMore'
  BY <1>6 DEF AnswersAreTrue, AnswersAreComplete, LaterKnowsMore
<1>14. DeviceInv'
  BY <1>6 DEF StartCommand, DeviceInv
<1> QED
  BY <1>7, <1>8, <1>10, <1>11, <1>12, <1>13, <1>14 DEF IInv, CommandInv

-----------------------------------------------------------------------------
(* A request: its session, and its queries one by one.                       *)

\* What was answered stays as it was while the tables and the command's arguments do.
LEMMA SameAnswers ==
  ASSUME UNCHANGED <<now, registry, events>>,
         command'.window = command.window, command'.limit = command.limit,
         command'.device = command.device
  PROVE  /\ \A q, r : AnswerIsTrue(q, r)' = AnswerIsTrue(q, r)
         /\ \A p, q, r, s : KnowsMore(p, r, q, s)' = KnowsMore(p, r, q, s)
         /\ command'.before = command.before =>
              \A q, r : AnswerIsComplete(q, r)' = AnswerIsComplete(q, r)
<1>1. UNCHANGED <<now, registered, seen, links, events>>
  BY DEF registry
<1>2. \A e, q : Applies(e, q)' = Applies(e, q)
  BY DEF Applies
<1>3. \A e : InWindow(e)' = InWindow(e)
  BY DEF InWindow
<1>4. \A d : OwnEvents(events, d)' = OwnEvents(events, d)
  BY <1>1 DEF OwnEvents
<1>5. \A page, e : Full(page, e)' = Full(page, e)
  BY DEF Full
<1>6. \A q, r : AnswerIsTrue(q, r)' = AnswerIsTrue(q, r)
  BY <1>1, <1>2, <1>3, <1>4 DEF AnswerIsTrue
<1>7. \A p, q, r, s : KnowsMore(p, r, q, s)' = KnowsMore(p, r, q, s)
  BY <1>5 DEF KnowsMore
<1>8. command'.before = command.before =>
        \A q, r : AnswerIsComplete(q, r)' = AnswerIsComplete(q, r)
  BY <1>2, <1>5 DEF AnswerIsComplete
<1> QED
  BY <1>6, <1>7, <1>8

\* The types of the tables are of their own.
LEMMA SameTypes ==
  /\ \A n, x : Requests(n, x)' = Requests(n, x) /\ Todos(n, x)' = Todos(n, x)
  /\ \A r : Queries(r)' = Queries(r) /\ Asks(r)' = Asks(r) /\ Members(r)' = Members(r)
  BY DEF Requests, Todos, Queries, SearchBoth, Asks, Members

LEMMA SessionIInv ==
  ASSUME IInv, RequireAuditorSession
  PROVE  IInv'
<1>1. /\ Running /\ command.todo # <<>> /\ command.query = 0
      /\ UNCHANGED <<now, registry, events>>
      /\ UNCHANGED <<now, registered, seen, links, events>>
      /\ command' = IF now <= SessionEnd
                      THEN [command EXCEPT !.query = 1, !.before = Tables, !.answered = "none"]
                      ELSE Idle
  BY DEF RequireAuditorSession, registry
<1>2. CASE ~(now <= SessionEnd)
  <2>1. command' = Idle
    BY <1>1, <1>2
  <2> QED
    BY <1>1, <2>1, EndIInv
<1>3. CASE now <= SessionEnd
  <2>1. CommandInv /\ CommandType
    BY <1>1 DEF IInv, CommandInv
  <2>2. command' = [command EXCEPT !.query = 1, !.before = Tables, !.answered = "none"]
    BY <1>1, <1>3
  <2>3. /\ command'.name = command.name /\ command'.window = command.window
        /\ command'.limit = command.limit /\ command'.device = command.device
        /\ command'.todo = command.todo /\ command'.got = command.got
        /\ command'.query = 1 /\ command'.answered = "none" /\ command'.before = Tables
    BY <2>1, <2>2 DEF CommandType
  <2>4. Tables \in [events : SUBSET Event, links : LinkTable, registered : RegistryTable]
        /\ Tables.events = events /\ Tables.links = links /\ Tables.registered = registered
    BY DEF Tables, IInv, TypeOK, LinkTable, RegistryTable
  <2>5. CommandType'
    <3>1. command' \in [name : Commands, window : Windows, limit : Limits, device : Filters,
               todo : Seq(AllRequests), query : Nat, got : {command.got},
               answered : AllRequests \union {"none"},
               before : [events : SUBSET Event, links : LinkTable, registered : RegistryTable]]
      <4> HIDE DEF Tables
      <4> QED
        BY <2>1, <2>2, <2>4 DEF CommandType
    <3> QED
      BY <2>3, <3>1 DEF CommandType, LinkTable, RegistryTable, Event, Instants, AllRequests
  <2>6. /\ command.name \in AllCommands /\ command.todo \in Todos(command.name, command.device)
    BY <2>1, NamesAssumption DEF CommandType, CommandInv, ProgressInv
  <2>7. Head(command.todo) \in AllRequests /\ Head(command.todo) \in Members(command.todo)
    <3>1. TodoStep(command.name, command.device, command.todo)
      BY <2>6, TodoSteps
    <3> QED
      BY <1>1, <3>1 DEF TodoStep
  <2>8. Len(Queries(Head(command.todo))) \in Nat \ {0}
    BY <2>7, QueryKinds
  <2>9. \A q \in DOMAIN command.got : q[1] \notin Members(command.todo) /\ q[2] = "search"
    BY <1>1, <2>1 DEF CommandInv, ProgressInv
  <2>10. ProgressInv'
    <3>1. ProgressInv
      BY <2>1 DEF CommandInv
    <3>2. \A q \in DOMAIN command.got :
            q[1] \in Members(Requests(command.name, command.device)) /\ q \in Asks(q[1])
      BY <3>1 DEF ProgressInv
    <3>3. \A request \in Members(Requests(command.name, command.device)) \ Members(command.todo) :
            Asks(request) \subseteq DOMAIN command.got
      BY <3>1 DEF ProgressInv
    <3>4. 1 \in 0 .. Len(Queries(Head(command.todo))) /\ \A i \in 1 .. 1 - 1 : FALSE
      BY <2>8
    <3> QED
      BY <2>3, <2>6, <2>9, <3>2, <3>3, <3>4, SameTypes DEF ProgressInv
  <2>11. BeforeInv'
    <3>1. \A c \in Companies, x \in Devices : links[<<c, x>>] # "NONE" => registered[x] # Never
      BY DEF IInv, TablesInv
    <3> QED
      BY <1>1, <2>3, <2>4, <3>1 DEF BeforeInv
  <2>12. AnswersAreTrue' /\ LaterKnowsMore'
    <3>1. AnswersAreTrue /\ LaterKnowsMore
      BY <2>1 DEF CommandInv
    <3>2. /\ \A q, r : AnswerIsTrue(q, r)' = AnswerIsTrue(q, r)
          /\ \A p, q, r, s : KnowsMore(p, r, q, s)' = KnowsMore(p, r, q, s)
      BY <1>1, <2>3, SameAnswers
    <3> QED
      BY <2>3, <3>1, <3>2 DEF AnswersAreTrue, LaterKnowsMore
  <2>13. AnswersAreComplete'
    <3>1. \A r \in Current' : r = Head(command.todo)
      BY <2>3 DEF Current, AllRequests
    <3> QED
      BY <2>3, <2>7, <2>9, <3>1 DEF AnswersAreComplete
  <2>14. TablesInv'
    BY <1>1 DEF IInv, TablesInv
  <2>15. TypeOK'
    <3>1. /\ command'.name \in Commands /\ command'.window \in Windows /\ command'.limit \in Limits
          /\ command'.query \in 0 .. Len(Queries(Head(command'.todo)))
          /\ \A q \in DOMAIN command'.got : q[2] = "search" => command'.got[q] \subseteq events
      BY <1>1, <2>3, <2>8 DEF IInv, TypeOK
    <3> QED
      BY <1>1, <3>1, SameTypes DEF IInv, TypeOK
  <2>16. DeviceInv'
    BY <2>1, <2>3 DEF CommandInv, DeviceInv
  <2> QED
    BY <2>5, <2>10, <2>11, <2>12, <2>13, <2>14, <2>15, <2>16 DEF IInv, CommandInv
<1> QED
  BY <1>2, <1>3

\* What the events that match a query are like.
LEMMA Matches ==
  ASSUME IInv, NEW q
  PROVE  /\ Matching(q) \subseteq events /\ IsFiniteSet(Matching(q))
         /\ \A e \in events : e.at \in Nat /\ e.company \in Companies /\ e.device \in Devices
<1>1. Matching(q) \subseteq events
  BY DEF Matching
<1>2. IsFiniteSet(events) /\ events \subseteq Event
  BY DEF IInv, TypeOK, TablesInv
<1>3. IsFiniteSet(Matching(q))
  BY <1>1, <1>2, FS_Subset
<1> QED
  BY <1>1, <1>2, <1>3 DEF Event, Instants

\* What a query returns is true, has what was there when the request was accepted,
\* and has what the command has already shown.
LEMMA ResultIsRight ==
  ASSUME IInv, Running, NEW request \in AllRequests, NEW k, NEW q, QueryKind(request, k, q),
         NEW r \in Results(q)
  PROVE  /\ AnswerIsTrue(q, r) /\ AnswerIsComplete(q, r)
         /\ \A p \in DOMAIN command.got : KnowsMore(p, command.got[p], q, r)
<1>1. /\ Matching(q) \subseteq events /\ IsFiniteSet(Matching(q))
      /\ \A e \in events : e.at \in Nat /\ e.company \in Companies /\ e.device \in Devices
  BY Matches
<1>2. \A e : e \in Matching(q) <=> e \in events /\ e.table = q[3] /\ Applies(e, q)
  BY DEF Matching
<1>3. command.limit \in Nat
  BY WindowsAssumption DEF IInv, CommandInv, CommandType
<1>4. /\ command.before.events \subseteq events
      /\ \A d \in Devices : command.before.links[<<Own, d>>] # "NONE" => links[<<Own, d>>] # "NONE"
      /\ \A d \in Devices : command.before.registered[d] # Never =>
           registered[d] = command.before.registered[d]
  BY NamesAssumption DEF IInv, CommandInv, BeforeInv
<1>5. \A p \in DOMAIN command.got : p[2] = "search" =>
        \A e \in command.got[p] : e \in events /\ e.table = p[3] /\ Applies(e, p)
  BY DEF IInv, CommandInv, AnswersAreTrue, AnswerIsTrue
<1>6. CASE q[2] = "search"
  <2>1. r \in Newest(Matching(q), command.limit)
    <3>1. q[3] \notin {"links", "devices"}
      BY <1>6 DEF QueryKind
    <3> QED
      BY <1>6, <3>1 DEF Results
  <2>2. r \subseteq Matching(q) /\ \A e \in Matching(q) \ r : Full(r, e)
    BY <1>1, <1>3, <2>1, PageLeavesOut DEF Full
  <2>3. q[3] \in {"network", "lifecycle"}
    BY <1>6 DEF QueryKind
  <2>4. AnswerIsTrue(q, r)
    BY <1>2, <1>6, <2>2, <2>3 DEF AnswerIsTrue
  <2>5. AnswerIsComplete(q, r)
    BY <1>2, <1>4, <1>6, <2>2, <2>3 DEF AnswerIsComplete
  <2>6. ASSUME NEW p \in DOMAIN command.got
        PROVE  KnowsMore(p, command.got[p], q, r)
    <3>1. SUFFICES ASSUME p[2] = "search", p[3] = q[3], q[1] = "movements",
                          p[1] \in {"network", "lifecycle"}, NEW e \in command.got[p]
                   PROVE  e \in r \/ Full(r, e)
      BY <1>6 DEF KnowsMore
    <3>2. e \in events /\ e.table = q[3] /\ Applies(e, p)
      BY <1>5, <3>1
    <3>3. Applies(e, q)
      BY <1>6, <3>1, <3>2 DEF Applies
    <3> QED
      BY <1>2, <2>2, <3>2, <3>3
  <2> QED
    BY <2>4, <2>5, <2>6
<1>7. CASE q[2] = "ids"
  <2>1. r = {e.device : e \in Matching(q)}
    <3>1. q[3] \notin {"links", "devices"}
      BY <1>7 DEF QueryKind
    <3> QED
      BY <1>7, <3>1 DEF Results
  <2>2. q[3] \in {"network", "lifecycle"} /\ q[1] = "incident-window"
    BY <1>7 DEF QueryKind
  <2>3. \A e \in Matching(q) : e \in OwnEvents(events, e.device) /\ InWindow(e)
    BY <1>2, <1>7 DEF OwnEvents, InWindow, Applies
  <2>4. AnswerIsTrue(q, r)
    BY <1>7, <2>1, <2>2, <2>3 DEF AnswerIsTrue
  <2>5. AnswerIsComplete(q, r)
    BY <1>2, <1>4, <1>7, <2>1, <2>2 DEF AnswerIsComplete
  <2>6. ASSUME NEW p \in DOMAIN command.got
        PROVE  KnowsMore(p, command.got[p], q, r)
    <3>1. SUFFICES ASSUME p[2] = "search", p[3] = q[3], NEW e \in command.got[p]
                   PROVE  e.device \in r
      BY <1>7, <2>2 DEF KnowsMore
    <3>2. e \in events /\ e.table = q[3] /\ Applies(e, p)
      BY <1>5, <3>1
    <3>3. Applies(e, q)
      BY <1>7, <2>2, <3>1, <3>2 DEF Applies
    <3> QED
      BY <1>2, <2>1, <3>2, <3>3
  <2> QED
    BY <2>4, <2>5, <2>6
<1>8. CASE q[2] = "seen"
  <2>1. r = LatestSeen(Matching(q))
    <3>1. q[3] \notin {"links", "devices"}
      BY <1>8 DEF QueryKind
    <3> QED
      BY <1>8, <3>1 DEF Results
  <2>2. q[3] \in {"network", "lifecycle"} /\ q[1] = "incident-window"
    BY <1>8 DEF QueryKind
  <2>3. /\ DOMAIN r = {e.device : e \in Matching(q)}
        /\ \A d \in DOMAIN r : \E e \in Matching(q) : e.device = d /\ e.at = r[d]
        /\ \A e \in Matching(q) : e.at <= r[e.device]
    BY <1>1, <2>1, LatestSeenDef
  <2>4. \A e \in Matching(q) : e \in OwnEvents(events, e.device)
    BY <1>2 DEF OwnEvents, Applies
  <2>5. AnswerIsTrue(q, r)
    BY <1>8, <2>2, <2>3, <2>4 DEF AnswerIsTrue
  <2>6. AnswerIsComplete(q, r)
    BY <1>2, <1>4, <1>8, <2>2, <2>3 DEF AnswerIsComplete
  <2>7. \A p \in DOMAIN command.got : KnowsMore(p, command.got[p], q, r)
    BY <1>8, <2>2 DEF KnowsMore
  <2> QED
    BY <2>5, <2>6, <2>7
<1>9. CASE q[2] = "list"
  <2>1. q[3] \in {"links", "devices"} /\ q[1] = "incident-window"
    BY <1>9 DEF QueryKind
  <2>2. (q[3] = "links" => r = links) /\ (q[3] = "devices" => r = registered)
    BY <1>9 DEF Results
  <2>3. AnswerIsTrue(q, r)
    BY <1>9, <2>1, <2>2 DEF AnswerIsTrue
  <2>4. AnswerIsComplete(q, r)
    BY <1>4, <1>9, <2>1, <2>2 DEF AnswerIsComplete
  <2>5. \A p \in DOMAIN command.got : KnowsMore(p, command.got[p], q, r)
    BY <1>9, <2>1 DEF KnowsMore
  <2> QED
    BY <2>3, <2>4, <2>5
<1> QED
  BY <1>6, <1>7, <1>8, <1>9 DEF QueryKind

\* Where a query leaves the command.
QueryStep(request, k, q, r) ==
  /\ Running /\ request = Head(command.todo) /\ command.todo # <<>>
  /\ k = command.query /\ k \in 1 .. Len(Queries(request)) /\ Len(Queries(request)) \in Nat
  /\ q = Queries(request)[k] /\ QueryKind(request, k, q) /\ r \in Results(q)
  /\ command' = [command EXCEPT
       !.got = [x \in DOMAIN command.got \union {q} |-> IF x = q THEN r ELSE command.got[x]],
       !.todo = IF k = Len(Queries(request)) THEN Tail(command.todo) ELSE command.todo,
       !.answered = IF k = Len(Queries(request)) THEN request ELSE command.answered,
       !.query = IF k = Len(Queries(request)) THEN 0 ELSE command.query + 1]

LEMMA QuerySteps ==
  ASSUME IInv, Query
  PROVE  \E request \in AllRequests, k \in Nat : \E q, r : QueryStep(request, k, q, r)
<1> DEFINE request == Head(command.todo)
           k == command.query
           q == Queries(request)[k]
           name == command.name
           d == command.device
           todo == command.todo
           last == k = Len(Queries(request))
<1>1. Running /\ todo # <<>> /\ k > 0
  BY DEF Query, Answering
<1>2. CommandType /\ ProgressInv
  BY <1>1 DEF IInv, CommandInv
<1>3. name \in AllCommands /\ todo \in Todos(name, d) /\ k \in Nat /\ k \in 0 .. Len(Queries(request))
  BY <1>1, <1>2, NamesAssumption DEF CommandType, ProgressInv
<1>4. request \in AllRequests
  <2>1. TodoStep(name, d, todo)
    BY <1>3, TodoSteps
  <2>2. request = Head(todo)
    OBVIOUS
  <2> HIDE DEF request, name, d, todo
  <2> QED
    BY <1>1, <2>1, <2>2 DEF TodoStep
<1>5. PICK r \in Results(q) :
        command' = [command EXCEPT
          !.got = [x \in DOMAIN command.got \union {q} |-> IF x = q THEN r ELSE command.got[x]],
          !.todo = IF last THEN Tail(command.todo) ELSE command.todo,
          !.answered = IF last THEN request ELSE command.answered,
          !.query = IF last THEN 0 ELSE command.query + 1]
  BY DEF Query
<1> HIDE DEF request
<1>6. Len(Queries(request)) \in Nat
  BY <1>4, QueryKinds
<1>7. k \in 1 .. Len(Queries(request))
  BY <1>1, <1>3, <1>6
<1>8. QueryKind(request, k, q)
  BY <1>4, <1>7, QueryKinds
<1>9. request = Head(command.todo) /\ k = command.query /\ q = Queries(request)[k]
  BY DEF request
<1>10. QueryStep(request, k, q, r)
  BY <1>1, <1>5, <1>6, <1>7, <1>8, <1>9 DEF QueryStep
<1>11. k \in Nat
  BY <1>3
<1> HIDE DEF k, q
<1> QED
  BY <1>4, <1>10, <1>11

\* The requests that are left, and what was asked of them.
LEMMA QueryProgress ==
  ASSUME ProgressInv, command.name \in AllCommands,
         NEW request \in AllRequests, NEW k \in Nat, NEW q,
         request = Head(command.todo), command.todo # <<>>, k = command.query,
         k \in 1 .. Len(Queries(request)), Len(Queries(request)) \in Nat,
         q = Queries(request)[k], QueryKind(request, k, q),
         command'.name = command.name, command'.device = command.device,
         DOMAIN command'.got = DOMAIN command.got \union {q},
         command'.todo = (IF k = Len(Queries(request)) THEN Tail(command.todo) ELSE command.todo),
         command'.answered = (IF k = Len(Queries(request)) THEN request ELSE command.answered),
         command'.query = (IF k = Len(Queries(request)) THEN 0 ELSE command.query + 1)
  PROVE  ProgressInv' /\ \A r \in Current' : r = request
<1> DEFINE name == command.name
           d == command.device
           todo == command.todo
           asked == DOMAIN command.got
           all == Requests(name, d)
<1>1. /\ todo \in Todos(name, d) /\ todo # <<>> /\ Head(todo) = request /\ name \in AllCommands
      /\ \A x \in asked :
           /\ x[1] \in Members(all) /\ x \in Asks(x[1])
           /\ x[1] \in Members(todo) => x[1] = request
           /\ x[2] # "search" => todo = <<"incident-window">> /\ k > 2
      /\ \A o \in Members(all) \ Members(todo) : Asks(o) \subseteq asked
      /\ \A i \in 1 .. k - 1 : Queries(request)[i] \in asked
      /\ command.answered = "none"
  <2>1. k # 0
    OBVIOUS
  <2>2. todo \in Todos(name, d) /\ todo # <<>> /\ Head(todo) = request /\ name \in AllCommands
    BY DEF ProgressInv
  <2>3. /\ \A i \in 1 .. k - 1 : Queries(request)[i] \in asked
        /\ command.answered = "none"
    BY <2>1 DEF ProgressInv
  <2>4. \A o \in Members(all) \ Members(todo) : Asks(o) \subseteq asked
    BY DEF ProgressInv
  <2>5. ASSUME NEW x \in asked
        PROVE  /\ x[1] \in Members(all) /\ x \in Asks(x[1])
               /\ x[1] \in Members(todo) => x[1] = request
               /\ x[2] # "search" => todo = <<"incident-window">> /\ k > 2
    BY DEF ProgressInv
  <2> QED
    BY <2>2, <2>3, <2>4, <2>5
<1>2. /\ command'.name = name /\ command'.device = d /\ DOMAIN command'.got = asked \union {q}
      /\ k = Len(Queries(request)) =>
           command'.todo = Tail(todo) /\ command'.answered = request /\ command'.query = 0
      /\ k # Len(Queries(request)) =>
           command'.todo = todo /\ command'.answered = "none" /\ command'.query = k + 1
  BY <1>1
<1> HIDE DEF name, d, todo, asked
<1>3. /\ Members(todo) \subseteq Members(all) /\ request \in Members(todo)
      /\ Tail(todo) \in Todos(name, d) /\ Members(Tail(todo)) = Members(todo) \ {request}
      /\ request = "incident-window" => todo = <<"incident-window">> /\ Tail(todo) = <<>>
  <2>1. TodoStep(name, d, todo)
    BY <1>1, TodoSteps
  <2> QED
    BY <1>1, <2>1 DEF TodoStep
<1>4. request \in Members(all) /\ request # "none"
  BY <1>3 DEF AllRequests
<1> HIDE DEF all
<1>5. q[1] = request /\ q \in Asks(request) /\ (q[2] # "search" => request = "incident-window" /\ k > 2)
  BY DEF QueryKind
<1>6. CASE k # Len(Queries(request))
  <2>1. command'.todo = todo /\ command'.answered = "none" /\ command'.query = k + 1
    BY <1>2, <1>6
  <2>2. \A x \in asked \union {q} :
           /\ x[1] \in Members(all) /\ x \in Asks(x[1])
           /\ x[1] \in Members(todo) => x[1] = Head(todo) /\ k + 1 > 0
           /\ x[2] # "search" => todo = <<>> \/ (todo = <<"incident-window">> /\ k + 1 > 2)
    BY <1>1, <1>3, <1>4, <1>5
  <2>3. \A o \in Members(all) \ Members(todo) : Asks(o) \subseteq asked \union {q}
    BY <1>1
  <2>4. k + 1 \in 0 .. Len(Queries(Head(todo)))
    BY <1>1, <1>6
  <2>5. \A i \in 1 .. k + 1 - 1 : Queries(Head(todo))[i] \in asked \union {q}
    BY <1>1
  <2>6. ProgressInv'
    <3>1. \A n, x : Requests(n, x)' = Requests(n, x) /\ Todos(n, x)' = Todos(n, x)
      BY SameTypes
    <3>2. \A r : Queries(r)' = Queries(r) /\ Asks(r)' = Asks(r) /\ Members(r)' = Members(r)
      BY SameTypes
    <3>3. all = Requests(name, d)
      BY DEF all
    <3>4. todo \in Todos(name, d)
      BY <1>1
    <3> QED
      BY <1>2, <2>1, <2>2, <2>3, <2>4, <2>5, <3>3, <3>4, SameTypes DEF ProgressInv
  <2>7. \A r \in Current' : r = request
    BY <1>1, <1>3, <2>1 DEF Current, AllRequests
  <2> QED
    BY <2>6, <2>7
<1>7. CASE k = Len(Queries(request))
  <2>1. command'.todo = Tail(todo) /\ command'.answered = request /\ command'.query = 0
    BY <1>2, <1>7
  <2>2. \A x \in asked \union {q} :
           /\ x[1] \in Members(all) /\ x \in Asks(x[1])
           /\ x[1] \notin Members(Tail(todo))
           /\ x[2] # "search" => Tail(todo) = <<>>
    <3>1. \A x \in asked : x[2] # "search" => request = "incident-window"
      <4>1. Head(<<"incident-window">>) = "incident-window"
        OBVIOUS
      <4> QED
        BY <1>1, <4>1
    <3> QED
      BY <1>1, <1>3, <1>4, <1>5, <3>1
  <2>3. \A o \in Members(all) \ Members(Tail(todo)) : Asks(o) \subseteq asked \union {q}
    <3>1. ASSUME NEW x \in Asks(request)
          PROVE  x \in asked \union {q}
      <4>1. PICK i \in DOMAIN Queries(request) : x = Queries(request)[i]
        BY DEF Asks
      <4>2. i \in 1 .. k
        BY <1>7, QueryKinds
      <4>3. i \in 1 .. k - 1 \/ i = k
        BY <4>2
      <4> QED
        BY <1>1, <4>1, <4>3
    <3> QED
      BY <1>1, <1>3, <3>1
  <2>4. Tail(todo) # <<>> => 0 \in 0 .. Len(Queries(Head(Tail(todo))))
    <3>1. SUFFICES ASSUME Tail(todo) # <<>> PROVE 0 \in 0 .. Len(Queries(Head(Tail(todo))))
      OBVIOUS
    <3> DEFINE rest == Tail(todo)
    <3>2. rest \in Todos(name, d) /\ rest # <<>>
      BY <1>3, <3>1
    <3> HIDE DEF rest
    <3>3. TodoStep(name, d, rest)
      BY <1>1, <3>2, TodoSteps
    <3>4. Len(Queries(Head(rest))) \in Nat
      BY <3>2, <3>3, QueryKinds DEF TodoStep
    <3> QED
      BY <3>4 DEF rest
  <2>5. request \in Members(all) \ Members(Tail(todo))
    BY <1>3, <1>4
  <2>6. ProgressInv'
    <3>1. all = Requests(name, d)
      BY DEF all
    <3>2. \A i \in 1 .. 0 - 1 : FALSE
      OBVIOUS
    <3> QED
      BY <1>2, <1>3, <2>1, <2>2, <2>3, <2>4, <2>5, <3>1, <3>2, SameTypes DEF ProgressInv
  <2>7. \A r \in Current' : r = request
    BY <1>1, <2>1 DEF Current, AllRequests
  <2> QED
    BY <2>6, <2>7
<1> QED
  BY <1>6, <1>7

LEMMA QueryIInv ==
  ASSUME IInv, Query
  PROVE  IInv'
<1>1. PICK request \in AllRequests, k \in Nat : \E q, r : QueryStep(request, k, q, r)
  BY QuerySteps
<1>0. PICK q, r : QueryStep(request, k, q, r)
  BY <1>1
<1>2. /\ Running /\ request = Head(command.todo) /\ command.todo # <<>>
      /\ k = command.query /\ k \in 1 .. Len(Queries(request)) /\ Len(Queries(request)) \in Nat
      /\ q = Queries(request)[k] /\ QueryKind(request, k, q) /\ r \in Results(q)
      /\ command' = [command EXCEPT
           !.got = [x \in DOMAIN command.got \union {q} |-> IF x = q THEN r ELSE command.got[x]],
           !.todo = IF k = Len(Queries(request)) THEN Tail(command.todo) ELSE command.todo,
           !.answered = IF k = Len(Queries(request)) THEN request ELSE command.answered,
           !.query = IF k = Len(Queries(request)) THEN 0 ELSE command.query + 1]
  BY <1>0 DEF QueryStep
<1>3. CommandInv /\ CommandType /\ ProgressInv /\ command.name \in AllCommands
  BY <1>2, NamesAssumption DEF IInv, CommandInv, CommandType
<1> DEFINE got == [x \in DOMAIN command.got \union {q} |-> IF x = q THEN r ELSE command.got[x]]
           todo == IF k = Len(Queries(request)) THEN Tail(command.todo) ELSE command.todo
           answered == IF k = Len(Queries(request)) THEN request ELSE command.answered
           next == IF k = Len(Queries(request)) THEN 0 ELSE command.query + 1
<1>4. /\ DOMAIN got = DOMAIN command.got \union {q} /\ got[q] = r
      /\ \A x \in DOMAIN command.got : x # q => got[x] = command.got[x]
  OBVIOUS
<1>5. command' = [command EXCEPT !.got = got, !.todo = todo, !.answered = answered, !.query = next]
  BY <1>2
<1>6. /\ todo = (IF k = Len(Queries(request)) THEN Tail(command.todo) ELSE command.todo)
      /\ answered = (IF k = Len(Queries(request)) THEN request ELSE command.answered)
      /\ next = (IF k = Len(Queries(request)) THEN 0 ELSE command.query + 1)
  OBVIOUS
<1> HIDE DEF got, todo, answered, next
<1>7. /\ command'.name = command.name /\ command'.window = command.window
      /\ command'.limit = command.limit /\ command'.device = command.device
      /\ command'.before = command.before
      /\ command'.got = got /\ command'.todo = todo
      /\ command'.answered = answered /\ command'.query = next
  BY <1>3, <1>5 DEF CommandType
<1>8. UNCHANGED <<now, registry, events>> /\ UNCHANGED <<now, registered, seen, links, events>>
  BY DEF Query, registry
<1>9. /\ AnswerIsTrue(q, r) /\ AnswerIsComplete(q, r)
      /\ \A p \in DOMAIN command.got : KnowsMore(p, command.got[p], q, r)
  BY <1>2, ResultIsRight
<1>10. ProgressInv' /\ \A x \in Current' : x = request
  <2>1. /\ command'.name = command.name /\ command'.device = command.device
        /\ DOMAIN command'.got = DOMAIN command.got \union {q}
        /\ command'.todo = (IF k = Len(Queries(request)) THEN Tail(command.todo) ELSE command.todo)
        /\ command'.answered = (IF k = Len(Queries(request)) THEN request ELSE command.answered)
        /\ command'.query = (IF k = Len(Queries(request)) THEN 0 ELSE command.query + 1)
    BY <1>4, <1>6, <1>7
  <2>2. /\ request = Head(command.todo) /\ command.todo # <<>>
        /\ k = command.query /\ k \in 1 .. Len(Queries(request)) /\ Len(Queries(request)) \in Nat
        /\ q = Queries(request)[k] /\ QueryKind(request, k, q)
    BY <1>2
  <2> QED
    BY <1>3, <2>1, <2>2, QueryProgress
<1>11. todo \in Seq(AllRequests) /\ next \in Nat /\ answered \in AllRequests \union {"none"}
  <2>1. command.todo \in Seq(AllRequests) /\ command.query \in Nat
        /\ command.answered \in AllRequests \union {"none"}
    BY <1>3 DEF CommandType
  <2>2. command.todo # <<>>
    BY <1>2
  <2>3. Tail(command.todo) \in Seq(AllRequests)
    BY <2>1, <2>2
  <2> QED
    BY <1>6, <2>1, <2>3
<1>12. CommandType'
  <2>1. command' \in [name : Commands, window : Windows, limit : Limits, device : Filters,
               todo : Seq(AllRequests), query : Nat, got : {got},
               answered : AllRequests \union {"none"},
               before : [events : SUBSET Event, links : LinkTable, registered : RegistryTable]]
    BY <1>3, <1>5, <1>11 DEF CommandType
  <2> QED
    BY <1>7, <2>1 DEF CommandType, LinkTable, RegistryTable, Event, Instants, AllRequests
<1>13. BeforeInv'
  BY <1>3, <1>7, <1>8 DEF CommandInv, BeforeInv
<1>14. /\ \A x, a : AnswerIsTrue(x, a)' = AnswerIsTrue(x, a)
       /\ \A x, a : AnswerIsComplete(x, a)' = AnswerIsComplete(x, a)
       /\ \A p, x, a, b : KnowsMore(p, a, x, b)' = KnowsMore(p, a, x, b)
  BY <1>7, <1>8, SameAnswers
<1>15. AnswersAreTrue'
  <2>1. AnswersAreTrue
    BY <1>3 DEF CommandInv
  <2> QED
    BY <1>4, <1>7, <1>9, <1>14, <2>1 DEF AnswersAreTrue
<1>16. AnswersAreComplete'
  <2>1. request \in Current
    BY <1>2 DEF Current
  <2>2. AnswersAreComplete
    BY <1>3 DEF CommandInv
  <2> QED
    BY <1>4, <1>7, <1>9, <1>10, <1>14, <2>1, <2>2 DEF AnswersAreComplete
<1>17. LaterKnowsMore'
  <2>1. LaterKnowsMore
    BY <1>3 DEF CommandInv
  <2>2. KnowsMore(q, r, q, r)
    BY <1>2 DEF KnowsMore, QueryKind
  <2>3. ASSUME NEW p \in DOMAIN command.got
        PROVE  KnowsMore(q, r, p, command.got[p])
    <3>1. TodoStep(command.name, command.device, command.todo)
      BY <1>3, TodoSteps DEF ProgressInv
    <3>2. /\ p[1] \in Members(Requests(command.name, command.device))
          /\ p[1] \in Members(command.todo) => p[1] = request
          /\ p[2] # "search" => command.todo = <<"incident-window">> /\ k > 2
      BY <1>2, <1>3 DEF ProgressInv
    <3>3. p[2] = "ids" => request = "incident-window" /\ k > 2
      <4>1. Head(<<"incident-window">>) = "incident-window"
        OBVIOUS
      <4> QED
        BY <1>2, <3>2, <4>1
    <3>4. request = "incident-window" /\ k > 2 => q[2] # "search"
      BY <1>2 DEF QueryKind
    <3>5. q[1] = request
      BY <1>2 DEF QueryKind
    <3>6. request \in {"network", "lifecycle"} => p[1] # "movements"
      <4>1. SUFFICES ASSUME request \in {"network", "lifecycle"}, p[1] = "movements" PROVE FALSE
        OBVIOUS
      <4>2. "movements" \in Members(command.todo)
        BY <1>2, <3>1, <3>2, <4>1 DEF TodoStep
      <4> QED
        BY <3>2, <4>1, <4>2
    <3> QED
      BY <3>3, <3>4, <3>5, <3>6 DEF KnowsMore
  <2> QED
    BY <1>4, <1>7, <1>9, <1>14, <2>1, <2>2, <2>3 DEF LaterKnowsMore
<1>18. TypeOK'
  <2>1. TypeOK
    BY DEF IInv
  <2>2. /\ command'.name \in Commands /\ command'.window \in Windows /\ command'.limit \in Limits
    BY <1>7, <1>3 DEF CommandType
  <2>3. command'.todo # <<>> => command'.query \in 0 .. Len(Queries(Head(command'.todo)))
    BY <1>10, SameTypes DEF ProgressInv
  <2>4. \A x \in DOMAIN command'.got : x[2] = "search" => command'.got[x] \subseteq events
    <3>1. AnswersAreTrue
      BY <1>3 DEF CommandInv
    <3> QED
      BY <1>4, <1>7, <1>9, <3>1 DEF AnswersAreTrue, AnswerIsTrue
  <2> QED
    BY <1>8, <2>1, <2>2, <2>3, <2>4, SameTypes DEF TypeOK
<1>19. TablesInv'
  BY <1>8 DEF IInv, TablesInv
<1>20. DeviceInv'
  BY <1>3, <1>7 DEF CommandInv, DeviceInv
<1> QED
  BY <1>10, <1>12, <1>13, <1>15, <1>16, <1>17, <1>18, <1>19, <1>20 DEF IInv, CommandInv

LEMMA NextIInv == IInv /\ [Next]_vars => IInv'
<1> SUFFICES ASSUME IInv, [Next]_vars PROVE IInv'
  OBVIOUS
<1>1. CASE TimePasses
  BY <1>1, TimeIInv
<1>2. CASE \E d \in Devices : RegisterDevice(d)
  BY <1>2, RegisterIInv
<1>3. CASE \E d \in Devices : DetectMissedHeartbeats(d)
  BY <1>3, DetectIInv
<1>4. CASE \E c \in Companies, d \in Devices : Link(c, d) \/ Revoke(c, d)
  BY <1>4, LinkIInv
<1>5. CASE \E c \in Companies, d \in Devices, table \in {"network", "lifecycle"}, at \in 0 .. now :
             Ingest(table, c, d, at)
  BY <1>5, IngestIInv
<1>6. CASE \E name \in Commands, w \in Windows, limit \in Limits, d \in Filters :
             StartCommand(name, w, limit, d)
  BY <1>6, StartIInv
<1>7. CASE RequireAuditorSession
  BY <1>7, SessionIInv
<1>8. CASE Query
  BY <1>8, QueryIInv
<1>9. CASE CommandEnds
  BY <1>9, EndIInv DEF CommandEnds
<1>10. CASE TransportError
  BY <1>10, EndIInv DEF TransportError
<1>11. CASE UNCHANGED vars
  <2>1. UNCHANGED <<now, registered, seen, links, events, command>>
    BY <1>11 DEF vars, registry
  <2>2. /\ registered \in RegistryTable /\ seen \in RegistryTable /\ links \in LinkTable /\ now \in Instants
        /\ events \subseteq Event /\ \A e \in events : links[<<e.company, e.device>>] # "NONE"
    BY DEF IInv, TypeOK, RegistryTable, LinkTable
  <2>3. IsFiniteSet(events) /\ \A c \in Companies, x \in Devices : links[<<c, x>>] # "NONE" => registered[x] # Never
    BY DEF IInv, TablesInv
  <2> QED
    BY <2>1, <2>2, <2>3, TablesGrow
<1> QED
  BY <1>1, <1>2, <1>3, <1>4, <1>5, <1>6, <1>7, <1>8, <1>9, <1>10, <1>11 DEF Next, Write, Read

\* The inductive invariant: the tables, the progress of the command, and what its
\* answers say of the tables.
THEOREM QueriesInvariance == Spec => []IInv
<1>1. Init => IInv
  BY InitIInv
<1>2. IInv /\ [Next]_vars => IInv'
  BY NextIInv
<1> QED
  BY <1>1, <1>2, PTL DEF Spec

\* The tables have their types, no event is of a pair without a link, and a search
\* returned committed events (sqlalchemy_event_repository.py).
THEOREM TypeCorrect == Spec => []TypeOK
<1>1. IInv => TypeOK
  BY DEF IInv
<1> QED
  BY <1>1, QueriesInvariance, PTL

-----------------------------------------------------------------------------
(* What the answers show.                                                    *)

\* A request that was answered has an answer to each of its queries.
LEMMA AnsweredAll ==
  ASSUME IInv, NEW request \in AllRequests, Has(request)
  PROVE  /\ Running /\ CommandInv /\ request \in Current
         /\ request \in Members(Requests(command.name, command.device))
         /\ Asks(request) \subseteq DOMAIN command.got
<1>1. Running /\ command.answered = request
  BY DEF Has
<1>2. CommandInv /\ ProgressInv
  BY <1>1 DEF IInv, CommandInv
<1>3. request # "none"
  BY DEF AllRequests
<1>4. request \in Members(Requests(command.name, command.device)) \ Members(command.todo)
  BY <1>1, <1>2, <1>3 DEF ProgressInv
<1>5. Asks(request) \subseteq DOMAIN command.got
  BY <1>2, <1>4 DEF ProgressInv
<1>6. request \in Current
  BY <1>1 DEF Current
<1> QED
  BY <1>1, <1>2, <1>4, <1>5, <1>6

\* The answers of a list, an incident window and the movements, true of the tables.
ListIsTrue(request, table) ==
  \A e \in Got(request, "search", table) :
    e \in events /\ e.table = table /\ e.company = Own /\ InWindow(e)

WindowIsTrue ==
  /\ \A table \in {"network", "lifecycle"} :
       /\ \A e \in Got("incident-window", "search", table) :
            e \in events /\ e.device \in Got("incident-window", "ids", table)
       /\ \A d \in Got("incident-window", "ids", table) :
            \E e \in OwnEvents(events, d) : InWindow(e)
       /\ \A d \in DOMAIN Got("incident-window", "seen", table) :
            \E e \in OwnEvents(events, d) : e.at = Got("incident-window", "seen", table)[d]
  /\ \A d \in Devices :
       Got("incident-window", "list", "links")[<<Own, d>>] # "NONE" => links[<<Own, d>>] # "NONE"

WindowIsComplete ==
  LET before == command.before
      own(table) == {e \in before.events : e.table = table /\ e.company = Own}
  IN /\ \A table \in {"network", "lifecycle"} : \A e \in own(table) :
          /\ InWindow(e) => e.device \in Got("incident-window", "ids", table)
          /\ e.device \in DOMAIN Got("incident-window", "seen", table)
          /\ e.at <= Got("incident-window", "seen", table)[e.device]
     /\ \A d \in Devices :
          /\ before.links[<<Own, d>>] # "NONE" =>
               Got("incident-window", "list", "links")[<<Own, d>>] # "NONE"
          /\ before.registered[d] # Never =>
               Got("incident-window", "list", "devices")[d] = before.registered[d]

LEMMA ListAnswers ==
  ASSUME AnswersAreTrue, NEW request, NEW table \in {"network", "lifecycle"},
         Search(request, table) \in DOMAIN command.got
  PROVE  ListIsTrue(request, table)
<1> DEFINE q == Search(request, table)
           r == command.got[q]
<1>1. q[1] = request /\ q[2] = "search" /\ q[3] = table /\ Got(request, "search", table) = r
  BY DEF Search, Got
<1>2. AnswerIsTrue(q, r)
  BY DEF AnswersAreTrue
<1> HIDE DEF q, r
<1>3. \A e \in r : e \in events /\ e.table = table /\ Applies(e, q)
  BY <1>1, <1>2 DEF AnswerIsTrue
<1> QED
  BY <1>1, <1>3 DEF ListIsTrue, Applies, InWindow

LEMMA WindowAnswers ==
  ASSUME AnswersAreTrue, LaterKnowsMore, Asks("incident-window") \subseteq DOMAIN command.got
  PROVE  WindowIsTrue
<1>1. ASSUME NEW table \in {"network", "lifecycle"}
      PROVE  /\ \A e \in Got("incident-window", "search", table) :
                  e \in events /\ e.device \in Got("incident-window", "ids", table)
             /\ \A d \in Got("incident-window", "ids", table) :
                  \E e \in OwnEvents(events, d) : InWindow(e)
             /\ \A d \in DOMAIN Got("incident-window", "seen", table) :
                  \E e \in OwnEvents(events, d) : e.at = Got("incident-window", "seen", table)[d]
  <2> DEFINE p == Search("incident-window", table)
             q == Window("ids", table)
             s == Window("seen", table)
  <2>1. p \in DOMAIN command.got /\ q \in DOMAIN command.got /\ s \in DOMAIN command.got
    BY AskedForTheAnswers
  <2>2. /\ p[1] = "incident-window" /\ p[2] = "search" /\ p[3] = table
        /\ q[2] = "ids" /\ q[3] = table /\ s[2] = "seen" /\ s[3] = table
        /\ Got("incident-window", "search", table) = command.got[p]
        /\ Got("incident-window", "ids", table) = command.got[q]
        /\ Got("incident-window", "seen", table) = command.got[s]
    BY DEF Search, Window, Got
  <2>3. ListIsTrue("incident-window", table)
    BY <2>1, ListAnswers
  <2> HIDE DEF p, q, s
  <2>4. AnswerIsTrue(q, command.got[q]) /\ AnswerIsTrue(s, command.got[s])
        /\ KnowsMore(p, command.got[p], q, command.got[q])
    BY <2>1 DEF AnswersAreTrue, LaterKnowsMore
  <2>5. \A e \in command.got[p] : e \in events /\ e.device \in command.got[q]
    BY <2>2, <2>3, <2>4 DEF KnowsMore, ListIsTrue
  <2>6. \A d \in command.got[q] : \E e \in OwnEvents(events, d) : InWindow(e)
    BY <2>2, <2>4 DEF AnswerIsTrue
  <2>7. \A d \in DOMAIN command.got[s] : \E e \in OwnEvents(events, d) : e.at = command.got[s][d]
    BY <2>2, <2>4 DEF AnswerIsTrue
  <2> QED
    BY <2>2, <2>5, <2>6, <2>7
<1>2. \A d \in Devices :
        Got("incident-window", "list", "links")[<<Own, d>>] # "NONE" => links[<<Own, d>>] # "NONE"
  <2> DEFINE q == Window("list", "links")
  <2>1. q \in DOMAIN command.got
    BY AskedForTheAnswers
  <2>2. q[3] = "links" /\ Got("incident-window", "list", "links") = command.got[q]
    BY DEF Window, Got
  <2> HIDE DEF q
  <2>3. AnswerIsTrue(q, command.got[q])
    BY <2>1 DEF AnswersAreTrue
  <2> QED
    BY <2>2, <2>3 DEF AnswerIsTrue
<1> QED
  BY <1>1, <1>2 DEF WindowIsTrue

LEMMA WindowAnswersAll ==
  ASSUME IInv, Has("incident-window")
  PROVE  WindowIsTrue /\ WindowIsComplete
<1>1. /\ CommandInv /\ "incident-window" \in Current
      /\ Asks("incident-window") \subseteq DOMAIN command.got
  BY AnsweredAll DEF AllRequests
<1>2. AnswersAreTrue /\ LaterKnowsMore /\ AnswersAreComplete
  BY <1>1 DEF CommandInv
<1>3. WindowIsTrue
  BY <1>1, <1>2, WindowAnswers
<1>4. ASSUME NEW table \in {"network", "lifecycle"}, NEW e \in command.before.events,
             e.table = table, e.company = Own
      PROVE  /\ InWindow(e) => e.device \in Got("incident-window", "ids", table)
             /\ e.device \in DOMAIN Got("incident-window", "seen", table)
             /\ e.at <= Got("incident-window", "seen", table)[e.device]
  <2> DEFINE q == Window("ids", table)
             s == Window("seen", table)
  <2>1. q \in DOMAIN command.got /\ s \in DOMAIN command.got
    BY <1>1, AskedForTheAnswers
  <2>2. /\ q[1] = "incident-window" /\ q[2] = "ids" /\ q[3] = table
        /\ s[1] = "incident-window" /\ s[2] = "seen" /\ s[3] = table
        /\ Got("incident-window", "ids", table) = command.got[q]
        /\ Got("incident-window", "seen", table) = command.got[s]
    BY DEF Window, Got
  <2> HIDE DEF q, s
  <2>3. AnswerIsComplete(q, command.got[q]) /\ AnswerIsComplete(s, command.got[s])
    BY <1>1, <1>2, <2>1, <2>2 DEF AnswersAreComplete
  <2>4. (InWindow(e) => Applies(e, q)) /\ Applies(e, s)
    BY <1>4, <2>2 DEF Applies, InWindow
  <2>5. InWindow(e) => e.device \in command.got[q]
    BY <1>4, <2>2, <2>3, <2>4 DEF AnswerIsComplete
  <2>6. e.device \in DOMAIN command.got[s] /\ e.at <= command.got[s][e.device]
    BY <1>4, <2>2, <2>3, <2>4 DEF AnswerIsComplete
  <2> QED
    BY <2>2, <2>5, <2>6
<1>5. ASSUME NEW d \in Devices
      PROVE  /\ command.before.links[<<Own, d>>] # "NONE" =>
                  Got("incident-window", "list", "links")[<<Own, d>>] # "NONE"
             /\ command.before.registered[d] # Never =>
                  Got("incident-window", "list", "devices")[d] = command.before.registered[d]
  <2> DEFINE q == Window("list", "links")
             s == Window("list", "devices")
  <2>1. q \in DOMAIN command.got /\ s \in DOMAIN command.got
    BY <1>1, AskedForTheAnswers
  <2>2. /\ q[1] = "incident-window" /\ q[3] = "links" /\ s[1] = "incident-window" /\ s[3] = "devices"
        /\ Got("incident-window", "list", "links") = command.got[q]
        /\ Got("incident-window", "list", "devices") = command.got[s]
    BY DEF Window, Got
  <2> HIDE DEF q, s
  <2>3. AnswerIsComplete(q, command.got[q]) /\ AnswerIsComplete(s, command.got[s])
    BY <1>1, <1>2, <2>1, <2>2 DEF AnswersAreComplete
  <2> QED
    BY <2>2, <2>3 DEF AnswerIsComplete
<1> QED
  BY <1>3, <1>4, <1>5 DEF WindowIsComplete

\* The devices that an event shows are those of the tables.
LEMMA ActiveIsShown ==
  ASSUME NEW table \in {"network", "lifecycle"}, NEW d \in Devices,
         d \in Got("incident-window", "ids", table)
  PROVE  d \in ActiveDevices /\ d \in RelevantDevices /\ Status(d) = "ACTIVE_IN_WINDOW"
<1>1. d \in ActiveDevices
  BY DEF ActiveDevices
<1> QED
  BY <1>1 DEF RelevantDevices, Status

LEMMA ActiveIsReal ==
  ASSUME WindowIsTrue, NEW d \in ActiveDevices
  PROVE  \E e \in OwnEvents(events, d) : InWindow(e)
<1>1. PICK table \in {"network", "lifecycle"} : d \in Got("incident-window", "ids", table)
  BY DEF ActiveDevices
<1> QED
  BY <1>1 DEF WindowIsTrue

\* An incident window lists the devices of the auditor's company and no other
\* (query_incident_window.py:105-121).
THEOREM WindowCorrect == Spec => []WindowIsOfTheCompany
<1>1. ASSUME IInv, Has("incident-window"), NEW d \in Devices
      PROVE  /\ d \in RelevantDevices => links[<<Own, d>>] # "NONE"
             /\ command.before.links[<<Own, d>>] # "NONE"
                  /\ command.before.registered[d] <= command.window[2] => d \in RelevantDevices
  <2>1. WindowIsTrue /\ WindowIsComplete
    BY <1>1, WindowAnswersAll
  <2>2. ASSUME d \in RelevantDevices
        PROVE  links[<<Own, d>>] # "NONE"
    <3>1. CASE d \in ActiveDevices
      <4>1. PICK e \in OwnEvents(events, d) : InWindow(e)
        BY <2>1, <3>1, ActiveIsReal
      <4>2. e \in events /\ e.company = Own /\ e.device = d
        BY DEF OwnEvents
      <4> QED
        BY <1>1, <4>2 DEF IInv, TypeOK
    <3>2. CASE d \in LinkedDevices
      BY <2>1, <3>2 DEF LinkedDevices, WindowIsTrue
    <3> QED
      BY <2>2, <3>1, <3>2 DEF RelevantDevices
  <2>3. ASSUME command.before.links[<<Own, d>>] # "NONE",
               command.before.registered[d] <= command.window[2]
        PROVE  d \in RelevantDevices
    <3>1. d \in LinkedDevices
      BY <2>1, <2>3 DEF LinkedDevices, WindowIsComplete
    <3>2. command.before.registered[d] # Never
      <4>1. BeforeInv
        BY <1>1, AnsweredAll DEF AllRequests, CommandInv
      <4> QED
        BY <2>3, <4>1, NamesAssumption DEF BeforeInv
    <3>3. Got("incident-window", "list", "devices")[d] = command.before.registered[d]
      BY <2>1, <3>2 DEF WindowIsComplete
    <3> QED
      BY <2>3, <3>1, <3>2, <3>3 DEF RelevantDevices
  <2> QED
    BY <2>2, <2>3
<1>2. IInv => WindowIsOfTheCompany
  BY <1>1 DEF WindowIsOfTheCompany
<1> QED
  BY <1>2, QueriesInvariance, PTL

\* The devices of the events that were there, or that the window lists, are listed
\* as active, whatever the limit is (query_incident_window.py, backend.md:358).
THEOREM NothingHidden == Spec => []ReportsAreNotHidden
<1>1. ASSUME IInv, Has("incident-window"), NEW d,
             d \in ListedDevices \union {e.device : e \in {f \in command.before.events :
                                              f.company = Own /\ InWindow(f)}}
      PROVE  d \in RelevantDevices /\ Status(d) = "ACTIVE_IN_WINDOW"
  <2>1. WindowIsTrue /\ WindowIsComplete
    BY <1>1, WindowAnswersAll
  <2>2. /\ \A e \in events : e.device \in Devices /\ e.table \in {"network", "lifecycle"}
        /\ command.before.events \subseteq events
    BY <1>1, AnsweredAll DEF AllRequests, CommandInv, BeforeInv, IInv, TypeOK, Event
  <2>3. CASE d \in ListedDevices
    <3>1. PICK table \in {"network", "lifecycle"} :
            \E e \in Got("incident-window", "search", table) : d = e.device
      BY <2>3 DEF ListedDevices
    <3>2. d \in Devices /\ d \in Got("incident-window", "ids", table)
      BY <2>1, <2>2, <3>1 DEF WindowIsTrue
    <3> QED
      BY <3>2, ActiveIsShown
  <2>4. CASE d \notin ListedDevices
    <3>1. PICK e \in command.before.events : e.company = Own /\ InWindow(e) /\ d = e.device
      BY <1>1, <2>4
    <3>2. d \in Devices /\ e.table \in {"network", "lifecycle"}
      BY <2>2, <3>1
    <3>3. d \in Got("incident-window", "ids", e.table)
      BY <2>1, <3>1, <3>2 DEF WindowIsComplete
    <3> QED
      BY <3>2, <3>3, ActiveIsShown
  <2> QED
    BY <2>3, <2>4
<1>2. IInv => ReportsAreNotHidden
  BY <1>1 DEF ReportsAreNotHidden
<1> QED
  BY <1>2, QueriesInvariance, PTL

\* The status of a device is what its events say, but for those committed while
\* the request was answered (query_incident_window.py:225-230).
THEOREM StatusCorrect == Spec => []StatusIsReal
<1>1. ASSUME IInv, Has("incident-window"), NEW d \in RelevantDevices
      PROVE  CASE Status(d) = "ACTIVE_IN_WINDOW" -> \E e \in OwnEvents(events, d) : InWindow(e)
               [] Status(d) = "WITHOUT_REPORT_BEFORE_WINDOW" ->
                    \A e \in OwnEvents(command.before.events, d) : e.at < command.window[1]
               [] Status(d) = "SEEN_AFTER_WINDOW" ->
                    \E e \in OwnEvents(events, d) :
                      e.at > command.window[2] \/ e \notin command.before.events
  <2>1. WindowIsTrue /\ WindowIsComplete
    BY <1>1, WindowAnswersAll
  <2>2. /\ \A e \in events : e.at \in Nat /\ e.table \in {"network", "lifecycle"}
        /\ command.before.events \subseteq events
        /\ command.window[1] \in Nat /\ command.window[2] \in Nat
    <3>1. CommandInv
      BY <1>1, AnsweredAll DEF AllRequests
    <3>2. command.window \in Nat \X Nat
      BY <3>1, WindowsAssumption DEF CommandInv, CommandType
    <3> QED
      BY <1>1, <3>1, <3>2 DEF CommandInv, BeforeInv, IInv, TypeOK, Event, Instants
  <2>3. CASE d \in ActiveDevices
    <3>1. Status(d) = "ACTIVE_IN_WINDOW"
      BY <2>3 DEF Status
    <3>2. \E e \in OwnEvents(events, d) : InWindow(e)
      BY <2>1, <2>3, ActiveIsReal
    <3> QED
      BY <3>1, <3>2
  <2>4. CASE d \notin ActiveDevices /\ \A at \in LastSeen(d) : at < command.window[1]
    <3>1. Status(d) = "WITHOUT_REPORT_BEFORE_WINDOW"
      BY <2>4 DEF Status
    <3>2. ASSUME NEW e \in OwnEvents(command.before.events, d)
          PROVE  e.at < command.window[1]
      <4>1. e \in command.before.events /\ e.company = Own /\ e.device = d
            /\ e \in events /\ e.table \in {"network", "lifecycle"}
        BY <2>2 DEF OwnEvents
      <4> DEFINE seenThen == Got("incident-window", "seen", e.table)
      <4>2. d \in DOMAIN seenThen /\ e.at <= seenThen[d]
        BY <2>1, <4>1 DEF WindowIsComplete
      <4>3. seenThen[d] \in LastSeen(d)
        BY <4>1, <4>2 DEF LastSeen
      <4>4. seenThen[d] \in Nat
        <5>1. PICK f \in OwnEvents(events, d) : f.at = seenThen[d]
          BY <2>1, <4>1, <4>2 DEF WindowIsTrue
        <5> QED
          BY <2>2, <5>1 DEF OwnEvents
      <4>5. seenThen[d] < command.window[1] /\ e.at \in Nat
        BY <2>2, <2>4, <4>1, <4>3
      <4> HIDE DEF seenThen
      <4> QED
        BY <2>2, <4>2, <4>4, <4>5
    <3> QED
      BY <3>1, <3>2
  <2>5. CASE d \notin ActiveDevices /\ ~(\A at \in LastSeen(d) : at < command.window[1])
    <3>1. Status(d) = "SEEN_AFTER_WINDOW"
      BY <2>5 DEF Status
    <3>2. PICK at \in LastSeen(d) : ~(at < command.window[1])
      BY <2>5
    <3>3. \E table \in {"network", "lifecycle"} :
            d \in DOMAIN Got("incident-window", "seen", table)
            /\ at = Got("incident-window", "seen", table)[d]
      BY <3>2 DEF LastSeen
    <3>4. PICK e \in OwnEvents(events, d) : e.at = at
      BY <2>1, <3>3 DEF WindowIsTrue
    <3>5. e \in events /\ e.company = Own /\ e.device = d
      BY DEF OwnEvents
    <3>6. ASSUME e \in command.before.events, ~(e.at > command.window[2])
          PROVE  FALSE
      <4>1. InWindow(e)
        BY <2>2, <3>2, <3>4, <3>5, <3>6 DEF InWindow
      <4>2. d \in Got("incident-window", "ids", e.table)
        BY <2>1, <2>2, <3>5, <3>6, <4>1 DEF WindowIsComplete
      <4> QED
        BY <2>2, <2>5, <3>5, <4>2 DEF ActiveDevices
    <3> QED
      BY <3>1, <3>4, <3>6
  <2> QED
    BY <2>3, <2>4, <2>5
<1>2. IInv => StatusIsReal
  BY <1>1 DEF StatusIsReal
<1> QED
  BY <1>2, QueriesInvariance, PTL

\* An event that a list of the movements has, or was too old for, is in the
\* movements or was too old for them.
LEMMA MovementsOrder ==
  ASSUME IInv, Running, Asks("movements") \subseteq DOMAIN command.got,
         NEW page \in Movements, NEW table \in {"network", "lifecycle"},
         NEW e \in events, e \notin page,
         e \in Got("movements", "search", table) \/ Full(Got("movements", "search", table), e)
  PROVE  Cardinality(page) = command.limit /\ \A f \in page : e.at <= f.at
<1> DEFINE N == Got("movements", "search", "network")
           L == Got("movements", "search", "lifecycle")
           P == Got("movements", "search", table)
<1>1. CommandInv
  BY DEF IInv
<1>2. N \subseteq events /\ L \subseteq events
  <2>1. AnswersAreTrue
    BY <1>1 DEF CommandInv
  <2>2. ListIsTrue("movements", "network") /\ ListIsTrue("movements", "lifecycle")
    BY <2>1, AskedForTheAnswers, ListAnswers
  <2> QED
    BY <2>2 DEF ListIsTrue
<1>3. IsFiniteSet(events) /\ \A f \in events : f.at \in Nat
  BY DEF IInv, TablesInv, TypeOK, Event, Instants
<1>4. IsFiniteSet(N) /\ IsFiniteSet(L)
  BY <1>2, <1>3, FS_Subset
<1>5. command.limit \in Nat
  BY <1>1, WindowsAssumption DEF CommandInv, CommandType
<1>6. page \in Newest(N \union L, command.limit) /\ P \in {N, L}
  BY DEF Movements
<1>7. e \in P \/ (Cardinality(P) = command.limit /\ \A f \in P : e.at <= f.at)
  BY DEF Full
<1>8. \A f \in N \union L : f.at \in Nat
  BY <1>2, <1>3
<1>9. e.at \in Nat
  BY <1>3
<1> HIDE DEF N, L, P
<1> DEFINE limit == command.limit
<1>10. limit \in Nat /\ page \in Newest(N \union L, limit) /\ P \in {N, L}
  BY <1>5, <1>6
<1>11. e \in P \/ TooOld(e, P, limit)
  BY <1>7 DEF TooOld, limit
<1>12. TooOld(e, page, limit)
  <2> HIDE DEF limit
  <2> QED
    BY <1>4, <1>8, <1>9, <1>10, <1>11, MergedPage
<1> QED
  BY <1>12 DEF limit, TooOld

\* The movements are events of the device and the company, no more than the limit.
LEMMA MovementsAreEvents ==
  ASSUME IInv, Running, Asks("movements") \subseteq DOMAIN command.got, NEW page \in Movements
  PROVE  /\ Cardinality(page) <= command.limit
         /\ \A e \in page : \E table \in {"network", "lifecycle"} :
              e \in Got("movements", "search", table)
<1> DEFINE N == Got("movements", "search", "network")
           L == Got("movements", "search", "lifecycle")
           limit == command.limit
<1>1. CommandInv
  BY DEF IInv
<1>2. N \subseteq events /\ L \subseteq events
  <2>1. AnswersAreTrue
    BY <1>1 DEF CommandInv
  <2>2. ListIsTrue("movements", "network") /\ ListIsTrue("movements", "lifecycle")
    BY <2>1, AskedForTheAnswers, ListAnswers
  <2> QED
    BY <2>2 DEF ListIsTrue
<1>3. IsFiniteSet(events)
  BY DEF IInv, TablesInv
<1>4. N \union L \subseteq events
  BY <1>2
<1>5. limit \in Nat
  BY <1>1, WindowsAssumption DEF CommandInv, CommandType
<1>6. page \in Newest(N \union L, limit)
  BY DEF Movements
<1> DEFINE rows == N \union L
<1>7. page \in Newest(rows, limit) /\ rows \subseteq events
  BY <1>4, <1>6
<1> HIDE DEF rows, limit, N, L
<1>8. IsFiniteSet(rows)
  BY <1>3, <1>7, FS_Subset
<1>9. page \subseteq rows /\ Cardinality(page) <= limit
  BY <1>5, <1>7, <1>8, PageLeavesOut
<1> QED
  BY <1>9 DEF rows, limit, N, L

\* The movements of a device are its newest events in the range, of both tables and
\* of the auditor's company only (query_device_movements.py:70-95).
THEOREM MovementsCorrect == Spec => []MovementsAreNewest
<1>1. ASSUME IInv, Has("movements"), NEW page \in Movements
      PROVE  /\ Cardinality(page) <= command.limit
             /\ \A e \in page : e \in OwnEvents(events, command.device) /\ InWindow(e)
             /\ \A e \in OwnEvents(command.before.events, command.device) \ page : InWindow(e) =>
                  Cardinality(page) = command.limit /\ \A f \in page : e.at <= f.at
  <2>1. /\ Running /\ CommandInv /\ "movements" \in Current
        /\ "movements" \in Members(Requests(command.name, command.device))
        /\ Asks("movements") \subseteq DOMAIN command.got
    BY <1>1, AnsweredAll DEF AllRequests
  <2>2. AnswersAreTrue /\ AnswersAreComplete /\ BeforeInv /\ DeviceInv /\ CommandType
    BY <2>1 DEF CommandInv
  <2>3. command.device # AnyDevice
    <3>1. CASE command.name # "export-json"
      <4>1. Members(<<command.name>>) = {command.name}
        BY Tuple1
      <4>2. Requests(command.name, command.device) = <<command.name>>
        BY <3>1 DEF Requests
      <4> QED
        BY <2>1, <2>2, <4>1, <4>2 DEF DeviceInv
    <3>2. CASE command.name = "export-json"
      <4>1. SUFFICES ASSUME command.device = AnyDevice PROVE FALSE
        OBVIOUS
      <4>2. Requests(command.name, command.device) = <<"network", "lifecycle", "incident-window">>
        BY <3>2, <4>1 DEF Requests
      <4>3. Members(<<"network", "lifecycle", "incident-window">>)
              = {"network", "lifecycle", "incident-window"}
        BY DEF Members
      <4> QED
        BY <2>1, <4>2, <4>3
    <3> QED
      BY <3>1, <3>2
  <2>4. ASSUME NEW table \in {"network", "lifecycle"}
        PROVE  /\ \A e \in Got("movements", "search", table) :
                    e \in OwnEvents(events, command.device) /\ InWindow(e)
               /\ \A e \in OwnEvents(command.before.events, command.device) :
                    e.table = table /\ InWindow(e) =>
                      e \in Got("movements", "search", table)
                      \/ Full(Got("movements", "search", table), e)
    <3> DEFINE q == Search("movements", table)
    <3>1. q[1] = "movements" /\ q[2] = "search" /\ q[3] = table
          /\ Got("movements", "search", table) = command.got[q]
      BY DEF Search, Got
    <3>2. q \in DOMAIN command.got
      BY <2>1, AskedForTheAnswers
    <3> HIDE DEF q
    <3>3. AnswerIsTrue(q, command.got[q]) /\ AnswerIsComplete(q, command.got[q])
      BY <2>1, <2>2, <3>1, <3>2 DEF AnswersAreTrue, AnswersAreComplete
    <3>4. ASSUME NEW e \in command.got[q]
          PROVE  e \in OwnEvents(events, command.device) /\ InWindow(e)
      <4>1. e \in events /\ Applies(e, q)
        BY <3>1, <3>3 DEF AnswerIsTrue
      <4> QED
        BY <2>3, <3>1, <4>1 DEF Applies, OwnEvents, InWindow
    <3>5. ASSUME NEW e \in OwnEvents(command.before.events, command.device),
                 e.table = table, InWindow(e)
          PROVE  e \in command.got[q] \/ Full(command.got[q], e)
      <4>1. e \in command.before.events /\ Applies(e, q)
        BY <3>1, <3>5 DEF Applies, OwnEvents, InWindow
      <4> QED
        BY <3>1, <3>3, <3>5, <4>1 DEF AnswerIsComplete
    <3> QED
      BY <3>1, <3>4, <3>5
  <2>5. /\ Cardinality(page) <= command.limit
        /\ \A e \in page : \E table \in {"network", "lifecycle"} :
             e \in Got("movements", "search", table)
    BY <1>1, <2>1, MovementsAreEvents
  <2>6. ASSUME NEW e \in OwnEvents(command.before.events, command.device), e \notin page, InWindow(e)
        PROVE  Cardinality(page) = command.limit /\ \A f \in page : e.at <= f.at
    <3>1. e \in events /\ e.table \in {"network", "lifecycle"}
      BY <1>1, <2>2 DEF OwnEvents, BeforeInv, IInv, TypeOK, Event
    <3>2. e \in Got("movements", "search", e.table) \/ Full(Got("movements", "search", e.table), e)
      BY <2>4, <2>6, <3>1
    <3> QED
      BY <1>1, <2>1, <2>6, <3>1, <3>2, MovementsOrder
  <2> QED
    BY <2>4, <2>5, <2>6
<1>2. IInv => MovementsAreNewest
  BY <1>1 DEF MovementsAreNewest
<1> QED
  BY <1>2, QueriesInvariance, PTL

\* The parts of an export, answered one after the other, do not contradict each
\* other (export.py:71-91).
THEOREM ExportCorrect == Spec => []ExportAgrees
<1>1. ASSUME IInv, Running, command.name = "export-json", command.todo = <<>>,
             NEW table \in {"network", "lifecycle"}, NEW e \in Got(table, "search", table)
      PROVE  /\ e.company = Own /\ InWindow(e)
             /\ e.device \in RelevantDevices /\ Status(e.device) = "ACTIVE_IN_WINDOW"
             /\ command.device # AnyDevice => \A page \in Movements : e \notin page =>
                  Cardinality(page) = command.limit /\ \A f \in page : e.at <= f.at
  <2>1. CommandInv /\ ProgressInv /\ AnswersAreTrue /\ LaterKnowsMore
    BY <1>1 DEF IInv, CommandInv
  <2>2. \A request \in Members(Requests(command.name, command.device)) :
          Asks(request) \subseteq DOMAIN command.got
    BY <1>1, <2>1, Tuple0 DEF ProgressInv
  <2>3. /\ table \in Members(Requests(command.name, command.device))
        /\ "incident-window" \in Members(Requests(command.name, command.device))
        /\ command.device # AnyDevice => "movements" \in Members(Requests(command.name, command.device))
    <3>1. CASE command.device = AnyDevice
      <4>1. Requests(command.name, command.device) = <<"network", "lifecycle", "incident-window">>
        BY <1>1, <3>1 DEF Requests
      <4>2. Members(<<"network", "lifecycle", "incident-window">>)
              = {"network", "lifecycle", "incident-window"}
        BY DEF Members
      <4> QED
        BY <3>1, <4>1, <4>2
    <3>2. CASE command.device # AnyDevice
      <4>1. Requests(command.name, command.device)
              = <<"network", "lifecycle", "movements", "incident-window">>
        BY <1>1, <3>2 DEF Requests
      <4>2. Members(<<"network", "lifecycle", "movements", "incident-window">>)
              = {"network", "lifecycle", "movements", "incident-window"}
        BY DEF Members
      <4> QED
        BY <4>1, <4>2
    <3> QED
      BY <3>1, <3>2
  <2>4. /\ Asks(table) \subseteq DOMAIN command.got
        /\ Asks("incident-window") \subseteq DOMAIN command.got
        /\ command.device # AnyDevice => Asks("movements") \subseteq DOMAIN command.got
    BY <2>2, <2>3
  <2> DEFINE p == Search(table, table)
             q == Window("ids", table)
             s == Search("movements", table)
  <2>5. /\ p \in DOMAIN command.got /\ q \in DOMAIN command.got
        /\ command.device # AnyDevice => s \in DOMAIN command.got
    BY <2>4, AskedForTheAnswers
  <2>6. /\ p[1] = table /\ p[2] = "search" /\ p[3] = table
        /\ q[1] = "incident-window" /\ q[2] = "ids" /\ q[3] = table
        /\ s[1] = "movements" /\ s[2] = "search" /\ s[3] = table
        /\ Got(table, "search", table) = command.got[p]
        /\ Got("incident-window", "ids", table) = command.got[q]
        /\ Got("movements", "search", table) = command.got[s]
    BY DEF Search, Window, Got
  <2>7. ListIsTrue(table, table)
    BY <2>1, <2>5, ListAnswers
  <2> HIDE DEF p, q, s
  <2>8. e \in events /\ e.company = Own /\ InWindow(e)
    BY <2>7 DEF ListIsTrue
  <2>9. KnowsMore(p, command.got[p], q, command.got[q])
        /\ (command.device # AnyDevice => KnowsMore(p, command.got[p], s, command.got[s]))
    BY <2>1, <2>5 DEF LaterKnowsMore
  <2>10. e.device \in Devices /\ e.device \in Got("incident-window", "ids", table)
    BY <1>1, <2>6, <2>8, <2>9 DEF KnowsMore, IInv, TypeOK, Event
  <2>11. e.device \in RelevantDevices /\ Status(e.device) = "ACTIVE_IN_WINDOW"
    <3> DEFINE d == e.device
    <3>1. d \in Devices /\ d \in Got("incident-window", "ids", table)
      BY <2>10
    <3> HIDE DEF d
    <3>2. d \in RelevantDevices /\ Status(d) = "ACTIVE_IN_WINDOW"
      BY <3>1, ActiveIsShown
    <3> QED
      BY <3>2 DEF d
  <2>12. ASSUME command.device # AnyDevice, NEW page \in Movements, e \notin page
         PROVE  Cardinality(page) = command.limit /\ \A f \in page : e.at <= f.at
    <3>1. e \in Got("movements", "search", table) \/ Full(Got("movements", "search", table), e)
      BY <1>1, <2>6, <2>9, <2>12 DEF KnowsMore
    <3>2. Asks("movements") \subseteq DOMAIN command.got
      BY <2>4, <2>12
    <3> QED
      BY <1>1, <2>8, <2>12, <3>1, <3>2, MovementsOrder
  <2> QED
    BY <2>8, <2>11, <2>12
<1>2. IInv => ExportAgrees
  BY <1>1 DEF ExportAgrees
<1> QED
  BY <1>2, QueriesInvariance, PTL
=============================================================================
