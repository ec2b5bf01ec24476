--------------------------- MODULE AgentControlProofs ---------------------------
(***************************************************************************)
(* Theorems about AgentControl, for any links, deployments and scans.         *)
(*                                                                         *)
(* A command reads the file, computes and saves, with no lock: whatever was     *)
(* saved meanwhile is overwritten.  That the file is consistent all the same     *)
(* is because every state a command holds is (Sound): it was read as one, and     *)
(* each operation keeps it so.  What a command has done is known from what it      *)
(* still has to do (Plans): it has read the file (IsLoaded), it has a link          *)
(* (HasLink), its revocation was taken (IsRevoked), and, with one terminal, what     *)
(* the temporary file and the switch are (AloneInv).                             *)
(*                                                                         *)
(* The queue has no lock either.  Two calls may have read it, and each rewrites      *)
(* or removes it as a whole; that a revocation survives this is because what a      *)
(* call has still to send is what waits in the file (Agrees), but for what is        *)
(* revoked or was exposed to a loss.                                             *)
(***************************************************************************)
EXTENDS AgentControl, FiniteSetTheorems, SequenceTheorems, WellFoundedInduction, TLAPS

-----------------------------------------------------------------------------
(* The inductive invariant.                                                  *)

\* A state that the runner can use: links that exist, of the device of the state.
Sound(s) ==
  /\ s.selected # None => s.selected \in s.live
  /\ s.live \subseteq s.known
  /\ \A l \in s.known : l.device = s.device /\ backend[l] # "NONE"

FilesInv ==
  /\ file \in State \union {Unreadable} /\ (file # Unreadable => Sound(file))
  /\ temporary \in State \union {None, Unreadable}
  /\ temporary \notin {None, Unreadable} => Sound(temporary)

CallRecord ==
  [step : {"none", "send", "post", "append"}, links : SUBSET Links, alone : BOOLEAN]

\* What nobody has to revoke any more, or may have been taken out of the queue.
Done(l) == backend[l] = "REVOKED" \/ l \in exposed

\* What a call has still to send is what waits in the file, but for what is done:
\* by rewriting or removing the file it loses nothing else.
Agrees(k) ==
  /\ \A l \in k.links : backend[l] # "NONE"
  /\ k.step = "send" => \A l \in Links : ~Done(l) => (l \in k.links <=> l \in revoking)

CallsInv ==
  /\ tail \in {"clean", "open"} /\ exposed \subseteq Links
  /\ calls \in [DOMAIN calls -> CallRecord]
  /\ \A p \in DOMAIN calls : Agrees(calls[p])
  /\ \A p, q \in DOMAIN calls :
       p # q /\ calls[p].step # "none" /\ calls[p].alone => calls[q].step = "none"

\* A link is accepted when the earlier ones of its pair were revoked.
BackendInv ==
  /\ CallsInv
  /\ backend \in [Links -> {"NONE", "ACTIVE", "REVOKED"}]
  /\ revoking \subseteq {l \in Links : backend[l] # "NONE"}
  /\ \A k, l \in Links : k.company = l.company /\ k.device = l.device /\ k.n < l.n
                           /\ backend[l] # "NONE" => backend[k] = "REVOKED"

Settled(l) == backend[l] = "REVOKED" \/ l \in revoking \/ l \in exposed

\* What a command may still have to do, but for a save.
Plans(name) ==
  CASE name = "companies" -> {<<"list", "load", "sync">>, <<"load", "sync">>, <<"sync">>, <<>>}
    [] name = "link" ->
         {<<"load", "open", "write", "replace", "call", "call">>,
          <<"open", "write", "replace", "call", "call">>, <<"call", "call">>, <<"call">>, <<>>}
    [] name = "use-company" ->
         {<<"load", "find", "select", "tell">>, <<"find", "select", "tell">>,
          <<"list", "load", "sync", "select", "tell">>, <<"load", "sync", "select", "tell">>,
          <<"sync", "select", "tell">>, <<"select", "tell">>, <<"tell">>, <<>>}
    [] name = "start-recording" ->
         {<<"load", "require", "switch", "tell">>, <<"require", "switch", "tell">>,
          <<"switch", "tell">>, <<"tell">>, <<>>}
    [] name = "stop-recording" ->
         {<<"load", "require", "tell", "tell", "switch">>, <<"require", "tell", "tell", "switch">>,
          <<"tell", "tell", "switch">>, <<"tell", "switch">>, <<"switch">>, <<>>}
    [] name = "unlink" ->
         {<<"load", "require", "tell", "revoke", "remove">>,
          <<"require", "tell", "revoke", "remove">>, <<"tell", "revoke", "remove">>,
          <<"revoke", "remove">>, <<"remove">>, <<>>}

Saves == {<<>>, <<"replace">>, <<"write", "replace">>, <<"open", "write", "replace">>}

Members(s) == {s[i] : i \in DOMAIN s}

\* The commands that look for a link have it when they no longer have to.
Linkers == {"use-company", "start-recording", "stop-recording", "unlink"}
Finds(b) == Members(b) \intersect {"require", "select"} # {}

IsLoaded(c, a, b) ==
  c.state.device = c.device \/ (a = <<>> /\ b # <<>> /\ Head(b) \in {"list", "load"})

HasLink(c, b) ==
  /\ c.link # None <=> c.name \in Linkers /\ ~Finds(b)
  /\ c.link # None =>
       /\ c.link \in Links /\ c.link.device = c.device /\ backend[c.link] # "NONE"
       /\ c.name = "unlink" => c.link.company = c.company

IsRevoked(c, b) ==
  c.name = "unlink" /\ c.link # None /\ "revoke" \notin Members(b) => Settled(c.link)

IsListed(c) ==
  /\ c.listed.live \subseteq c.listed.known
  /\ \A l \in c.listed.known : l.device = c.device /\ backend[l] # "NONE"

\* The file is as the operator wants it, if that is known.
SwitchIsRight == switch # "unknown" => file.recording = (switch = "on")

SwitchesRecording(name) == name \in {"start-recording", "stop-recording"}
Switches(c) == SwitchesRecording(c.name) /\ c.link # None

\* What the only command makes of the temporary file and of the recording.
AloneInv(c, a, b) ==
  /\ a = <<"write", "replace">> => temporary = Unreadable
  /\ a = <<"replace">> => temporary = c.state
  /\ Switches(c) =>
       /\ switch = IF c.name = "start-recording" THEN "on" ELSE "off"
       /\ "switch" \notin Members(b) =>
            /\ c.state.recording = (switch = "on")
            /\ a = <<>> => file.recording = (switch = "on")
  /\ ~Switches(c) =>
       /\ SwitchIsRight
       /\ c.state.device = c.device /\ switch # "unknown" => c.state.recording = (switch = "on")

Fits(c, a, b) ==
  /\ c.todo = a \o b
  /\ IsLoaded(c, a, b) /\ HasLink(c, b) /\ IsRevoked(c, b)
  /\ SingleTerminal => AloneInv(c, a, b)

CommandRecord ==
  [todo : Seq(Steps), name : AllCommands, company : Companies \union {None}, device : Devices,
   state : State, listed : State, link : Links \union {None}]

CommandInv(c) ==
  /\ c \in CommandRecord /\ c.todo # <<>>
  /\ Sound(c.state) /\ IsListed(c)
  /\ \E a \in Saves, b \in Plans(c.name) : Fits(c, a, b)

CommandsInv ==
  /\ command = [t \in Terminals |-> command[t]]
  /\ \A t \in Terminals : command[t] = Idle \/ CommandInv(command[t])

RunnerSteps ==
  Lifecycle \union {"check", "register", "ready", "scan", "network", "exit", "down", "failed"}

RunnerInv ==
  /\ runner \in [todo : Seq(RunnerSteps), device : Devices \union {None}, context : Links \union {None}]
  /\ runner.context # None =>
       /\ ~Waiting /\ Task \in Lifecycle \union {"network"}
       /\ runner.context = EnvLink \/ runner.context.device = runner.device

RestInv ==
  /\ machine \in Devices /\ service \in {"on", "off", "stopping", "forgotten"}
  /\ deployment \in Deployments /\ commands \in 0 .. deployment.commands
  /\ switch \in {"on", "off", "unknown"}
  /\ unlinked \subseteq Links /\ \A l \in unlinked : Settled(l)
  /\ DOMAIN calls = Processes

\* With one terminal the file is readable, and right between two commands.
SingleInv ==
  SingleTerminal => file # Unreadable /\ (\A t \in Terminals : command[t] = Idle => SwitchIsRight)

IInv == FilesInv /\ BackendInv /\ CommandsInv /\ RunnerInv /\ RestInv /\ SingleInv

-----------------------------------------------------------------------------
(* The plans of the commands.                                                *)

\* A sequence that is not empty has its head and the members of its tail.
LEMMA MembersOf ==
  ASSUME NEW S, NEW s \in Seq(S)
  PROVE  /\ Members(s) \subseteq S
         /\ s # <<>> => /\ Head(s) \in S /\ Tail(s) \in Seq(S)
                        /\ Members(s) = {Head(s)} \union Members(Tail(s))
<1>1. Members(s) \subseteq S
  BY DEF Members
<1>2. SUFFICES ASSUME s # <<>>
               PROVE  /\ Head(s) \in S /\ Tail(s) \in Seq(S)
                      /\ Members(s) = {Head(s)} \union Members(Tail(s))
  BY <1>1
<1>3. /\ Head(s) = s[1] /\ Head(s) \in S /\ Tail(s) \in Seq(S) /\ Len(Tail(s)) = Len(s) - 1
      /\ Len(s) \in Nat \ {0} /\ \A i \in 1 .. Len(s) - 1 : Tail(s)[i] = s[i + 1]
  BY <1>2, HeadTailProperties, EmptySeq
<1>4. ASSUME NEW x \in Members(s), x # Head(s)
      PROVE  x \in Members(Tail(s))
  <2>1. PICK i \in 1 .. Len(s) : x = s[i]
    BY DEF Members
  <2>2. i - 1 \in 1 .. Len(s) - 1 /\ Tail(s)[i - 1] = s[i]
    <3>1. i # 1
      BY <1>3, <1>4, <2>1
    <3>2. i - 1 \in 1 .. Len(s) - 1 /\ (i - 1) + 1 = i
      BY <1>3, <3>1
    <3> QED
      BY <1>3, <3>2
  <2>3. i - 1 \in DOMAIN Tail(s)
    BY <1>3, <2>2
  <2> QED
    BY <2>1, <2>2, <2>3 DEF Members
<1>5. ASSUME NEW x \in Members(Tail(s))
      PROVE  x \in Members(s)
  <2>1. PICK i \in 1 .. Len(s) - 1 : x = s[i + 1]
    BY <1>3 DEF Members
  <2>2. i + 1 \in 1 .. Len(s)
    BY <1>3
  <2> QED
    BY <2>1, <2>2 DEF Members
<1>6. Head(s) \in Members(s)
  BY <1>3 DEF Members
<1> QED
  BY <1>3, <1>4, <1>5, <1>6

\* What each step of a plan is followed by.
PlanStep(name, b) ==
  /\ b \in Seq(Steps) /\ Tail(b) \in Seq(Steps) /\ Head(b) \in Steps
  /\ Head(b) \notin {"write", "replace"}
  /\ Head(b) # "open" => Tail(b) \in Plans(name)
  /\ Head(b) = "open" => name = "link" /\ Tail(b) = <<"write", "replace", "call", "call">>
  /\ Head(b) = "list" => Tail(b) # <<>> /\ Head(Tail(b)) = "load" /\ ~SwitchesRecording(name)
  /\ Head(b) \in {"list", "load"} => Finds(b) \/ name \in {"companies", "link"}
  /\ Head(b) = "find" => name = "use-company" /\ Tail(b) = <<"select", "tell">>
  /\ Head(b) \in {"sync", "select"} => name \in {"companies", "use-company"}
  /\ Head(b) \in {"require", "select"} => name \in Linkers /\ ~Finds(Tail(b))
  /\ Head(b) = "require" => name # "use-company"
  /\ Head(b) = "switch" => SwitchesRecording(name) /\ "switch" \notin Members(Tail(b))
  /\ Head(b) \in {"switch", "tell", "revoke", "remove"} => name \in Linkers /\ ~Finds(b)
  /\ Head(b) = "call" => name = "link"
  /\ Head(b) \in {"revoke", "remove"} => name = "unlink"
  /\ name = "unlink" =>
       /\ "revoke" \in Members(b) => "remove" \in Members(b)
       /\ Head(b) = "require" => "revoke" \in Members(Tail(b))
  /\ SwitchesRecording(name) /\ Head(b) = "require" => "switch" \in Members(Tail(b))
  /\ Head(b) = "tell" => ("switch" \in Members(b) <=> name = "stop-recording")

LEMMA PlanSteps ==
  ASSUME NEW name \in AllCommands, NEW b \in Plans(name), b # <<>>
  PROVE  PlanStep(name, b)
<1> USE DEF PlanStep, SwitchesRecording, Linkers
<1>1. CASE name = "companies"
  <2>1. CASE b = <<"list", "load", "sync">>
    <3>1. /\ Head(b) = "list" /\ Tail(b) = <<"load", "sync">> /\ b \in Seq(Steps) /\ Tail(b) \in Seq(Steps)
      BY <2>1 DEF Steps
    <3>2. Members(b) = {"list", "load", "sync"} /\ Members(Tail(b)) = {"load", "sync"}
      BY <2>1, <3>1 DEF Members
    <3>3. Tail(b) \in Plans(name) \/ Head(b) = "open"
      BY <1>1, <3>1 DEF Plans
    <3>4. <<"load", "sync">> # <<>> /\ Head(<<"load", "sync">>) = "load"
      OBVIOUS
    <3>5. Tail(b) # <<>> /\ Head(Tail(b)) = "load"
      BY <3>1, <3>4, Zenon
    <3> QED
      BY <1>1, <3>2, <3>1, <3>3, <3>5 DEF Finds
  <2>2. CASE b = <<"load", "sync">>
    <3>1. /\ Head(b) = "load" /\ Tail(b) = <<"sync">> /\ b \in Seq(Steps) /\ Tail(b) \in Seq(Steps)
      BY <2>2 DEF Steps
    <3>2. Members(b) = {"load", "sync"} /\ Members(Tail(b)) = {"sync"}
      BY <2>2, <3>1 DEF Members
    <3>3. Tail(b) \in Plans(name) \/ Head(b) = "open"
      BY <1>1, <3>1 DEF Plans
    <3> QED
      BY <1>1, <3>1, <3>2, <3>3 DEF Finds
  <2>3. CASE b = <<"sync">>
    <3>1. /\ Head(b) = "sync" /\ Tail(b) = <<>> /\ b \in Seq(Steps) /\ Tail(b) \in Seq(Steps)
      BY <2>3 DEF Steps
    <3>2. Members(b) = {"sync"} /\ Members(Tail(b)) = {}
      BY <2>3, <3>1 DEF Members
    <3>3. Tail(b) \in Plans(name) \/ Head(b) = "open"
      BY <1>1, <3>1 DEF Plans
    <3> QED
      BY <1>1, <3>1, <3>2, <3>3 DEF Finds
  <2> QED
    BY <1>1, <2>1, <2>2, <2>3 DEF Plans
<1>2. CASE name = "link"
  <2>1. CASE b = <<"load", "open", "write", "replace", "call", "call">>
    <3>1. /\ Head(b) = "load" /\ Tail(b) = <<"open", "write", "replace", "call", "call">> /\ b \in Seq(Steps) /\ Tail(b) \in Seq(Steps)
      BY <2>1 DEF Steps
    <3>2. Members(b) = {"load", "open", "write", "replace", "call"} /\ Members(Tail(b)) = {"open", "write", "replace", "call"}
      BY <2>1, <3>1 DEF Members
    <3>3. Tail(b) \in Plans(name) \/ Head(b) = "open"
      BY <1>2, <3>1 DEF Plans
    <3> QED
      BY <1>2, <3>1, <3>2, <3>3 DEF Finds
  <2>2. CASE b = <<"open", "write", "replace", "call", "call">>
    <3>1. /\ Head(b) = "open" /\ Tail(b) = <<"write", "replace", "call", "call">> /\ b \in Seq(Steps) /\ Tail(b) \in Seq(Steps)
      BY <2>2 DEF Steps
    <3>2. Members(b) = {"open", "write", "replace", "call"} /\ Members(Tail(b)) = {"write", "replace", "call"}
      BY <2>2, <3>1 DEF Members
    <3>3. Tail(b) \in Plans(name) \/ Head(b) = "open"
      BY <1>2, <3>1 DEF Plans
    <3> QED
      BY <1>2, <3>1, <3>2, <3>3 DEF Finds
  <2>3. CASE b = <<"call", "call">>
    <3>1. /\ Head(b) = "call" /\ Tail(b) = <<"call">> /\ b \in Seq(Steps) /\ Tail(b) \in Seq(Steps)
      BY <2>3 DEF Steps
    <3>2. Members(b) = {"call"} /\ Members(Tail(b)) = {"call"}
      BY <2>3, <3>1 DEF Members
    <3>3. Tail(b) \in Plans(name) \/ Head(b) = "open"
      BY <1>2, <3>1 DEF Plans
    <3> QED
      BY <1>2, <3>1, <3>2, <3>3 DEF Finds
  <2>4. CASE b = <<"call">>
    <3>1. /\ Head(b) = "call" /\ Tail(b) = <<>> /\ b \in Seq(Steps) /\ Tail(b) \in Seq(Steps)
      BY <2>4 DEF Steps
    <3>2. Members(b) = {"call"} /\ Members(Tail(b)) = {}
      BY <2>4, <3>1 DEF Members
    <3>3. Tail(b) \in Plans(name) \/ Head(b) = "open"
      BY <1>2, <3>1 DEF Plans
    <3> QED
      BY <1>2, <3>1, <3>2, <3>3 DEF Finds
  <2> QED
    BY <1>2, <2>1, <2>2, <2>3, <2>4 DEF Plans
<1>3. CASE name = "use-company"
  <2>1. CASE b = <<"load", "find", "select", "tell">>
    <3>1. /\ Head(b) = "load" /\ Tail(b) = <<"find", "select", "tell">> /\ b \in Seq(Steps) /\ Tail(b) \in Seq(Steps)
      BY <2>1 DEF Steps
    <3>2. Members(b) = {"load", "find", "select", "tell"} /\ Members(Tail(b)) = {"find", "select", "tell"}
      BY <2>1, <3>1 DEF Members
    <3>3. Tail(b) \in Plans(name) \/ Head(b) = "open"
      BY <1>3, <3>1 DEF Plans
    <3> QED
      BY <1>3, <3>1, <3>2, <3>3 DEF Finds
  <2>2. CASE b = <<"find", "select", "tell">>
    <3>1. /\ Head(b) = "find" /\ Tail(b) = <<"select", "tell">> /\ b \in Seq(Steps) /\ Tail(b) \in Seq(Steps)
      BY <2>2 DEF Steps
    <3>2. Members(b) = {"find", "select", "tell"} /\ Members(Tail(b)) = {"select", "tell"}
      BY <2>2, <3>1 DEF Members
    <3>3. Tail(b) \in Plans(name) \/ Head(b) = "open"
      BY <1>3, <3>1 DEF Plans
    <3> QED
      BY <1>3, <3>1, <3>2, <3>3 DEF Finds
  <2>3. CASE b = <<"list", "load", "sync", "select", "tell">>
    <3>1. /\ Head(b) = "list" /\ Tail(b) = <<"load", "sync", "select", "tell">> /\ b \in Seq(Steps) /\ Tail(b) \in Seq(Steps)
      BY <2>3 DEF Steps
    <3>2. Members(b) = {"list", "load", "sync", "select", "tell"} /\ Members(Tail(b)) = {"load", "sync", "select", "tell"}
      BY <2>3, <3>1 DEF Members
    <3>3. Tail(b) \in Plans(name) \/ Head(b) = "open"
      BY <1>3, <3>1 DEF Plans
    <3>4. <<"load", "sync", "select", "tell">> # <<>> /\ Head(<<"load", "sync", "select", "tell">>) = "load"
      OBVIOUS
    <3>5. Tail(b) # <<>> /\ Head(Tail(b)) = "load"
      BY <3>1, <3>4, Zenon
    <3> QED
      BY <1>3, <3>2, <3>1, <3>3, <3>5 DEF Finds
  <2>4. CASE b = <<"load", "sync", "select", "tell">>
    <3>1. /\ Head(b) = "load" /\ Tail(b) = <<"sync", "select", "tell">> /\ b \in Seq(Steps) /\ Tail(b) \in Seq(Steps)
      BY <2>4 DEF Steps
    <3>2. Members(b) = {"load", "sync", "select", "tell"} /\ Members(Tail(b)) = {"sync", "select", "tell"}
      BY <2>4, <3>1 DEF Members
    <3>3. Tail(b) \in Plans(name) \/ Head(b) = "open"
      BY <1>3, <3>1 DEF Plans
    <3> QED
      BY <1>3, <3>1, <3>2, <3>3 DEF Finds
  <2>5. CASE b = <<"sync", "select", "tell">>
    <3>1. /\ Head(b) = "sync" /\ Tail(b) = <<"select", "tell">> /\ b \in Seq(Steps) /\ Tail(b) \in Seq(Steps)
      BY <2>5 DEF Steps
    <3>2. Members(b) = {"sync", "select", "tell"} /\ Members(Tail(b)) = {"select", "tell"}
      BY <2>5, <3>1 DEF Members
    <3>3. Tail(b) \in Plans(name) \/ Head(b) = "open"
      BY <1>3, <3>1 DEF Plans
    <3> QED
      BY <1>3, <3>1, <3>2, <3>3 DEF Finds
  <2>6. CASE b = <<"select", "tell">>
    <3>1. /\ Head(b) = "select" /\ Tail(b) = <<"tell">> /\ b \in Seq(Steps) /\ Tail(b) \in Seq(Steps)
      BY <2>6 DEF Steps
    <3>2. Members(b) = {"select", "tell"} /\ Members(Tail(b)) = {"tell"}
      BY <2>6, <3>1 DEF Members
    <3>3. Tail(b) \in Plans(name) \/ Head(b) = "open"
      BY <1>3, <3>1 DEF Plans
    <3> QED
      BY <1>3, <3>1, <3>2, <3>3 DEF Finds
  <2>7. CASE b = <<"tell">>
    <3>1. /\ Head(b) = "tell" /\ Tail(b) = <<>> /\ b \in Seq(Steps) /\ Tail(b) \in Seq(Steps)
      BY <2>7 DEF Steps
    <3>2. Members(b) = {"tell"} /\ Members(Tail(b)) = {}
      BY <2>7, <3>1 DEF Members
    <3>3. Tail(b) \in Plans(name) \/ Head(b) = "open"
      BY <1>3, <3>1 DEF Plans
    <3> QED
      BY <1>3, <3>1, <3>2, <3>3 DEF Finds
  <2> QED
    BY <1>3, <2>1, <2>2, <2>3, <2>4, <2>5, <2>6, <2>7 DEF Plans
<1>4. CASE name = "start-recording"
  <2>1. CASE b = <<"load", "require", "switch", "tell">>
    <3>1. /\ Head(b) = "load" /\ Tail(b) = <<"require", "switch", "tell">> /\ b \in Seq(Steps) /\ Tail(b) \in Seq(Steps)
      BY <2>1 DEF Steps
    <3>2. Members(b) = {"load", "require", "switch", "tell"} /\ Members(Tail(b)) = {"require", "switch", "tell"}
      BY <2>1, <3>1 DEF Members
    <3>3. Tail(b) \in Plans(name) \/ Head(b) = "open"
      BY <1>4, <3>1 DEF Plans
    <3> QED
      BY <1>4, <3>1, <3>2, <3>3 DEF Finds
  <2>2. CASE b = <<"require", "switch", "tell">>
    <3>1. /\ Head(b) = "require" /\ Tail(b) = <<"switch", "tell">> /\ b \in Seq(Steps) /\ Tail(b) \in Seq(Steps)
      BY <2>2 DEF Steps
    <3>2. Members(b) = {"require", "switch", "tell"} /\ Members(Tail(b)) = {"switch", "tell"}
      BY <2>2, <3>1 DEF Members
    <3>3. Tail(b) \in Plans(name) \/ Head(b) = "open"
      BY <1>4, <3>1 DEF Plans
    <3> QED
      BY <1>4, <3>1, <3>2, <3>3 DEF Finds
  <2>3. CASE b = <<"switch", "tell">>
    <3>1. /\ Head(b) = "switch" /\ Tail(b) = <<"tell">> /\ b \in Seq(Steps) /\ Tail(b) \in Seq(Steps)
      BY <2>3 DEF Steps
    <3>2. Members(b) = {"switch", "tell"} /\ Members(Tail(b)) = {"tell"}
      BY <2>3, <3>1 DEF Members
    <3>3. Tail(b) \in Plans(name) \/ Head(b) = "open"
      BY <1>4, <3>1 DEF Plans
    <3> QED
      BY <1>4, <3>1, <3>2, <3>3 DEF Finds
  <2>4. CASE b = <<"tell">>
    <3>1. /\ Head(b) = "tell" /\ Tail(b) = <<>> /\ b \in Seq(Steps) /\ Tail(b) \in Seq(Steps)
      BY <2>4 DEF Steps
    <3>2. Members(b) = {"tell"} /\ Members(Tail(b)) = {}
      BY <2>4, <3>1 DEF Members
    <3>3. Tail(b) \in Plans(name) \/ Head(b) = "open"
      BY <1>4, <3>1 DEF Plans
    <3> QED
      BY <1>4, <3>1, <3>2, <3>3 DEF Finds
  <2> QED
    BY <1>4, <2>1, <2>2, <2>3, <2>4 DEF Plans
<1>5. CASE name = "stop-recording"
  <2>1. CASE b = <<"load", "require", "tell", "tell", "switch">>
    <3>1. /\ Head(b) = "load" /\ Tail(b) = <<"require", "tell", "tell", "switch">> /\ b \in Seq(Steps) /\ Tail(b) \in Seq(Steps)
      BY <2>1 DEF Steps
    <3>2. Members(b) = {"load", "require", "tell", "switch"} /\ Members(Tail(b)) = {"require", "tell", "switch"}
      BY <2>1, <3>1 DEF Members
    <3>3. Tail(b) \in Plans(name) \/ Head(b) = "open"
      BY <1>5, <3>1 DEF Plans
    <3> QED
      BY <1>5, <3>1, <3>2, <3>3 DEF Finds
  <2>2. CASE b = <<"require", "tell", "tell", "switch">>
    <3>1. /\ Head(b) = "require" /\ Tail(b) = <<"tell", "tell", "switch">> /\ b \in Seq(Steps) /\ Tail(b) \in Seq(Steps)
      BY <2>2 DEF Steps
    <3>2. Members(b) = {"require", "tell", "switch"} /\ Members(Tail(b)) = {"tell", "switch"}
      BY <2>2, <3>1 DEF Members
    <3>3. Tail(b) \in Plans(name) \/ Head(b) = "open"
      BY <1>5, <3>1 DEF Plans
    <3> QED
      BY <1>5, <3>1, <3>2, <3>3 DEF Finds
  <2>3. CASE b = <<"tell", "tell", "switch">>
    <3>1. /\ Head(b) = "tell" /\ Tail(b) = <<"tell", "switch">> /\ b \in Seq(Steps) /\ Tail(b) \in Seq(Steps)
      BY <2>3 DEF Steps
    <3>2. Members(b) = {"tell", "switch"} /\ Members(Tail(b)) = {"tell", "switch"}
      BY <2>3, <3>1 DEF Members
    <3>3. Tail(b) \in Plans(name) \/ Head(b) = "open"
      BY <1>5, <3>1 DEF Plans
    <3> QED
      BY <1>5, <3>1, <3>2, <3>3 DEF Finds
  <2>4. CASE b = <<"tell", "switch">>
    <3>1. /\ Head(b) = "tell" /\ Tail(b) = <<"switch">> /\ b \in Seq(Steps) /\ Tail(b) \in Seq(Steps)
      BY <2>4 DEF Steps
    <3>2. Members(b) = {"tell", "switch"} /\ Members(Tail(b)) = {"switch"}
      BY <2>4, <3>1 DEF Members
    <3>3. Tail(b) \in Plans(name) \/ Head(b) = "open"
      BY <1>5, <3>1 DEF Plans
    <3> QED
      BY <1>5, <3>1, <3>2, <3>3 DEF Finds
  <2>5. CASE b = <<"switch">>
    <3>1. /\ Head(b) = "switch" /\ Tail(b) = <<>> /\ b \in Seq(Steps) /\ Tail(b) \in Seq(Steps)
      BY <2>5 DEF Steps
    <3>2. Members(b) = {"switch"} /\ Members(Tail(b)) = {}
      BY <2>5, <3>1 DEF Members
    <3>3. Tail(b) \in Plans(name) \/ Head(b) = "open"
      BY <1>5, <3>1 DEF Plans
    <3> QED
      BY <1>5, <3>1, <3>2, <3>3 DEF Finds
  <2> QED
    BY <1>5, <2>1, <2>2, <2>3, <2>4, <2>5 DEF Plans
<1>6. CASE name = "unlink"
  <2>1. CASE b = <<"load", "require", "tell", "revoke", "remove">>
    <3>1. /\ Head(b) = "load" /\ Tail(b) = <<"require", "tell", "revoke", "remove">> /\ b \in Seq(Steps) /\ Tail(b) \in Seq(Steps)
      BY <2>1 DEF Steps
    <3>2. Members(b) = {"load", "require", "tell", "revoke", "remove"} /\ Members(Tail(b)) = {"require", "tell", "revoke", "remove"}
      BY <2>1, <3>1 DEF Members
    <3>3. Tail(b) \in Plans(name) \/ Head(b) = "open"
      BY <1>6, <3>1 DEF Plans
    <3> QED
      BY <1>6, <3>1, <3>2, <3>3 DEF Finds
  <2>2. CASE b = <<"require", "tell", "revoke", "remove">>
    <3>1. /\ Head(b) = "require" /\ Tail(b) = <<"tell", "revoke", "remove">> /\ b \in Seq(Steps) /\ Tail(b) \in Seq(Steps)
      BY <2>2 DEF Steps
    <3>2. Members(b) = {"require", "tell", "revoke", "remove"} /\ Members(Tail(b)) = {"tell", "revoke", "remove"}
      BY <2>2, <3>1 DEF Members
    <3>3. Tail(b) \in Plans(name) \/ Head(b) = "open"
      BY <1>6, <3>1 DEF Plans
    <3> QED
      BY <1>6, <3>1, <3>2, <3>3 DEF Finds
  <2>3. CASE b = <<"tell", "revoke", "remove">>
    <3>1. /\ Head(b) = "tell" /\ Tail(b) = <<"revoke", "remove">> /\ b \in Seq(Steps) /\ Tail(b) \in Seq(Steps)
      BY <2>3 DEF Steps
    <3>2. Members(b) = {"tell", "revoke", "remove"} /\ Members(Tail(b)) = {"revoke", "remove"}
      BY <2>3, <3>1 DEF Members
    <3>3. Tail(b) \in Plans(name) \/ Head(b) = "open"
      BY <1>6, <3>1 DEF Plans
    <3> QED
      BY <1>6, <3>1, <3>2, <3>3 DEF Finds
  <2>4. CASE b = <<"revoke", "remove">>
    <3>1. /\ Head(b) = "revoke" /\ Tail(b) = <<"remove">> /\ b \in Seq(Steps) /\ Tail(b) \in Seq(Steps)
      BY <2>4 DEF Steps
    <3>2. Members(b) = {"revoke", "remove"} /\ Members(Tail(b)) = {"remove"}
      BY <2>4, <3>1 DEF Members
    <3>3. Tail(b) \in Plans(name) \/ Head(b) = "open"
      BY <1>6, <3>1 DEF Plans
    <3> QED
      BY <1>6, <3>1, <3>2, <3>3 DEF Finds
  <2>5. CASE b = <<"remove">>
    <3>1. /\ Head(b) = "remove" /\ Tail(b) = <<>> /\ b \in Seq(Steps) /\ Tail(b) \in Seq(Steps)
      BY <2>5 DEF Steps
    <3>2. Members(b) = {"remove"} /\ Members(Tail(b)) = {}
      BY <2>5, <3>1 DEF Members
    <3>3. Tail(b) \in Plans(name) \/ Head(b) = "open"
      BY <1>6, <3>1 DEF Plans
    <3> QED
      BY <1>6, <3>1, <3>2, <3>3 DEF Finds
  <2> QED
    BY <1>6, <2>1, <2>2, <2>3, <2>4, <2>5 DEF Plans
<1> QED
  BY <1>1, <1>2, <1>3, <1>4, <1>5, <1>6 DEF AllCommands

\* What a save and a plan make together.
LEMMA SaveThenPlan ==
  ASSUME NEW a \in Saves, NEW b \in Seq(Steps)
  PROVE  /\ a \o b \in Seq(Steps) /\ Members(a \o b) = Members(a) \union Members(b)
         /\ Members(a) \subseteq {"open", "write", "replace"}
         /\ a = <<>> => a \o b = b
         /\ a # <<>> => /\ a \o b # <<>> /\ Head(a \o b) = Head(a) /\ Tail(a \o b) = Tail(a) \o b
                        /\ Tail(a) \in Saves
<1>1. a \in Seq(Steps) /\ Members(a) \subseteq {"open", "write", "replace"}
  <2>1. CASE a = <<>>
    BY <2>1 DEF Members
  <2>2. CASE a = <<"replace">>
    BY <2>2 DEF Members, Steps
  <2>3. CASE a = <<"write", "replace">>
    BY <2>3 DEF Members, Steps
  <2>4. CASE a = <<"open", "write", "replace">>
    BY <2>4 DEF Members, Steps
  <2> QED
    BY <2>1, <2>2, <2>3, <2>4 DEF Saves
<1>2. /\ a \o b \in Seq(Steps) /\ Len(a \o b) = Len(a) + Len(b) /\ Len(a) \in Nat /\ Len(b) \in Nat
      /\ \A i \in 1 .. Len(a) + Len(b) :
           (a \o b)[i] = IF i <= Len(a) THEN a[i] ELSE b[i - Len(a)]
  BY <1>1, ConcatProperties, LenProperties
<1>3. Members(a \o b) = Members(a) \union Members(b)
  <2>1. ASSUME NEW x \in Members(a \o b)
        PROVE  x \in Members(a) \union Members(b)
    <3>1. PICK i \in 1 .. Len(a) + Len(b) : x = (a \o b)[i]
      BY <1>2 DEF Members
    <3>2. CASE i <= Len(a)
      BY <1>1, <1>2, <3>1, <3>2 DEF Members
    <3>3. CASE i > Len(a)
      <4>1. i - Len(a) \in 1 .. Len(b) /\ x = b[i - Len(a)]
        BY <1>2, <3>1, <3>3
      <4> QED
        BY <4>1 DEF Members
    <3> QED
      BY <1>2, <3>1, <3>2, <3>3
  <2>2. ASSUME NEW x \in Members(a)
        PROVE  x \in Members(a \o b)
    <3>1. PICK i \in 1 .. Len(a) : x = a[i]
      BY <1>1 DEF Members
    <3>2. i \in 1 .. Len(a) + Len(b) /\ x = (a \o b)[i]
      BY <1>2, <3>1
    <3> QED
      BY <1>2, <3>2 DEF Members
  <2>3. ASSUME NEW x \in Members(b)
        PROVE  x \in Members(a \o b)
    <3>1. PICK i \in 1 .. Len(b) : x = b[i]
      BY DEF Members
    <3>2. /\ i + Len(a) \in 1 .. Len(a) + Len(b) /\ ~(i + Len(a) <= Len(a))
          /\ (i + Len(a)) - Len(a) = i
      BY <1>2, <3>1
    <3>3. x = (a \o b)[i + Len(a)]
      BY <1>2, <3>1, <3>2
    <3> QED
      BY <1>2, <3>2, <3>3 DEF Members
  <2> QED
    BY <2>1, <2>2, <2>3
<1>4. a = <<>> => a \o b = b
  BY ConcatEmptySeq
<1>5. ASSUME a # <<>>
      PROVE  a \o b # <<>> /\ Head(a \o b) = Head(a) /\ Tail(a \o b) = Tail(a) \o b
  <2>1. /\ Tail(a) \in Seq(Steps) /\ Len(a) \in Nat \ {0} /\ Len(Tail(a)) = Len(a) - 1
        /\ \A i \in 1 .. Len(a) - 1 : Tail(a)[i] = a[i + 1]
    BY <1>1, <1>5, HeadTailProperties, EmptySeq
  <2>2. a \o b # <<>> /\ Len(a \o b) # 0
    BY <1>2, <2>1
  <2>3. /\ Tail(a \o b) \in Seq(Steps) /\ Len(Tail(a \o b)) = Len(a) + Len(b) - 1
        /\ \A i \in 1 .. Len(a) + Len(b) - 1 : Tail(a \o b)[i] = (a \o b)[i + 1]
    BY <1>2, <2>2, HeadTailProperties
  <2>4. /\ Tail(a) \o b \in Seq(Steps) /\ Len(Tail(a) \o b) = Len(a) + Len(b) - 1
        /\ \A i \in 1 .. Len(a) + Len(b) - 1 :
             (Tail(a) \o b)[i] = IF i <= Len(a) - 1 THEN Tail(a)[i] ELSE b[i - (Len(a) - 1)]
    BY <1>2, <2>1, ConcatProperties
  <2>5. ASSUME NEW i \in 1 .. Len(a) + Len(b) - 1
        PROVE  Tail(a \o b)[i] = (Tail(a) \o b)[i]
    <3>1. /\ i + 1 \in 1 .. Len(a) + Len(b) /\ Tail(a \o b)[i] = (a \o b)[i + 1]
          /\ (i + 1) - Len(a) = i - (Len(a) - 1) /\ (i + 1 <= Len(a) <=> i <= Len(a) - 1)
      BY <1>2, <2>1, <2>3
    <3>2. Tail(a \o b)[i] = IF i + 1 <= Len(a) THEN a[i + 1] ELSE b[(i + 1) - Len(a)]
      BY <1>2, <3>1
    <3>3. i <= Len(a) - 1 => Tail(a)[i] = a[i + 1]
      BY <1>2, <2>1
    <3> QED
      BY <2>4, <3>1, <3>2, <3>3
  <2>6. Tail(a \o b) = Tail(a) \o b
    BY <2>3, <2>4, <2>5, SeqEqual
  <2>7. Head(a \o b) = Head(a)
    <3>1. Head(a \o b) = (a \o b)[1] /\ Head(a) = a[1]
      BY <1>1, <1>2, <1>5, <2>2
    <3>2. 1 \in 1 .. Len(a) + Len(b) /\ 1 <= Len(a)
      BY <1>2, <2>1
    <3> QED
      BY <1>2, <3>1, <3>2
  <2> QED
    BY <2>2, <2>6, <2>7
<1>6. a # <<>> => Tail(a) \in Saves
  <2>1. /\ Tail(<<"replace">>) = <<>> /\ Tail(<<"write", "replace">>) = <<"replace">>
        /\ Tail(<<"open", "write", "replace">>) = <<"write", "replace">>
    OBVIOUS
  <2> QED
    BY <2>1, Zenon DEF Saves
<1> QED
  BY <1>1, <1>2, <1>3, <1>4, <1>5, <1>6

\* What a plan finds and does is in its first step or in the others.
LEMMA PlanTail ==
  ASSUME NEW b \in Seq(Steps), b # <<>>
  PROVE  /\ Head(b) \notin {"require", "select"} => (Finds(Tail(b)) <=> Finds(b))
         /\ Head(b) # "revoke" => ("revoke" \in Members(Tail(b)) <=> "revoke" \in Members(b))
         /\ Head(b) # "switch" => ("switch" \in Members(Tail(b)) <=> "switch" \in Members(b))
<1>1. Members(b) = {Head(b)} \union Members(Tail(b))
  BY MembersOf
<1> QED
  BY <1>1 DEF Finds

\* A set of links has a newest one.
LEMMA NewestIsThere ==
  ASSUME NEW links, IsFiniteSet(links), links # {}, \A l \in links : l.n \in Nat
  PROVE  \E l \in links : \A k \in links : k.n <= l.n
<1> DEFINE newer(l) == {k \in links : k.n > l.n}
           families == {newer(l) : l \in links}
<1>1. families # {} /\ families \subseteq FiniteSubsetsOf(links)
  <2>1. \A l \in links : newer(l) \in SUBSET links /\ IsFiniteSet(newer(l))
    BY FS_Subset
  <2> QED
    BY <2>1 DEF FiniteSubsetsOf
<1>2. PICK least \in families : \A y \in families : <<y, least>> \notin StrictSubsetOrdering(links)
  <2> HIDE DEF families
  <2> QED
    BY <1>1, FS_StrictSubsetOrderingWellFounded, WFMin
<1>3. PICK l \in links : least = newer(l)
  BY <1>2
<1>4. SUFFICES ASSUME NEW k \in links, ~(k.n <= l.n)
               PROVE  FALSE
  OBVIOUS
<1>5. newer(k) \subseteq newer(l) /\ k \in newer(l) /\ k \notin newer(k)
  BY <1>4
<1>6. newer(k) \in families /\ newer(k) \subseteq links /\ newer(l) \subseteq links
  OBVIOUS
<1>7. <<newer(k), newer(l)>> \in StrictSubsetOrdering(links)
  <2> HIDE DEF newer
  <2> QED
    BY <1>5, <1>6 DEF StrictSubsetOrdering
<1> QED
  BY <1>2, <1>3, <1>6, <1>7

\* The links of a company that a state knows have a newest one.
LEMMA NewestIsKnown ==
  ASSUME NEW s \in State, NEW c, \E l \in s.known : l.company = c
  PROVE  NewestOf(s, c) \in s.known /\ NewestOf(s, c).company = c
<1> DEFINE own == {l \in s.known : l.company = c}
<1>1. IsFiniteSet(own) /\ own # {} /\ \A l \in own : l.n \in Nat
  <2>1. own \subseteq Links
    BY DEF State
  <2> QED
    BY <2>1, LinksAssumption, FS_Subset
<1>2. \E l \in own : \A k \in own : k.n <= l.n
  <2> HIDE DEF own
  <2> QED
    BY <1>1, NewestIsThere
<1>3. \E l \in s.known : l.company = c /\ \A k \in s.known : k.company = c => k.n <= l.n
  BY <1>2
<1> QED
  BY <1>3 DEF NewestOf

-----------------------------------------------------------------------------
(* The backend.                                                              *)

\* What a step does to the links: none is forgotten, and a revocation is not lost.
BackendMoves ==
  /\ BackendInv' /\ DOMAIN calls' = DOMAIN calls
  /\ \A l \in Links : /\ backend[l] # "NONE" => backend'[l] # "NONE"
                      /\ Settled(l) => Settled(l)'

\* What a step of a call does to them: it revokes, and only then, or when the queue
\* was exposed, a revocation no longer waits.
LinksMove ==
  /\ backend' \in [Links -> {"NONE", "ACTIVE", "REVOKED"}]
  /\ \A l \in Links : backend'[l] = backend[l] \/ (backend[l] # "NONE" /\ backend'[l] = "REVOKED")
  /\ tail' \in {"clean", "open"} /\ exposed \subseteq exposed' /\ exposed' \subseteq Links
  /\ \A l \in revoking' : l \in Links /\ backend[l] # "NONE"
  /\ \A l \in Links : Settled(l) => Settled(l)'

LEMMA LinksAreMoved ==
  ASSUME BackendInv, LinksMove
  PROVE  /\ \A l \in Links : (backend[l] # "NONE" => backend'[l] # "NONE") /\ (Done(l) => Done(l)')
         /\ revoking' \subseteq {l \in Links : backend'[l] # "NONE"}
         /\ \A k, l \in Links : k.company = l.company /\ k.device = l.device /\ k.n < l.n
                                  /\ backend'[l] # "NONE" => backend'[k] = "REVOKED"
<1>1. \A l \in Links : backend[l] \in {"NONE", "ACTIVE", "REVOKED"} /\ (backend'[l] # "NONE" <=> backend[l] # "NONE")
  BY DEF BackendInv, LinksMove
<1>2. \A l \in Links : backend[l] = "REVOKED" => backend'[l] = "REVOKED"
  BY DEF LinksMove
<1>3. \A l \in Links : Done(l) => Done(l)'
  BY <1>2 DEF LinksMove, Done
<1>4. revoking' \subseteq {l \in Links : backend'[l] # "NONE"}
  BY <1>1 DEF LinksMove
<1>5. ASSUME NEW k \in Links, NEW l \in Links, k.company = l.company, k.device = l.device,
             k.n < l.n, backend'[l] # "NONE"
      PROVE  backend'[k] = "REVOKED"
  BY <1>1, <1>2, <1>5 DEF BackendInv
<1> QED
  BY <1>1, <1>3, <1>4, <1>5

\* One process goes on with its call, which becomes k.
LEMMA CallGoesOn ==
  ASSUME BackendInv, LinksMove, NEW p \in DOMAIN calls, NEW k \in CallRecord,
         calls' = [calls EXCEPT ![p] = k],
         k.step # "none" => calls[p].step # "none" /\ k.alone = calls[p].alone,
         Agrees(k)',
         (\E q \in DOMAIN calls : q # p /\ calls[q].step = "send")
           => \A l \in Links : ~Done(l)' => (l \in revoking' <=> l \in revoking)
  PROVE  BackendMoves
<1>1. /\ DOMAIN calls' = DOMAIN calls /\ calls'[p] = k
      /\ \A q \in DOMAIN calls : q # p => calls'[q] = calls[q]
  OBVIOUS
<1>2. \A l \in Links : (backend[l] # "NONE" => backend'[l] # "NONE") /\ (Done(l) => Done(l)')
  BY LinksAreMoved
<1>3. calls' \in [DOMAIN calls' -> CallRecord]
  BY DEF BackendInv, CallsInv
<1>4. ASSUME NEW q \in DOMAIN calls, q # p
      PROVE  Agrees(calls[q])'
  <2>1. PICK m : m = calls[q]
    OBVIOUS
  <2>2. m \in CallRecord /\ Agrees(m) /\ m.links \subseteq Links
    BY <2>1 DEF BackendInv, CallsInv, CallRecord
  <2>3. \A l \in m.links : backend'[l] # "NONE"
    BY <1>2, <2>2 DEF Agrees
  <2>4. ASSUME m.step = "send", NEW l \in Links, ~Done(l)'
        PROVE  l \in m.links <=> l \in revoking'
    BY <1>2, <1>4, <2>1, <2>2, <2>4 DEF Agrees
  <2>5. Agrees(m)'
    BY <2>3, <2>4 DEF Agrees
  <2> QED
    BY <1>1, <1>4, <2>1, <2>5
<1>5. ASSUME NEW q \in DOMAIN calls
      PROVE  Agrees(calls[q])'
  <2>1. CASE q = p
    BY <1>1, <2>1
  <2>2. CASE q # p
    BY <1>4, <2>2
  <2> QED
    BY <2>1, <2>2
<1>6. ASSUME NEW q \in DOMAIN calls, NEW o \in DOMAIN calls, q # o,
             calls'[q].step # "none", calls'[q].alone
      PROVE  calls'[o].step = "none"
  <2>1. calls[q].step # "none" /\ calls[q].alone
    BY <1>1, <1>6
  <2>2. calls[o].step = "none"
    BY <1>6, <2>1 DEF BackendInv, CallsInv
  <2> QED
    BY <1>1, <2>2
<1>7. CallsInv'
  BY <1>1, <1>3, <1>5, <1>6 DEF CallsInv, LinksMove
<1>8. BackendInv'
  BY <1>7, LinksAreMoved DEF BackendInv, LinksMove
<1> QED
  BY <1>1, <1>2, <1>8 DEF BackendMoves, LinksMove

\* Nothing is lost of a backend that does not move.
LEMMA BackendStays ==
  ASSUME BackendInv, UNCHANGED backendVars
  PROVE  BackendMoves
<1>1. UNCHANGED <<backend, revoking, tail, calls, exposed>>
  BY DEF backendVars, queueVars
<1>2. CallsInv'
  BY <1>1 DEF BackendInv, CallsInv, Agrees, Done
<1> QED
  BY <1>1, <1>2 DEF BackendInv, BackendMoves, Settled

\* A call reads the queue; the others that are under way have met it.
LEMMA ReadMoves ==
  ASSUME BackendInv, DOMAIN calls = Processes, NEW p \in Processes, ReadQueue(p)
  PROVE  BackendMoves
<1>1. PICK found \in SUBSET revoking, step \in {"send", "append", "post"} :
        /\ Enters(p, step, IF step = "send" THEN found ELSE {})
        /\ exposed' = exposed \union (revoking \ found)
        /\ (revoking' = revoking /\ tail' = tail) \/ (revoking' = found /\ tail' = "clean")
        /\ backend' = backend
  BY DEF ReadQueue
<1>2. PICK k : k = [step |-> step, links |-> IF step = "send" THEN found ELSE {},
                    alone |-> \A o \in Processes \ {p} : ~InCall(o)]
  OBVIOUS
<1>3. /\ DOMAIN calls' = Processes /\ calls'[p] = k
      /\ \A q \in Processes : q # p =>
           calls'[q] = IF InCall(q) THEN [calls[q] EXCEPT !.alone = FALSE] ELSE calls[q]
  BY <1>1, <1>2 DEF Enters
<1>4. \A l \in revoking : l \in Links /\ backend[l] # "NONE"
  BY DEF BackendInv
<1>5. LinksMove
  <2>1. \A l \in Links : Settled(l) => Settled(l)'
    BY <1>1 DEF Settled
  <2> QED
    BY <1>1, <1>4, <2>1 DEF LinksMove, BackendInv, CallsInv
<1>6. \A l \in Links : ~Done(l)' => ~Done(l) /\ (l \in found <=> l \in revoking) /\ (l \in revoking' <=> l \in revoking)
  BY <1>1 DEF Done
<1>7. k \in CallRecord /\ k.step = step /\ (step = "send" => k.links = found)
      /\ k.links \subseteq revoking
  BY <1>1, <1>2, <1>4 DEF CallRecord
<1>8. Agrees(k)'
  BY <1>1, <1>4, <1>6, <1>7 DEF Agrees
<1>9. ASSUME NEW q \in Processes, q # p
      PROVE  /\ calls'[q] \in CallRecord /\ Agrees(calls[q])' /\ calls'[q].step = calls[q].step
             /\ calls'[q].step # "none" => ~calls'[q].alone
  <2>1. PICK m, d : m = calls[q] /\ d = calls'[q]
    OBVIOUS
  <2>2. m \in CallRecord /\ Agrees(m)
    BY <2>1 DEF BackendInv, CallsInv
  <2>3. /\ d \in CallRecord /\ d.step = m.step /\ d.links = m.links
        /\ d.step # "none" => d.alone = FALSE
    <3>1. d = IF m.step # "none" THEN [m EXCEPT !.alone = FALSE] ELSE m
      <4>1. InCall(q) <=> m.step # "none"
        BY <2>1 DEF InCall, At
      <4>2. d = IF InCall(q) THEN [calls[q] EXCEPT !.alone = FALSE] ELSE calls[q]
        BY <1>3, <1>9, <2>1
      <4> QED
        BY <2>1, <4>1, <4>2
    <3>2. m \in CallRecord
      BY <2>2
    <3>3. CASE m.step = "none"
      BY <3>1, <3>2, <3>3
    <3>4. CASE m.step # "none"
      <4>1. d = [m EXCEPT !.alone = FALSE]
        BY <3>1, <3>4
      <4> QED
        BY <3>2, <4>1 DEF CallRecord
    <3> QED
      BY <3>3, <3>4
  <2>4. Agrees(d)'
    <3>1. m.links \subseteq Links
      BY <2>2 DEF CallRecord
    <3> QED
      BY <1>1, <1>6, <2>2, <2>3, <3>1 DEF Agrees
  <2> QED
    BY <2>1, <2>3, <2>4
<1>10. CallsInv'
  <2>1. calls' \in [Processes -> CallRecord] /\ \A q \in Processes : Agrees(calls[q])'
    <3>1. calls' = [q \in Processes |-> calls'[q]]
      BY <1>1 DEF Enters
    <3>2. \A q \in Processes : calls'[q] \in CallRecord
      BY <1>3, <1>7, <1>9
    <3>3. Agrees(calls[p])'
      BY <1>3, <1>8
    <3> QED
      BY <1>9, <3>1, <3>2, <3>3
  <2>2. ASSUME NEW q \in Processes, NEW o \in Processes, q # o,
               calls'[q].step # "none", calls'[q].alone
        PROVE  calls'[o].step = "none"
    <3>1. q = p
      BY <1>9, <2>2
    <3>2. k.alone
      BY <1>3, <2>2, <3>1
    <3>3. ~InCall(o)
      BY <1>2, <2>2, <3>1, <3>2
    <3> QED
      BY <1>9, <2>2, <3>1, <3>3 DEF InCall, At
  <2> QED
    BY <1>3, <1>5, <2>1, <2>2 DEF CallsInv, LinksMove
<1>11. BackendInv'
  BY <1>5, <1>10, LinksAreMoved DEF BackendInv, LinksMove
<1> QED
  BY <1>3, <1>5, <1>11, LinksAreMoved DEF BackendMoves, LinksMove

\* A call sends what waits, rewrites or removes the file, or is not answered.
LEMMA FlushMoves ==
  ASSUME BackendInv, NEW p \in DOMAIN calls, NEW r,
         r.type = "revoke" => r.link \in Links /\ backend[r.link] # "NONE",
         SendQueued(p) \/ EmptyQueue(p) \/ KeepRest(p) \/ Unanswered(p, r)
  PROVE  BackendMoves
<1>1. PICK m : m = calls[p]
  OBVIOUS
<1>2. /\ m \in CallRecord /\ Agrees(m) /\ m.links \subseteq Links
      /\ \A l \in m.links : backend[l] # "NONE"
  BY <1>1 DEF BackendInv, CallsInv, CallRecord, Agrees
<1>3. /\ \A l \in revoking : l \in Links /\ backend[l] # "NONE"
      /\ backend \in [Links -> {"NONE", "ACTIVE", "REVOKED"}]
      /\ tail \in {"clean", "open"} /\ exposed \subseteq Links
  BY DEF BackendInv, CallsInv
<1>4. CASE SendQueued(p)
  <2>1. PICK l \in m.links :
          /\ backend' = [backend EXCEPT ![l] = "REVOKED"]
          /\ calls' = [calls EXCEPT ![p].links = @ \ {l}]
          /\ m.step = "send" /\ UNCHANGED <<revoking, tail, exposed>>
    BY <1>1, <1>4 DEF SendQueued, At
  <2>2. PICK k : k = [m EXCEPT !.links = @ \ {l}]
    OBVIOUS
  <2>3. k \in CallRecord /\ k.step = "send" /\ k.alone = m.alone /\ k.links = m.links \ {l}
    BY <1>2, <2>1, <2>2 DEF CallRecord
  <2>4. calls' = [calls EXCEPT ![p] = k]
    BY <1>1, <2>1, <2>2
  <2>5. LinksMove
    BY <1>2, <1>3, <2>1 DEF LinksMove, Settled
  <2>6. \A x \in Links : ~Done(x)' => ~Done(x) /\ x # l
    BY <1>3, <2>1 DEF Done
  <2>7. \A x \in k.links : backend'[x] # "NONE"
    BY <1>2, <1>3, <2>1, <2>3
  <2>8. Agrees(k)'
    BY <1>2, <2>1, <2>3, <2>6, <2>7 DEF Agrees
  <2> QED
    BY <1>1, <2>1, <2>3, <2>4, <2>5, <2>8, CallGoesOn
<1>5. CASE EmptyQueue(p)
  <2>1. /\ m.step = "send" /\ m.links = {} /\ revoking' = {} /\ tail' = "clean"
        /\ calls' = [calls EXCEPT ![p].step = "post"] /\ UNCHANGED <<backend, exposed>>
    BY <1>1, <1>5 DEF EmptyQueue, At
  <2>2. PICK k : k = [m EXCEPT !.step = "post"]
    OBVIOUS
  <2>3. k \in CallRecord /\ k.step = "post" /\ k.alone = m.alone /\ k.links = {}
    BY <1>2, <2>1, <2>2 DEF CallRecord
  <2>4. calls' = [calls EXCEPT ![p] = k]
    BY <1>1, <2>1, <2>2
  <2>5. \A l \in Links : ~Done(l) => l \notin revoking
    BY <1>2, <2>1 DEF Agrees
  <2>6. \A l \in Links : Settled(l) => Settled(l)'
    BY <2>1, <2>5 DEF Settled, Done
  <2>7. LinksMove
    BY <1>3, <2>1, <2>6 DEF LinksMove
  <2>8. Agrees(k)'
    BY <2>3 DEF Agrees
  <2>9. \A l \in Links : ~Done(l)' => (l \in revoking' <=> l \in revoking)
    BY <2>1, <2>5 DEF Done
  <2> QED
    BY <1>1, <2>1, <2>3, <2>4, <2>7, <2>8, <2>9, CallGoesOn
<1>6. CASE KeepRest(p)
  <2>1. /\ m.step = "send" /\ revoking' = m.links /\ tail' = "clean" /\ exposed' = exposed
        /\ backend' \in {backend} \union {[backend EXCEPT ![l] = "REVOKED"] : l \in m.links}
        /\ calls' = [calls EXCEPT ![p].step = "append", ![p].links = {}]
    BY <1>1, <1>6 DEF KeepRest, At
  <2>2. PICK k : k = [m EXCEPT !.step = "append", !.links = {}]
    OBVIOUS
  <2>3. k \in CallRecord /\ k.step = "append" /\ k.alone = m.alone /\ k.links = {}
    BY <1>2, <2>2 DEF CallRecord
  <2>4. calls' = [calls EXCEPT ![p] = k]
    BY <1>1, <2>1, <2>2
  <2>5. \A l \in Links : ~Done(l) => (l \in revoking' <=> l \in revoking)
    BY <1>2, <2>1 DEF Agrees
  <2>6. /\ backend' \in [Links -> {"NONE", "ACTIVE", "REVOKED"}]
        /\ \A l \in Links : backend'[l] = backend[l] \/ (backend[l] # "NONE" /\ backend'[l] = "REVOKED")
    BY <1>2, <1>3, <2>1
  <2>7. \A l \in Links : Done(l) => Done(l)'
    BY <2>1, <2>6 DEF Done
  <2>8. \A l \in Links : Settled(l) => Settled(l)'
    BY <2>5, <2>7 DEF Settled, Done
  <2>9. LinksMove
    BY <1>2, <1>3, <2>1, <2>6, <2>8 DEF LinksMove
  <2>10. Agrees(k)'
    BY <2>3 DEF Agrees
  <2> QED
    BY <1>1, <2>1, <2>3, <2>4, <2>5, <2>7, <2>9, <2>10, CallGoesOn
<1>7. CASE Unanswered(p, r)
  <2>1. /\ m.step = "post" /\ UNCHANGED <<revoking, tail, exposed>>
        /\ UNCHANGED backend \/ Delivered(r)
        /\ calls' = [calls EXCEPT ![p].step = "append"]
    BY <1>1, <1>7 DEF Unanswered, At
  <2>2. PICK k : k = [m EXCEPT !.step = "append"]
    OBVIOUS
  <2>3. k \in CallRecord /\ k.step = "append" /\ k.alone = m.alone /\ k.links = m.links
    BY <1>2, <2>2 DEF CallRecord
  <2>4. calls' = [calls EXCEPT ![p] = k]
    BY <1>1, <2>1, <2>2
  <2>5. /\ backend' \in [Links -> {"NONE", "ACTIVE", "REVOKED"}]
        /\ \A l \in Links : backend'[l] = backend[l] \/ (backend[l] # "NONE" /\ backend'[l] = "REVOKED")
    BY <1>3, <2>1 DEF Delivered
  <2>6. LinksMove
    <3>1. \A l \in Links : Settled(l) => Settled(l)'
      BY <2>1, <2>5 DEF Settled
    <3> QED
      BY <1>3, <2>1, <2>5, <3>1 DEF LinksMove
  <2>7. Agrees(k)'
    BY <1>2, <2>3, <2>5 DEF Agrees
  <2> QED
    BY <1>1, <2>1, <2>3, <2>4, <2>6, <2>7, CallGoesOn
<1> QED
  BY <1>4, <1>5, <1>6, <1>7

\* The end of a call: returned, raised or killed.
LEMMA EndMoves ==
  ASSUME BackendInv, NEW p \in DOMAIN calls, Ends(p), LinksMove,
         (\E q \in DOMAIN calls : q # p /\ calls[q].step = "send")
           => \A l \in Links : ~Done(l)' => (l \in revoking' <=> l \in revoking)
  PROVE  BackendMoves
<1>1. PICK k : k = NoCall
  OBVIOUS
<1>2. k \in CallRecord /\ k.step = "none" /\ k.links = {} /\ calls' = [calls EXCEPT ![p] = k]
  BY <1>1 DEF NoCall, CallRecord, Ends
<1>3. Agrees(k)'
  BY <1>2 DEF Agrees
<1> QED
  BY <1>2, <1>3, CallGoesOn

\* An append adds a revocation and takes none that another call has not met.
LEMMA WrittenMoves ==
  ASSUME BackendInv, NEW p \in DOMAIN calls, NEW r, Ends(p), Written(p, r), UNCHANGED backend,
         calls[p].step = "append", tail' \in {"clean", "open"},
         r.type = "revoke" => r.link \in Links /\ backend[r.link] # "NONE"
  PROVE  BackendMoves /\ (r.type = "revoke" => Settled(r.link)')
<1>1. PICK own : own = Own(r)
  OBVIOUS
<1>2. /\ \A l \in own : l \in Links /\ backend[l] # "NONE"
      /\ r.type = "revoke" => own = {r.link}
  BY <1>1 DEF Own
<1>3. /\ \A l \in revoking : l \in Links /\ backend[l] # "NONE"
      /\ backend \in [Links -> {"NONE", "ACTIVE", "REVOKED"}]
      /\ exposed \subseteq Links /\ calls[p].alone \in BOOLEAN
  BY DEF BackendInv, CallsInv, CallRecord
<1>4. CASE /\ revoking' = revoking \union own
           /\ exposed' = IF calls[p].alone THEN exposed ELSE exposed \union own
  <2>1. \A l \in Links : Settled(l) => Settled(l)'
    BY <1>4 DEF Settled
  <2>2. LinksMove
    BY <1>2, <1>3, <1>4, <2>1 DEF LinksMove
  <2>3. ASSUME NEW q \in DOMAIN calls, q # p, calls[q].step = "send"
        PROVE  \A l \in Links : ~Done(l)' => (l \in revoking' <=> l \in revoking)
    <3>1. ~calls[p].alone
      BY <2>3 DEF BackendInv, CallsInv
    <3> QED
      BY <1>4, <3>1 DEF Done
  <2>4. BackendMoves
    BY <2>2, <2>3, EndMoves
  <2>5. r.type = "revoke" => Settled(r.link)'
    BY <1>2, <1>4 DEF Settled
  <2> QED
    BY <2>4, <2>5
<1>5. CASE \E last \in {{}} \union {{l} : l \in revoking} :
             revoking' = revoking \ last /\ exposed' = exposed \union last \union own
  <2>1. PICK last \in SUBSET revoking :
               revoking' = revoking \ last /\ exposed' = exposed \union last \union own
    BY <1>5
  <2>2. \A l \in Links : Settled(l) => Settled(l)'
    BY <2>1 DEF Settled
  <2>3. LinksMove
    BY <1>2, <1>3, <2>1, <2>2 DEF LinksMove
  <2>4. \A l \in Links : ~Done(l)' => (l \in revoking' <=> l \in revoking)
    BY <2>1 DEF Done
  <2>5. BackendMoves
    BY <2>3, <2>4, EndMoves
  <2>6. r.type = "revoke" => Settled(r.link)'
    BY <1>2, <2>1 DEF Settled
  <2> QED
    BY <2>5, <2>6
<1> QED
  BY <1>1, <1>4, <1>5 DEF Written

\* A call, whatever becomes of it; a revocation that was taken is not lost.
LEMMA CallMoves ==
  ASSUME BackendInv, DOMAIN calls = Processes, NEW p \in Processes, NEW r,
         r.type = "revoke" => r.link \in Links /\ backend[r.link] # "NONE",
         Flushing(p, r) \/ Returns(p, r) \/ Raises(p, r) \/ Dropped(p, r)
  PROVE  BackendMoves /\ (Returns(p, r) /\ r.type = "revoke" => Settled(r.link)')
<1>1. PICK m : m = calls[p]
  OBVIOUS
<1>2. /\ m \in CallRecord /\ Agrees(m) /\ m.links \subseteq Links
      /\ \A l \in m.links : backend[l] # "NONE"
      /\ \A l \in revoking : l \in Links /\ backend[l] # "NONE"
      /\ backend \in [Links -> {"NONE", "ACTIVE", "REVOKED"}]
      /\ tail \in {"clean", "open"} /\ exposed \subseteq Links
  BY <1>1 DEF BackendInv, CallsInv, CallRecord, Agrees
<1>3. CASE Flushing(p, r) /\ ~Returns(p, r)
  BY <1>3, ReadMoves, FlushMoves DEF Flushing
<1>4. ASSUME Ends(p), UNCHANGED <<revoking, tail, exposed>>, UNCHANGED backend \/ Delivered(r)
      PROVE  BackendMoves
  <2>1. /\ backend' \in [Links -> {"NONE", "ACTIVE", "REVOKED"}]
        /\ \A l \in Links : backend'[l] = backend[l] \/ (backend[l] # "NONE" /\ backend'[l] = "REVOKED")
    BY <1>2, <1>4 DEF Delivered
  <2>2. \A l \in Links : Settled(l) => Settled(l)'
    BY <1>4, <2>1 DEF Settled
  <2>3. LinksMove
    BY <1>2, <1>4, <2>1, <2>2 DEF LinksMove
  <2> QED
    BY <1>4, <2>3, EndMoves
<1>5. CASE Returns(p, r)
  <2>1. CASE At(p, "post") /\ Delivered(r) /\ UNCHANGED <<revoking, tail, exposed>>
    <3>1. r.type = "revoke" => backend'[r.link] = "REVOKED"
      BY <1>2, <2>1 DEF Delivered
    <3>2. r.type = "revoke" => Settled(r.link)'
      BY <3>1 DEF Settled
    <3> QED
      BY <1>4, <1>5, <2>1, <3>2 DEF Returns
  <2>2. CASE At(p, "append") /\ Written(p, r) /\ tail' = "clean" /\ UNCHANGED backend
    BY <1>5, <2>2, WrittenMoves DEF Returns, At
  <2> QED
    BY <1>5, <2>1, <2>2 DEF Returns
<1>6. CASE Raises(p, r) /\ ~Returns(p, r)
  BY <1>4, <1>6 DEF Raises
<1>7. CASE Dropped(p, r) /\ ~Returns(p, r)
  <2>1. Ends(p) /\ UNCHANGED backend
    BY <1>7 DEF Dropped
  <2>2. CASE UNCHANGED <<revoking, tail, exposed>>
    BY <1>4, <1>7, <2>1, <2>2
  <2>3. CASE At(p, "append") /\ Written(p, r) /\ tail' = "open"
    BY <1>7, <2>1, <2>3, WrittenMoves DEF At
  <2>4. ASSUME At(p, "send"), NEW kept \in SUBSET m.links, revoking' = kept,
               exposed' = exposed \union (revoking \ kept), tail' \in {"clean", "open"}
        PROVE  BackendMoves
    <3>1. \A l \in Links : ~Done(l)' => ~Done(l) /\ (l \in revoking => l \in kept)
      BY <2>1, <2>4 DEF Done
    <3>2. \A l \in Links : ~Done(l) => (l \in m.links <=> l \in revoking)
      BY <1>1, <1>2, <2>4 DEF Agrees, At
    <3>3. \A l \in Links : ~Done(l)' => (l \in revoking' <=> l \in revoking)
      BY <2>4, <3>1, <3>2
    <3>4. \A l \in Links : Settled(l) => Settled(l)'
      BY <2>1, <2>4 DEF Settled
    <3>5. LinksMove
      BY <1>2, <2>1, <2>4, <3>4 DEF LinksMove
    <3> QED
      BY <2>1, <3>3, <3>5, EndMoves
  <2> QED
    BY <1>1, <1>7, <2>1, <2>2, <2>3, <2>4 DEF Dropped
<1> QED
  BY <1>3, <1>5, <1>6, <1>7

\* An auditor accepts an enrollment.
LEMMA AcceptanceMoves ==
  ASSUME BackendInv, NEW l \in Links, LinkAccepted(l)
  PROVE  BackendMoves
<1>1. /\ backend[l] = "NONE" /\ backend'[l] = "ACTIVE" /\ revoking' = revoking
      /\ \A k \in Links : k # l => backend'[k] = backend[k]
      /\ backend' \in [Links -> {"NONE", "ACTIVE", "REVOKED"}]
      /\ \A k \in Links : k.company = l.company /\ k.device = l.device /\ k.n < l.n => backend[k] = "REVOKED"
  BY DEF LinkAccepted, BackendInv, queueVars
<1>2. revoking' \subseteq {k \in Links : backend'[k] # "NONE"}
  BY <1>1 DEF BackendInv
<1>3. ASSUME NEW k \in Links, NEW m \in Links, k.company = m.company, k.device = m.device,
             k.n < m.n, backend'[m] # "NONE"
      PROVE  backend'[k] = "REVOKED"
  <2>1. CASE m = l
    <3>1. k # l
      BY <1>3, <2>1, LinksAssumption
    <3> QED
      BY <1>1, <1>3, <2>1, <3>1
  <2>2. CASE m # l
    <3>1. backend[k] = "REVOKED"
      BY <1>1, <1>3, <2>2 DEF BackendInv
    <3> QED
      BY <1>1, <3>1
  <2> QED
    BY <2>1, <2>2
<1>4. /\ UNCHANGED <<tail, calls, exposed>>
      /\ \A k \in Links : Done(k)' <=> Done(k)
  BY <1>1 DEF LinkAccepted, queueVars, Done
<1>5. CallsInv'
  <2>1. ASSUME NEW p \in DOMAIN calls
        PROVE  Agrees(calls[p])'
    <3>1. PICK m : m = calls[p]
      OBVIOUS
    <3>2. m \in CallRecord /\ Agrees(m) /\ m.links \subseteq Links
      BY <3>1 DEF BackendInv, CallsInv, CallRecord
    <3>3. \A k \in Links : backend[k] # "NONE" => backend'[k] # "NONE"
      BY <1>1
    <3>4. Agrees(m)'
      BY <1>1, <1>4, <3>2, <3>3 DEF Agrees
    <3> QED
      BY <1>4, <3>1, <3>4
  <2> QED
    BY <1>4, <2>1 DEF BackendInv, CallsInv
<1>6. BackendInv'
  BY <1>1, <1>2, <1>3, <1>5 DEF BackendInv
<1> QED
  BY <1>1, <1>4, <1>6 DEF BackendMoves, Settled, BackendInv

\* What is known of the links stays true.
LEMMA MovesKeep ==
  ASSUME BackendMoves
  PROVE  /\ \A s \in State : Sound(s) => Sound(s)'
         /\ \A c \in CommandRecord : IsListed(c) => IsListed(c)'
         /\ \A c \in CommandRecord : \A b : HasLink(c, b) => HasLink(c, b)'
         /\ \A c \in CommandRecord : \A b : IsRevoked(c, b) => IsRevoked(c, b)'
<1>1. ASSUME NEW s \in State, Sound(s)
      PROVE  Sound(s)'
  <2>1. s.known \subseteq Links
    BY DEF State
  <2> QED
    BY <1>1, <2>1 DEF Sound, BackendMoves
<1>2. ASSUME NEW c \in CommandRecord, IsListed(c)
      PROVE  IsListed(c)'
  <2>1. c.listed.known \subseteq Links
    BY DEF State, CommandRecord
  <2> QED
    BY <1>2, <2>1 DEF IsListed, BackendMoves
<1>3. ASSUME NEW c \in CommandRecord, NEW b, HasLink(c, b)
      PROVE  HasLink(c, b)'
  BY <1>3 DEF HasLink, BackendMoves
<1>4. ASSUME NEW c \in CommandRecord, NEW b, IsRevoked(c, b)
      PROVE  IsRevoked(c, b)'
  <2>1. c.link # None => c.link \in Links
    BY DEF CommandRecord
  <2> QED
    BY <1>4, <2>1 DEF IsRevoked, BackendMoves
<1> QED
  BY <1>1, <1>2, <1>3, <1>4

-----------------------------------------------------------------------------
(* The operations on a state keep it sound.                                  *)

\* sync: the companies that were listed take the place of those of the state.
LEMMA ReplacedState ==
  ASSUME NEW s \in State, NEW listed \in State, listed.live \subseteq listed.known,
         \A l \in listed.known : l.device = s.device /\ backend[l] # "NONE",
         NEW r, r = ReplaceLinkedCompanies(s, listed)
  PROVE  r \in State /\ Sound(r) /\ r.device = s.device /\ r.recording = s.recording
<1>1. /\ r = [device |-> s.device, recording |-> s.recording,
             selected |-> IF s.selected \in listed.live THEN s.selected ELSE None,
             known |-> listed.known, live |-> listed.live]
      /\ listed.known \subseteq Links /\ listed.live \subseteq Links
      /\ s.device \in Devices \union {None} /\ s.recording \in BOOLEAN
      /\ s.selected \in Links \union {None}
  BY DEF ReplaceLinkedCompanies, State
<1>2. r \in State
  BY <1>1 DEF State
<1>3. Sound(r)
  BY <1>1 DEF Sound
<1> QED
  BY <1>1, <1>2, <1>3

\* select: the link selected is an active one of the state.
LEMMA SelectedState ==
  ASSUME NEW s \in State, Sound(s), NEW c, ActiveOf(s, c) # {},
         NEW r, r = SelectCompany(s, c)
  PROVE  /\ r \in State /\ Sound(r) /\ r.device = s.device /\ r.recording = s.recording
         /\ r.selected \in Links /\ r.selected.device = s.device /\ backend[r.selected] # "NONE"
<1>1. PICK l \in ActiveOf(s, c) : l = CHOOSE k \in ActiveOf(s, c) : TRUE
  OBVIOUS
<1>2. l \in s.live /\ l \in s.known /\ l \in Links /\ l.device = s.device /\ backend[l] # "NONE"
  BY <1>1 DEF ActiveOf, Sound, State
<1>3. /\ r = [device |-> s.device, recording |-> s.recording, selected |-> l,
             known |-> s.known, live |-> s.live]
      /\ s.known \subseteq Links /\ s.live \subseteq Links
      /\ s.device \in Devices \union {None} /\ s.recording \in BOOLEAN
  BY <1>1 DEF SelectCompany, State
<1>4. r \in State
  BY <1>2, <1>3 DEF State
<1>5. Sound(r)
  BY <1>2, <1>3 DEF Sound
<1> QED
  BY <1>2, <1>3, <1>4, <1>5

\* remove: no link of the company is left.
LEMMA RemovedState ==
  ASSUME NEW s \in State, Sound(s), NEW c, NEW r, r = RemoveCompany(s, c)
  PROVE  r \in State /\ Sound(r) /\ r.device = s.device /\ r.recording = s.recording
<1>1. /\ r = [device |-> s.device, recording |-> s.recording,
             selected |-> IF s.selected # None /\ s.selected.company = c THEN None ELSE s.selected,
             known |-> {l \in s.known : l.company # c}, live |-> {l \in s.live : l.company # c}]
      /\ s.known \subseteq Links /\ s.live \subseteq Links
      /\ s.device \in Devices \union {None} /\ s.recording \in BOOLEAN
      /\ s.selected \in Links \union {None}
  BY DEF RemoveCompany, State
<1>2. r \in State
  BY <1>1 DEF State
<1>3. Sound(r)
  BY <1>1 DEF Sound
<1> QED
  BY <1>1, <1>2, <1>3

\* switch: nothing but the recording changes.
LEMMA SwitchedState ==
  ASSUME NEW s \in State, Sound(s), NEW on \in BOOLEAN, NEW r, r = [s EXCEPT !.recording = on]
  PROVE  r \in State /\ Sound(r) /\ r.device = s.device /\ r.recording = on
<1>1. /\ r = [device |-> s.device, recording |-> on, selected |-> s.selected,
             known |-> s.known, live |-> s.live]
      /\ s.known \subseteq Links /\ s.live \subseteq Links
      /\ s.device \in Devices \union {None} /\ s.selected \in Links \union {None}
  BY DEF State
<1>2. r \in State
  BY <1>1 DEF State
<1>3. Sound(r)
  BY <1>1 DEF Sound
<1> QED
  BY <1>1, <1>2, <1>3

\* A state of no device knows no links, so it can be anybody's.
LEMMA TakenState ==
  ASSUME NEW s \in State, Sound(s), s.device = None, NEW d \in Devices,
         NEW r, r = [s EXCEPT !.device = d]
  PROVE  r \in State /\ Sound(r) /\ r.device = d /\ r.recording = s.recording
<1>1. /\ r = [device |-> d, recording |-> s.recording, selected |-> s.selected,
             known |-> s.known, live |-> s.live]
      /\ s.known \subseteq Links /\ s.live \subseteq Links
      /\ s.recording \in BOOLEAN /\ s.selected \in Links \union {None}
  BY DEF State
<1>2. s.known = {}
  <2>1. \A l \in Links : l.device # None
    BY LinksAssumption DEF Devices
  <2> QED
    BY <1>1, <2>1 DEF Sound
<1>3. r \in State
  BY <1>1 DEF State
<1>4. Sound(r)
  BY <1>1, <1>2 DEF Sound
<1> QED
  BY <1>1, <1>3, <1>4

-----------------------------------------------------------------------------
(* One command moves, the others stay.                                       *)

\* The operator of one terminal is the only one.
LEMMA OneTerminal ==
  ASSUME deployment \in Deployments
  PROVE  SingleTerminal => \A t, o \in Terminals : t = o
BY BoundsAssumption DEF SingleTerminal, Terminals

\* A terminal has a command that fits a plan, or none.
LEMMA IdleOrRunning ==
  ASSUME CommandsInv, NEW t \in Terminals
  PROVE  /\ Running(t) => CommandInv(command[t])
         /\ ~Running(t) => command[t] = Idle
BY DEF CommandsInv, CommandInv, Running, Idle

\* What a step needs that replaces the command of one terminal.
LEMMA CommandMoves ==
  ASSUME IInv, NEW t \in Terminals, NEW c, command' = [command EXCEPT ![t] = c],
         UNCHANGED <<machine, service, runner, deployment>>,
         commands' \in 0 .. deployment.commands,
         BackendMoves, FilesInv', switch' \in {"on", "off", "unknown"},
         \A l \in unlinked' \ unlinked : l \in Links /\ Settled(l)',
         c = Idle \/ CommandInv(c)',
         SingleTerminal => file' # Unreadable /\ (c = Idle => SwitchIsRight')
  PROVE  IInv'
<1>1. /\ Terminals' = Terminals /\ SingleTerminal' = SingleTerminal
      /\ \A o, p \in Terminals : SingleTerminal => o = p
  BY OneTerminal DEF IInv, RestInv, Terminals, SingleTerminal
<1>2. /\ command = [o \in Terminals |-> command[o]] /\ command'[t] = c
      /\ \A o \in Terminals : o # t => command'[o] = command[o]
  BY DEF IInv, CommandsInv
<1>3. command' = [o \in Terminals |-> command'[o]]
  BY <1>2
<1>4. ASSUME NEW o \in Terminals
      PROVE  command'[o] = Idle \/ CommandInv(command[o])'
  <2>1. CASE o = t
    <3>1. PICK d : d = command'[o]
      OBVIOUS
    <3>2. d = c
      BY <1>2, <2>1, <3>1
    <3>3. d = Idle \/ CommandInv(d)'
      BY <3>2
    <3> QED
      BY <3>1, <3>3
  <2>2. CASE o # t /\ command[o] = Idle
    BY <1>2, <2>2
  <2>3. CASE o # t /\ command[o] # Idle
    <3>1. PICK d : d = command[o]
      OBVIOUS
    <3>2. CommandInv(d) /\ command'[o] = d /\ ~SingleTerminal'
      BY <1>1, <1>2, <2>3, <3>1 DEF IInv, CommandsInv
    <3>3. CommandInv(d)'
      <4>1. d \in CommandRecord /\ d.todo # <<>> /\ Sound(d.state) /\ IsListed(d) /\ d.state \in State
        BY <3>2 DEF CommandInv, CommandRecord
      <4>2. PICK a \in Saves, b \in Plans(d.name) : Fits(d, a, b)
        BY <3>2 DEF CommandInv
      <4>3. Fits(d, a, b)'
        BY <3>2, <4>1, <4>2, MovesKeep DEF Fits
      <4>4. Sound(d.state)' /\ IsListed(d)'
        BY <4>1, MovesKeep
      <4> QED
        BY <4>1, <4>3, <4>4 DEF CommandInv
    <3> QED
      BY <3>2, <3>3
  <2> QED
    BY <2>1, <2>2, <2>3
<1>5. CommandsInv'
  BY <1>1, <1>3, <1>4 DEF CommandsInv
<1>6. RunnerInv'
  BY DEF IInv, RunnerInv, Waiting, Task, EnvLink
<1>7. RestInv'
  <2>1. \A l \in unlinked' : l \in Links /\ Settled(l)'
    BY DEF IInv, RestInv, BackendMoves
  <2>2. DOMAIN calls' = Processes'
    BY <1>1 DEF IInv, RestInv, BackendMoves, Processes, Agent
  <2> QED
    BY <2>1, <2>2 DEF IInv, RestInv
<1>8. SingleInv'
  <2>1. ASSUME SingleTerminal, NEW o \in Terminals, command'[o] = Idle
        PROVE  SwitchIsRight'
    BY <1>1, <1>2, <2>1
  <2> QED
    BY <1>1, <2>1 DEF SingleInv
<1> QED
  BY <1>5, <1>6, <1>7, <1>8 DEF IInv, BackendMoves

\* A command ends, and what it was to do does not happen.
LEMMA CommandEnds ==
  ASSUME IInv, NEW t \in Terminals, Fails(t), BackendMoves,
         UNCHANGED <<fileVars, unlinked, OutsideCommand>>,
         switch' \in {"on", "off", "unknown"}, SingleTerminal => SwitchIsRight'
  PROVE  IInv'
<1>1. FilesInv'
  <2>1. \A s \in State : Sound(s) => Sound(s)'
    BY MovesKeep
  <2>2. PICK f, g : f = file /\ g = temporary
    OBVIOUS
  <2>3. file' = f /\ temporary' = g
    BY <2>2 DEF fileVars
  <2>4. /\ f \in State \union {Unreadable} /\ (f # Unreadable => Sound(f)')
        /\ g \in State \union {None, Unreadable} /\ (g \notin {None, Unreadable} => Sound(g)')
    BY <2>1, <2>2 DEF IInv, FilesInv
  <2> QED
    BY <2>3, <2>4 DEF FilesInv
<1>2. command' = [command EXCEPT ![t] = Idle]
  BY DEF Fails
<1>3. \A l \in unlinked' \ unlinked : l \in Links /\ Settled(l)'
  OBVIOUS
<1>4. SingleTerminal => file' # Unreadable
  BY DEF fileVars, IInv, SingleInv
<1>5. UNCHANGED <<machine, service, runner, deployment>> /\ commands' \in 0 .. deployment.commands
  BY DEF OutsideCommand, IInv, RestInv
<1> QED
  BY <1>1, <1>2, <1>3, <1>4, <1>5, CommandMoves

\* A command fails before it has changed anything.
LEMMA CommandStops ==
  ASSUME IInv, NEW t \in Terminals, Fails(t), BackendMoves,
         UNCHANGED <<fileVars, history, OutsideCommand>>, SingleTerminal => SwitchIsRight
  PROVE  IInv'
<1>1. SingleTerminal => SwitchIsRight'
  BY DEF SwitchIsRight, fileVars, history
<1>2. switch' \in {"on", "off", "unknown"} /\ UNCHANGED unlinked
  BY DEF history, IInv, RestInv
<1> QED
  BY <1>1, <1>2, CommandEnds

\* A command goes on as next, which has a and b to do.
LEMMA CommandGoesOn ==
  ASSUME IInv, NEW t \in Terminals, NEW next \in CommandRecord, Becomes(t, next),
         Sound(next.state), IsListed(next),
         NEW a \in Saves, NEW b \in Plans(next.name), next.todo = a \o b,
         IsLoaded(next, a, b), HasLink(next, b), IsRevoked(next, b) \/ IsRevoked(next, b)',
         SingleTerminal => AloneInv(next, a, b)' /\ file' # Unreadable,
         BackendMoves, FilesInv', switch' \in {"on", "off", "unknown"},
         \A l \in unlinked' \ unlinked : l \in Links /\ Settled(l)',
         UNCHANGED <<machine, service, runner, deployment>>,
         commands' \in 0 .. deployment.commands
  PROVE  IInv'
<1>1. /\ Sound(next.state)' /\ IsListed(next)' /\ HasLink(next, b)' /\ IsRevoked(next, b)'
  BY MovesKeep DEF CommandRecord
<1>2. IsLoaded(next, a, b)' /\ SingleTerminal' = SingleTerminal
  BY DEF IsLoaded, SingleTerminal
<1>3. Fits(next, a, b)'
  BY <1>1, <1>2 DEF Fits
<1>4. next.todo # <<>> => CommandInv(next)'
  BY <1>1, <1>3 DEF CommandInv
<1>5. PICK c : c = IF next.todo = <<>> THEN Idle ELSE next
  OBVIOUS
<1>6. command' = [command EXCEPT ![t] = c]
  BY <1>5 DEF Becomes
<1>7. c = Idle \/ CommandInv(c)'
  BY <1>4, <1>5
<1>8. ASSUME SingleTerminal, c = Idle
      PROVE  SwitchIsRight'
  <2>1. next.todo = <<>>
    BY <1>5, <1>8 DEF Idle, CommandRecord
  <2>2. a = <<>> /\ b = <<>>
    <3>1. b # <<>> => b \in Seq(Steps)
      BY PlanSteps DEF PlanStep, CommandRecord
    <3>2. b \in Seq(Steps)
      BY <3>1, EmptySeq
    <3>3. a # <<>> => a \o b # <<>>
      BY <3>2, SaveThenPlan
    <3>4. a = <<>> => a \o b = b
      BY <3>2, SaveThenPlan
    <3> QED
      BY <2>1, <3>3, <3>4
  <2> QED
    BY <1>8, <2>2 DEF AloneInv, SwitchIsRight, Members
<1> QED
  BY <1>6, <1>7, <1>8, CommandMoves

\* Sound states stay sound when only the backend moves.
LEMMA FilesStay ==
  ASSUME FilesInv, BackendMoves, UNCHANGED fileVars
  PROVE  FilesInv'
<1>1. PICK f, g : f = file /\ g = temporary
  OBVIOUS
<1>2. file' = f /\ temporary' = g
  BY <1>1 DEF fileVars
<1>3. /\ f \in State \union {Unreadable} /\ (f # Unreadable => Sound(f)')
      /\ g \in State \union {None, Unreadable} /\ (g \notin {None, Unreadable} => Sound(g)')
  BY <1>1, MovesKeep DEF FilesInv
<1> QED
  BY <1>2, <1>3 DEF FilesInv

\* A command goes on and has written nothing.
LEMMA CommandComputes ==
  ASSUME IInv, NEW t \in Terminals, NEW next \in CommandRecord, Becomes(t, next),
         UNCHANGED <<fileVars, history, OutsideCommand>>, BackendMoves,
         Sound(next.state), IsListed(next),
         NEW a \in Saves, NEW b \in Plans(next.name), next.todo = a \o b,
         IsLoaded(next, a, b), HasLink(next, b), IsRevoked(next, b) \/ IsRevoked(next, b)',
         SingleTerminal => AloneInv(next, a, b)
  PROVE  IInv'
<1>1. FilesInv'
  BY FilesStay DEF IInv, fileVars
<1>2. AloneInv(next, a, b)' = AloneInv(next, a, b)
  BY DEF AloneInv, SwitchIsRight, Switches, fileVars, history
<1>3. /\ switch' \in {"on", "off", "unknown"} /\ commands' \in 0 .. deployment.commands
      /\ UNCHANGED <<machine, service, runner, deployment>> /\ unlinked' = unlinked
  BY DEF IInv, RestInv, OutsideCommand, history
<1>4. SingleTerminal => file' # Unreadable
  BY DEF IInv, SingleInv, fileVars
<1>5. SingleTerminal => AloneInv(next, a, b)' /\ file' # Unreadable
  BY <1>2, <1>4
<1>6. \A l \in unlinked' \ unlinked : l \in Links /\ Settled(l)'
  BY <1>3
<1> QED
  BY <1>1, <1>3, <1>5, <1>6, CommandGoesOn

\* A command begins to write what it has computed.
LEMMA CommandSaves ==
  ASSUME IInv, NEW t \in Terminals, NEW next \in CommandRecord, Becomes(t, next), Truncate,
         UNCHANGED <<backendVars, history, OutsideCommand>>,
         Sound(next.state), IsListed(next), next.state.device = next.device,
         NEW b \in Plans(next.name), next.todo = <<"write", "replace">> \o b,
         HasLink(next, b), IsRevoked(next, b), SingleTerminal => AloneInv(next, Save, b)
  PROVE  IInv'
<1>1. BackendMoves /\ file' = file /\ temporary' = Unreadable
  BY BackendStays DEF IInv, Truncate
<1>2. FilesInv'
  <2>1. PICK f : f = file
    OBVIOUS
  <2>2. f \in State \union {Unreadable} /\ (f # Unreadable => Sound(f)') /\ file' = f
    BY <1>1, <2>1, MovesKeep DEF IInv, FilesInv
  <2> QED
    BY <1>1, <2>2 DEF FilesInv
<1> DEFINE a == <<"write", "replace">>
<1>4. a \in Saves /\ a # Save /\ a # <<"replace">> /\ a # <<>>
  BY DEF Saves, Save
<1>5. /\ switch' = switch /\ switch' \in {"on", "off", "unknown"} /\ unlinked' = unlinked
      /\ commands' \in 0 .. deployment.commands
      /\ UNCHANGED <<machine, service, runner, deployment>>
  BY DEF IInv, RestInv, OutsideCommand, history
<1> HIDE DEF a
<1>6. ASSUME SingleTerminal
      PROVE  AloneInv(next, a, b)' /\ file' # Unreadable
  <2>1. AloneInv(next, Save, b)
    BY <1>6
  <2>2. AloneInv(next, a, b)'
    BY <1>1, <1>4, <1>5, <2>1 DEF AloneInv, SwitchIsRight, Switches
  <2> QED
    BY <1>1, <1>6, <2>2 DEF IInv, SingleInv
<1>7. \A l \in unlinked' \ unlinked : l \in Links /\ Settled(l)'
  BY <1>5
<1>8. IsLoaded(next, a, b) /\ next.todo = a \o b
  BY DEF IsLoaded, a
<1> QED
  BY <1>1, <1>2, <1>4, <1>5, <1>6, <1>7, <1>8, CommandGoesOn

\* A command with something else to do.
Replan(c, todo) == [c EXCEPT !.todo = todo]

SameButTodo(next, c) ==
  /\ next.name = c.name /\ next.company = c.company /\ next.device = c.device
  /\ next.state = c.state /\ next.listed = c.listed /\ next.link = c.link

\* A command with other things to do is otherwise the same.
LEMMA Replanned ==
  ASSUME NEW c \in CommandRecord, NEW todo \in Seq(Steps)
  PROVE  /\ Replan(c, todo) \in CommandRecord /\ Replan(c, todo).todo = todo
         /\ SameButTodo(Replan(c, todo), c)
<1>1. PICK next : next = Replan(c, todo)
  OBVIOUS
<1>2. next = [todo |-> todo, name |-> c.name, company |-> c.company, device |-> c.device,
              state |-> c.state, listed |-> c.listed, link |-> c.link]
  BY <1>1 DEF CommandRecord, Replan
<1>3. /\ c.name \in AllCommands /\ c.company \in Companies \union {None} /\ c.device \in Devices
      /\ c.state \in State /\ c.listed \in State /\ c.link \in Links \union {None}
  BY DEF CommandRecord
<1>4. next \in CommandRecord
  BY <1>2, <1>3 DEF CommandRecord
<1>5. next.todo = todo /\ SameButTodo(next, c)
  BY <1>2 DEF SameButTodo
<1> QED
  BY <1>1, <1>4, <1>5

\* What the invariant says of a command that has a and b to do, but for that.
Known(c, a, b) ==
  /\ Sound(c.state) /\ IsListed(c) /\ IsLoaded(c, a, b) /\ HasLink(c, b)
  /\ IsRevoked(c, b) \/ IsRevoked(c, b)'
  /\ SingleTerminal => AloneInv(c, a, b)

\* What is known of a command does not depend on what it has to do.
LEMMA KnownOfBoth ==
  ASSUME NEW c, NEW next, SameButTodo(next, c), NEW a, NEW b, Known(c, a, b)
  PROVE  Known(next, a, b)
<1>1. IsListed(next) /\ IsLoaded(next, a, b) /\ Sound(next.state)
  BY DEF IsListed, IsLoaded, SameButTodo, Known
<1>2. HasLink(next, b)
  BY DEF HasLink, SameButTodo, Known
<1>3. IsRevoked(next, b) \/ IsRevoked(next, b)'
  BY DEF IsRevoked, SameButTodo, Known
<1>4. SingleTerminal => AloneInv(next, a, b)
  BY DEF AloneInv, Switches, SameButTodo, Known
<1> QED
  BY <1>1, <1>2, <1>3, <1>4 DEF Known

\* A command takes the first step of its plan and becomes c with the rest.
LEMMA CommandThen ==
  ASSUME IInv, NEW t \in Terminals, NEW c \in CommandRecord, Then(t, c),
         NEW b, Tail(b) \in Plans(c.name), Tail(b) \in Seq(Steps), command[t].todo = b,
         UNCHANGED <<fileVars, history, OutsideCommand>>, BackendMoves,
         Known(c, <<>>, Tail(b))
  PROVE  IInv'
<1>1. PICK rest, a, next : rest = Tail(b) /\ a = <<>> /\ next = Replan(c, rest)
  OBVIOUS
<1>2. Becomes(t, next)
  BY <1>1 DEF Then, Replan
<1>3. next \in CommandRecord /\ next.todo = rest /\ SameButTodo(next, c)
  BY <1>1, Replanned
<1>4. Known(next, a, rest)
  BY <1>1, <1>3, KnownOfBoth
<1>5. a \in Saves /\ next.todo = a \o rest
  BY <1>1, <1>3, ConcatEmptySeq DEF Saves
<1>6. rest \in Plans(next.name)
  BY <1>1, <1>3 DEF SameButTodo
<1> QED
  BY <1>2, <1>3, <1>4, <1>5, <1>6, CommandComputes DEF Known

\* A command takes the first step of its plan, has become c and saves that.
LEMMA CommandThenSaves ==
  ASSUME IInv, NEW t \in Terminals, NEW c \in CommandRecord, ThenSave(t, c),
         NEW b, c.todo = b, Tail(b) \in Plans(c.name), Tail(b) \in Seq(Steps),
         UNCHANGED <<backendVars, history, OutsideCommand>>,
         Known(c, Save, Tail(b)), IsRevoked(c, Tail(b))
  PROVE  IInv'
<1>1. PICK a, rest : a = <<"write", "replace">> /\ rest = Tail(b)
  OBVIOUS
<1>2. PICK next : next = Replan(c, a \o rest)
  OBVIOUS
<1>3. Becomes(t, next) /\ Truncate
  <2>1. Tail(Save) = a
    BY <1>1 DEF Save
  <2> QED
    BY <1>1, <1>2, <2>1 DEF ThenSave, Replan
<1>4. a \o rest \in Seq(Steps)
  <2>1. a \in Saves
    BY <1>1 DEF Saves
  <2> QED
    BY <1>1, <2>1, SaveThenPlan
<1>5. next \in CommandRecord /\ next.todo = a \o rest /\ SameButTodo(next, c)
  BY <1>2, <1>4, Replanned
<1>6. Known(next, Save, rest) /\ rest \in Plans(next.name) /\ IsRevoked(next, rest)
  BY <1>1, <1>5, KnownOfBoth DEF SameButTodo, IsRevoked
<1>7. next.state.device = next.device
  <2>1. Save # <<>>
    BY DEF Save
  <2> QED
    BY <1>6, <2>1 DEF Known, IsLoaded
<1>8. next.todo = <<"write", "replace">> \o rest
  BY <1>1, <1>5
<1> QED
  BY <1>3, <1>5, <1>6, <1>7, <1>8, CommandSaves DEF Known

\* What a command is that is about to take a step of its plan.
Doing(c, b, step) ==
  /\ c \in CommandRecord /\ Sound(c.state) /\ IsListed(c)
  /\ c.todo = b /\ b # <<>> /\ b \in Seq(Steps) /\ Head(b) = step /\ PlanStep(c.name, b)
  /\ Fits(c, <<>>, b)

\* And one that is about to take a step of a save.
Saving(c, a, b, step) ==
  /\ c \in CommandRecord /\ Sound(c.state) /\ IsListed(c)
  /\ a # <<>> /\ Head(a) = step /\ Tail(a) \in Saves /\ Tail(c.todo) = Tail(a) \o b
  /\ b \in Seq(Steps) /\ Fits(c, a, b)

\* A command that does a step takes it from its plan or from a save.
LEMMA DoesStep ==
  ASSUME CommandsInv, NEW t \in Terminals, NEW step, Does(t, step), NEW c, c = command[t]
  PROVE  \E b \in Plans(c.name) :
           \/ step \notin {"write", "replace"} /\ Doing(c, b, step)
           \/ step \in {"open", "write", "replace"} /\ \E a \in Saves : Saving(c, a, b, step)
<1>1. CommandInv(c) /\ Head(c.todo) = step
  BY IdleOrRunning DEF Does
<1>2. PICK a \in Saves, b \in Plans(c.name) : Fits(c, a, b)
  BY <1>1 DEF CommandInv
<1>3. c \in CommandRecord /\ Sound(c.state) /\ IsListed(c) /\ c.todo # <<>> /\ c.todo = a \o b
  BY <1>1, <1>2 DEF CommandInv, Fits
<1>4. b \in Seq(Steps) /\ (b # <<>> => PlanStep(c.name, b))
  <2>1. b # <<>> => PlanStep(c.name, b)
    BY <1>3, PlanSteps DEF CommandRecord
  <2> QED
    BY <2>1, EmptySeq DEF PlanStep
<1>5. CASE a = <<>>
  <2>1. c.todo = b
    BY <1>3, <1>4, <1>5, SaveThenPlan
  <2>2. PlanStep(c.name, b) /\ b # <<>> /\ Head(b) = step
    BY <1>1, <1>3, <1>4, <2>1
  <2>3. step \notin {"write", "replace"}
    BY <2>2 DEF PlanStep
  <2> QED
    BY <1>2, <1>3, <1>4, <1>5, <2>1, <2>2, <2>3 DEF Doing
<1>6. CASE a # <<>>
  <2>1. Head(a) = step /\ Tail(c.todo) = Tail(a) \o b /\ Tail(a) \in Saves
    BY <1>1, <1>3, <1>4, <1>6, SaveThenPlan
  <2>2. Head(a) \in {"open", "write", "replace"}
    BY <1>6 DEF Saves
  <2> QED
    BY <1>2, <1>3, <1>4, <1>6, <2>1, <2>2 DEF Saving
<1> QED
  BY <1>5, <1>6

-----------------------------------------------------------------------------
(* The steps of a command.                                                   *)

\* A command that has no link has not asked for another switch.
LEMMA NotSwitching ==
  ASSUME NEW c, NEW a, NEW b, Fits(c, a, b), Finds(b) \/ c.name \notin Linkers \/ ~SwitchesRecording(c.name)
  PROVE  ~Switches(c) /\ (SingleTerminal => SwitchIsRight)
BY DEF Fits, HasLink, AloneInv, Switches, SwitchesRecording, Linkers

\* The rest of a plan fits a command that has taken the first step, but for what that
\* step itself is about.
LEMMA RestFits ==
  ASSUME NEW c, NEW b, Doing(c, b, Head(b)), NEW next,
         next.name = c.name, next.company = c.company, next.device = c.device, next.link = c.link
  PROVE  /\ Head(b) \notin {"require", "select"} => HasLink(next, Tail(b))
         /\ Head(b) # "revoke" => IsRevoked(next, Tail(b))
<1>1. HasLink(c, b) /\ IsRevoked(c, b)
  BY DEF Doing, Fits
<1>2. /\ Head(b) \notin {"require", "select"} => (Finds(Tail(b)) <=> Finds(b))
      /\ Head(b) # "revoke" => ("revoke" \in Members(Tail(b)) <=> "revoke" \in Members(b))
  BY PlanTail DEF Doing
<1> QED
  BY <1>1, <1>2 DEF HasLink, IsRevoked

LEMMA ListDeviceLinksInv ==
  ASSUME IInv, NEW t \in Terminals, ListDeviceLinks(t)
  PROVE  IInv'
<1>1. PICK c : c = command[t]
  OBVIOUS
<1>2. PICK b \in Plans(c.name) : Doing(c, b, "list")
  BY <1>1, DoesStep DEF ListDeviceLinks, IInv
<1>3. /\ c \in CommandRecord /\ Sound(c.state) /\ c.todo = b /\ b # <<>> /\ Head(b) = "list"
      /\ Fits(c, <<>>, b) /\ b \in Seq(Steps)
      /\ Tail(b) \in Plans(c.name) /\ Tail(b) \in Seq(Steps) /\ Tail(b) # <<>> /\ Head(Tail(b)) = "load"
      /\ ~SwitchesRecording(c.name)
  BY <1>2 DEF Doing, PlanStep
<1>4. BackendMoves /\ UNCHANGED <<fileVars, history, OutsideCommand>>
  BY BackendStays DEF ListDeviceLinks, IInv
<1>5. ~Switches(c) /\ (SingleTerminal => SwitchIsRight)
  BY <1>3, NotSwitching
<1>6. CASE Fails(t)
  BY <1>4, <1>5, <1>6, CommandStops
<1>7. CASE ~Fails(t)
  <2> DEFINE listed == {l \in Links : l.device = c.device /\ backend[l] # "NONE"}
  <2>1. PICK known, live : known = listed /\ live = {l \in listed : backend[l] = "ACTIVE"}
    OBVIOUS
  <2>2. PICK other : other = [c.listed EXCEPT !.known = known, !.live = live]
    OBVIOUS
  <2>3. PICK d : d = [c EXCEPT !.listed = other]
    OBVIOUS
  <2>4. Then(t, d)
    <3>1. Then(t, [c EXCEPT !.listed.known = known, !.listed.live = live])
      BY <1>1, <1>7, <2>1 DEF ListDeviceLinks
    <3>2. [c EXCEPT !.listed.known = known, !.listed.live = live] = [c EXCEPT !.listed = other]
      BY <1>3, <2>2 DEF CommandRecord, State
    <3> QED
      BY <2>3, <3>1, <3>2
  <2>5. /\ other \in State /\ other.known = known /\ other.live = live
        /\ known \subseteq Links /\ live \subseteq known
    BY <1>3, <2>1, <2>2 DEF CommandRecord, State
  <2>6. /\ d \in CommandRecord /\ d.name = c.name /\ d.company = c.company /\ d.device = c.device
        /\ d.state = c.state /\ d.listed = other /\ d.link = c.link
    BY <1>3, <2>3, <2>5 DEF CommandRecord
  <2>7. IsListed(d)
    BY <2>1, <2>5, <2>6 DEF IsListed
  <2>8. HasLink(d, Tail(b)) /\ IsRevoked(d, Tail(b))
    BY <1>2, <1>3, <2>6, RestFits
  <2>9. IsLoaded(d, <<>>, Tail(b))
    BY <1>3 DEF IsLoaded
  <2>10. SingleTerminal => AloneInv(d, <<>>, Tail(b))
    BY <1>3, <1>5, <2>6 DEF AloneInv, Fits, Switches
  <2>11. Known(d, <<>>, Tail(b))
    BY <1>3, <2>6, <2>7, <2>8, <2>9, <2>10 DEF Known
  <2> QED
    BY <1>1, <1>3, <1>4, <2>4, <2>6, <2>11, CommandThen
<1> QED
  BY <1>6, <1>7

LEMMA LoadInv ==
  ASSUME IInv, NEW t \in Terminals, Load(t)
  PROVE  IInv'
<1>1. PICK c, f : c = command[t] /\ f = file
  OBVIOUS
<1>2. PICK b \in Plans(c.name) : Doing(c, b, "load")
  BY <1>1, DoesStep DEF Load, IInv
<1>3. /\ c \in CommandRecord /\ IsListed(c) /\ c.todo = b /\ b # <<>> /\ Head(b) = "load"
      /\ Fits(c, <<>>, b) /\ b \in Seq(Steps)
      /\ Tail(b) \in Plans(c.name) /\ Tail(b) \in Seq(Steps)
      /\ Finds(b) \/ c.name \in {"companies", "link"}
  BY <1>2 DEF Doing, PlanStep
<1>4. BackendMoves /\ UNCHANGED <<fileVars, history, OutsideCommand>>
  BY BackendStays DEF Load, IInv
<1>5. ~Switches(c) /\ (SingleTerminal => SwitchIsRight)
  BY <1>3, NotSwitching DEF Linkers
<1>6. CASE Fails(t)
  BY <1>4, <1>5, <1>6, CommandStops
<1>7. CASE ~Fails(t)
  <2>1. f \in State /\ Sound(f) /\ f.device \in {None, c.device} /\ c.device \in Devices
    BY <1>1, <1>3, <1>7 DEF Load, IInv, FilesInv, OfDevice, CommandRecord
  <2>2. ASSUME NEW s, s \in State, NEW d, d = [c EXCEPT !.state = s]
        PROVE  /\ d \in CommandRecord /\ d.name = c.name /\ d.company = c.company
               /\ d.device = c.device /\ d.state = s /\ d.listed = c.listed /\ d.link = c.link
               /\ d.todo = c.todo
    BY <1>3, <2>2 DEF CommandRecord
  <2>3. ASSUME NEW s, NEW a, s.device = c.device, s.recording = f.recording,
               a = <<>> \/ a = Save, Sound(s),
               NEW d, d.name = c.name, d.company = c.company, d.device = c.device, d.state = s,
               d.listed = c.listed, d.link = c.link
        PROVE  Known(d, a, Tail(b))
    <3>1. IsListed(d) /\ IsLoaded(d, a, Tail(b))
      BY <1>3, <2>3 DEF IsListed, IsLoaded
    <3>2. HasLink(d, Tail(b)) /\ IsRevoked(d, Tail(b))
      BY <1>2, <1>3, <2>3, RestFits
    <3>3. a # <<"write", "replace">> /\ a # <<"replace">>
      <4>1. /\ <<>> # <<"write", "replace">> /\ <<>> # <<"replace">>
            /\ Save # <<"write", "replace">> /\ Save # <<"replace">>
        BY DEF Save
      <4> QED
        BY <2>3, <4>1, Zenon
    <3>4. ~Switches(d)
      BY <1>5, <2>3 DEF Switches
    <3>5. SingleTerminal => AloneInv(d, a, Tail(b))
      BY <1>1, <1>5, <2>3, <3>3, <3>4 DEF AloneInv, SwitchIsRight
    <3> QED
      BY <2>3, <3>1, <3>2, <3>5 DEF Known
  <2>4. CASE f.device = None
    <3>1. PICK s : s = [f EXCEPT !.device = c.device]
      OBVIOUS
    <3>2. s \in State /\ Sound(s) /\ s.device = c.device /\ s.recording = f.recording
      BY <2>1, <2>4, <3>1, TakenState
    <3>3. PICK d : d = [c EXCEPT !.state = s]
      OBVIOUS
    <3>4. /\ d \in CommandRecord /\ d.name = c.name /\ d.company = c.company
          /\ d.device = c.device /\ d.state = s /\ d.listed = c.listed /\ d.link = c.link
          /\ d.todo = c.todo
      BY <2>2, <3>2, <3>3
    <3>5. PICK a, rest, next : a = Save /\ rest = Tail(b) /\ next = Replan(d, a \o rest)
      OBVIOUS
    <3>6. Becomes(t, next)
      <4>1. Becomes(t, [c EXCEPT !.state = s, !.todo = Save \o Tail(@)])
        BY <1>1, <1>7, <2>1, <2>4, <3>1, FilesAssumption DEF Load
      <4>2. [c EXCEPT !.state = s, !.todo = Save \o Tail(@)] = [d EXCEPT !.todo = Save \o Tail(b)]
        BY <1>3, <3>3 DEF CommandRecord
      <4> QED
        BY <3>5, <4>1, <4>2 DEF Replan
    <3>7. a \in Saves /\ a \o rest \in Seq(Steps)
      <4>1. a \in Saves
        BY <3>5 DEF Save, Saves
      <4> QED
        BY <1>3, <3>5, <4>1, SaveThenPlan
    <3>8. next \in CommandRecord /\ next.todo = a \o rest /\ SameButTodo(next, d)
      BY <3>4, <3>5, <3>7, Replanned
    <3>9. Known(next, a, rest)
      BY <2>3, <3>2, <3>4, <3>5, <3>8, KnownOfBoth
    <3>10. rest \in Plans(next.name)
      BY <1>3, <3>4, <3>5, <3>8 DEF SameButTodo
    <3> QED
      BY <1>4, <3>6, <3>7, <3>8, <3>9, <3>10, CommandComputes DEF Known
  <2>5. CASE f.device # None
    <3>1. PICK d : d = [c EXCEPT !.state = f]
      OBVIOUS
    <3>2. Then(t, d)
      BY <1>1, <1>7, <2>1, <2>5, <3>1 DEF Load
    <3>3. /\ d \in CommandRecord /\ d.name = c.name /\ d.company = c.company
          /\ d.device = c.device /\ d.state = f /\ d.listed = c.listed /\ d.link = c.link
      BY <2>1, <2>2, <3>1
    <3>4. Known(d, <<>>, Tail(b))
      BY <2>1, <2>3, <2>5, <3>3
    <3> QED
      BY <1>1, <1>3, <1>4, <3>2, <3>3, <3>4, CommandThen
  <2> QED
    BY <2>4, <2>5
<1> QED
  BY <1>6, <1>7

LEMMA SyncInv ==
  ASSUME IInv, NEW t \in Terminals, Sync(t)
  PROVE  IInv'
<1>1. PICK c : c = command[t]
  OBVIOUS
<1>2. PICK b \in Plans(c.name) : Doing(c, b, "sync")
  BY <1>1, DoesStep DEF Sync, IInv
<1>3. /\ c \in CommandRecord /\ IsListed(c) /\ c.todo = b /\ b # <<>> /\ Head(b) = "sync"
      /\ Fits(c, <<>>, b) /\ b \in Seq(Steps)
      /\ Tail(b) \in Plans(c.name) /\ Tail(b) \in Seq(Steps)
      /\ c.name \in {"companies", "use-company"} /\ c.state \in State /\ c.listed \in State
  BY <1>2 DEF Doing, PlanStep, CommandRecord
<1>4. ~Switches(c) /\ (SingleTerminal => AloneInv(c, <<>>, b)) /\ c.state.device = c.device
  BY <1>3 DEF Switches, SwitchesRecording, Fits, IsLoaded
<1>5. PICK s : s = ReplaceLinkedCompanies(c.state, c.listed)
  OBVIOUS
<1>6. s \in State /\ Sound(s) /\ s.device = c.state.device /\ s.recording = c.state.recording
  BY <1>3, <1>4, <1>5, ReplacedState DEF IsListed
<1>7. PICK d : d = [c EXCEPT !.state = s, !.listed = EmptyState]
  OBVIOUS
<1>8. ThenSave(t, d)
  <2>1. [c EXCEPT !.state = ReplaceLinkedCompanies(@, c.listed), !.listed = EmptyState] = d
    BY <1>3, <1>5, <1>7 DEF CommandRecord
  <2> QED
    BY <1>1, <2>1 DEF Sync
<1>9. EmptyState \in State /\ EmptyState.known = {} /\ EmptyState.live = {}
  BY DEF EmptyState, State
<1>10. /\ d \in CommandRecord /\ d.name = c.name /\ d.company = c.company /\ d.device = c.device
       /\ d.state = s /\ d.listed = EmptyState /\ d.link = c.link /\ d.todo = b
  BY <1>3, <1>6, <1>7, <1>9 DEF CommandRecord
<1>11. IsListed(d) /\ IsLoaded(d, Save, Tail(b))
  BY <1>4, <1>6, <1>9, <1>10 DEF IsListed, IsLoaded
<1>12. HasLink(d, Tail(b)) /\ IsRevoked(d, Tail(b))
  BY <1>2, <1>3, <1>10, RestFits
<1>13. SingleTerminal => AloneInv(d, Save, Tail(b))
  <2>1. Save # <<"write", "replace">> /\ Save # <<"replace">>
    BY DEF Save
  <2> QED
    BY <1>4, <1>6, <1>10, <2>1 DEF AloneInv, Switches
<1>14. Known(d, Save, Tail(b))
  BY <1>6, <1>10, <1>11, <1>12, <1>13 DEF Known
<1> QED
  BY <1>3, <1>8, <1>10, <1>12, <1>14, CommandThenSaves DEF Sync

LEMMA FindInv ==
  ASSUME IInv, NEW t \in Terminals, Find(t)
  PROVE  IInv'
<1>1. PICK c : c = command[t]
  OBVIOUS
<1>2. PICK b \in Plans(c.name) : Doing(c, b, "find")
  BY <1>1, DoesStep DEF Find, IInv
<1>3. /\ c \in CommandRecord /\ IsListed(c) /\ Sound(c.state) /\ c.todo = b /\ Head(b) = "find"
      /\ Fits(c, <<>>, b) /\ c.name = "use-company" /\ Tail(b) = <<"select", "tell">>
      /\ Finds(b) <=> Finds(Tail(b))
  BY <1>2, PlanTail DEF Doing, PlanStep
<1>4. PICK rest : rest = (IF ActiveOf(c.state, c.company) = {} THEN Program("companies") ELSE <<>>)
                           \o <<"select", "tell">>
  OBVIOUS
<1>5. \/ rest = <<"list", "load", "sync", "select", "tell">>
      \/ rest = <<"select", "tell">>
  <2>1. <<>> \o <<"select", "tell">> = <<"select", "tell">>
    OBVIOUS
  <2>2. Program("companies") = <<"list", "load", "sync">>
    BY DEF Program
  <2>3. <<"list", "load", "sync">> \o <<"select", "tell">> = <<"list", "load", "sync", "select", "tell">>
    <3>1. PICK x, y, z : /\ x = <<"list", "load", "sync">> /\ y = <<"select", "tell">>
                         /\ z = <<"list", "load", "sync", "select", "tell">>
      OBVIOUS
    <3>2. /\ x \in Seq(Steps) /\ y \in Seq(Steps) /\ z \in Seq(Steps)
          /\ Len(x) = 3 /\ Len(y) = 2 /\ Len(z) = 5
      BY <3>1 DEF Steps
    <3>3. /\ x \o y \in Seq(Steps) /\ Len(x \o y) = Len(x) + Len(y)
          /\ \A i \in 1 .. Len(x) + Len(y) :
               (x \o y)[i] = IF i <= Len(x) THEN x[i] ELSE y[i - Len(x)]
      BY <3>2, ConcatProperties
    <3>4. \A i \in 1 .. 5 : z[i] = IF i <= 3 THEN x[i] ELSE y[i - 3]
      BY <3>1
    <3>5. Len(x \o y) = Len(z) /\ \A i \in 1 .. Len(x \o y) : (x \o y)[i] = z[i]
      BY <3>2, <3>3, <3>4
    <3>6. x \o y = z
      BY <3>2, <3>3, <3>5, SeqEqual
    <3> QED
      BY <3>1, <3>6
  <2> QED
    BY <1>4, <2>1, <2>2, <2>3
<1>6. rest \in Plans(c.name) /\ rest \in Seq(Steps) /\ "select" \in Members(rest)
  <2>1. rest \in Plans(c.name) /\ rest # <<>>
    <3>1. <<"list", "load", "sync", "select", "tell">> \in Plans("use-company")
      BY DEF Plans
    <3>2. <<"select", "tell">> \in Plans("use-company")
      BY DEF Plans
    <3>3. <<"list", "load", "sync", "select", "tell">> # <<>> /\ <<"select", "tell">> # <<>>
      OBVIOUS
    <3> QED
      BY <1>3, <1>5, <3>1, <3>2, <3>3, Zenon
  <2>2. rest \in Seq(Steps)
    BY <1>3, <2>1, PlanSteps DEF PlanStep, AllCommands
  <2>3. "select" \in Members(<<"list", "load", "sync", "select", "tell">>)
    BY DEF Members
  <2>4. "select" \in Members(<<"select", "tell">>)
    BY DEF Members
  <2> QED
    BY <1>5, <2>1, <2>2, <2>3, <2>4
<1>7. PICK a, next : a = <<>> /\ next = Replan(c, rest)
  OBVIOUS
<1>8. Becomes(t, next)
  <2>1. [c EXCEPT !.todo =
          (IF ActiveOf(c.state, c.company) = {} THEN Program("companies") ELSE <<>>) \o Tail(@)] = next
    BY <1>3, <1>4, <1>7 DEF Replan
  <2> QED
    BY <1>1, <2>1 DEF Find
<1>9. next \in CommandRecord /\ next.todo = rest /\ SameButTodo(next, c)
  BY <1>3, <1>6, <1>7, Replanned
<1>10. Known(c, a, rest)
  <2>1. IsLoaded(c, a, rest)
    BY <1>3 DEF Fits, IsLoaded
  <2>2. Finds(b) /\ Finds(rest)
    <3>1. "select" \in Members(<<"select", "tell">>)
      BY DEF Members
    <3>2. "select" \in Members(Tail(b))
      BY <1>3, <3>1, Zenon
    <3> QED
      BY <1>3, <1>6, <3>2 DEF Finds
  <2>3. HasLink(c, rest) /\ IsRevoked(c, rest)
    BY <1>3, <2>2 DEF Fits, HasLink, IsRevoked
  <2>4. SingleTerminal => AloneInv(c, a, rest)
    BY <1>3, <1>7 DEF Fits, AloneInv, Switches, SwitchesRecording
  <2> QED
    BY <1>3, <2>1, <2>3, <2>4 DEF Known
<1>11. Known(next, a, rest) /\ a \in Saves /\ next.todo = a \o rest /\ rest \in Plans(next.name)
  BY <1>6, <1>7, <1>9, <1>10, KnownOfBoth, ConcatEmptySeq DEF SameButTodo, Saves
<1>12. BackendMoves /\ UNCHANGED <<fileVars, history, OutsideCommand>>
  BY BackendStays DEF Find, IInv
<1> QED
  BY <1>8, <1>9, <1>11, <1>12, CommandComputes DEF Known

LEMMA SelectInv ==
  ASSUME IInv, NEW t \in Terminals, Select(t)
  PROVE  IInv'
<1>1. PICK c : c = command[t]
  OBVIOUS
<1>2. PICK b \in Plans(c.name) : Doing(c, b, "select")
  BY <1>1, DoesStep DEF Select, IInv
<1>3. /\ c \in CommandRecord /\ IsListed(c) /\ Sound(c.state) /\ c.todo = b /\ Head(b) = "select"
      /\ Fits(c, <<>>, b) /\ b \in Seq(Steps) /\ b # <<>>
      /\ Tail(b) \in Plans(c.name) /\ Tail(b) \in Seq(Steps)
      /\ c.name \in {"companies", "use-company"} /\ c.name \in Linkers /\ ~Finds(Tail(b))
      /\ c.state \in State
  BY <1>2 DEF Doing, PlanStep, CommandRecord
<1>4. /\ ~Switches(c) /\ c.state.device = c.device
      /\ SingleTerminal => AloneInv(c, <<>>, b) /\ SwitchIsRight
  BY <1>3, NotSwitching DEF Switches, SwitchesRecording, Fits, IsLoaded
<1>5. UNCHANGED <<backendVars, history, OutsideCommand>> /\ BackendMoves
  BY BackendStays DEF Select, IInv
<1>6. CASE ActiveOf(c.state, c.company) = {}
  <2>1. Fails(t) /\ UNCHANGED fileVars
    BY <1>1, <1>6 DEF Select
  <2> QED
    BY <1>4, <1>5, <2>1, CommandStops
<1>7. CASE ActiveOf(c.state, c.company) # {}
  <2>1. PICK s : s = SelectCompany(c.state, c.company)
    OBVIOUS
  <2>2. /\ s \in State /\ Sound(s) /\ s.device = c.state.device /\ s.recording = c.state.recording
        /\ s.selected \in Links /\ s.selected.device = c.state.device /\ backend[s.selected] # "NONE"
    BY <1>3, <1>7, <2>1, SelectedState
  <2>3. PICK l, d : l = s.selected /\ d = [c EXCEPT !.state = s, !.link = l]
    OBVIOUS
  <2>4. ThenSave(t, d)
    BY <1>1, <1>7, <2>1, <2>3 DEF Select
  <2>5. /\ d \in CommandRecord /\ d.name = c.name /\ d.company = c.company /\ d.device = c.device
        /\ d.state = s /\ d.listed = c.listed /\ d.link = l /\ d.todo = b
    BY <1>3, <2>2, <2>3 DEF CommandRecord
  <2>6. IsListed(d) /\ IsLoaded(d, Save, Tail(b))
    BY <1>3, <1>4, <2>2, <2>5 DEF IsListed, IsLoaded
  <2>7. HasLink(d, Tail(b)) /\ IsRevoked(d, Tail(b))
    <3>1. l \in Links /\ l # None /\ l.device = c.device /\ backend[l] # "NONE"
      BY <1>4, <2>2, <2>3, LinksAssumption
    <3>2. d.name # "unlink" /\ d.name \in Linkers
      BY <1>3, <2>5
    <3> QED
      BY <1>3, <2>5, <3>1, <3>2 DEF HasLink, IsRevoked
  <2>8. SingleTerminal => AloneInv(d, Save, Tail(b))
    <3>1. Save # <<"write", "replace">> /\ Save # <<"replace">>
      BY DEF Save
    <3>2. ~Switches(d)
      BY <1>3, <2>5 DEF Switches, SwitchesRecording
    <3> QED
      BY <1>4, <2>2, <2>5, <3>1, <3>2 DEF AloneInv
  <2>9. Known(d, Save, Tail(b))
    BY <2>2, <2>5, <2>6, <2>7, <2>8 DEF Known
  <2> QED
    BY <1>3, <1>5, <2>4, <2>5, <2>7, <2>9, CommandThenSaves
<1> QED
  BY <1>6, <1>7

\* The link that a command finds is one of this device.
LEMMA RequiredLink ==
  ASSUME NEW c \in CommandRecord, Sound(c.state), Required(c) # None
  PROVE  /\ Required(c) \in Links /\ Required(c).device = c.state.device
         /\ backend[Required(c)] # "NONE"
         /\ c.name = "unlink" => Required(c).company = c.company
<1>1. c.state \in State /\ c.state.known \subseteq Links /\ c.state.live \subseteq c.state.known
  BY DEF CommandRecord, State, Sound
<1>2. CASE c.name = "unlink"
  <2>1. Required(c) = NewestOf(c.state, c.company) /\ \E l \in c.state.known : l.company = c.company
    BY <1>2 DEF Required
  <2>2. Required(c) \in c.state.known /\ Required(c).company = c.company
    BY <1>1, <2>1, NewestIsKnown
  <2> QED
    BY <1>1, <2>2 DEF Sound
<1>3. CASE c.name # "unlink"
  <2>1. Required(c) = ActiveCompany(c.state) /\ ActiveCompany(c.state) \in c.state.live
    BY <1>3 DEF Required
  <2> QED
    BY <1>1, <1>3, <2>1 DEF Sound
<1> QED
  BY <1>2, <1>3

LEMMA RequireInv ==
  ASSUME IInv, NEW t \in Terminals, Require(t)
  PROVE  IInv'
<1>1. PICK c : c = command[t]
  OBVIOUS
<1>2. PICK b \in Plans(c.name) : Doing(c, b, "require")
  BY <1>1, DoesStep DEF Require, IInv
<1>3. /\ c \in CommandRecord /\ IsListed(c) /\ Sound(c.state) /\ c.todo = b /\ Head(b) = "require"
      /\ Fits(c, <<>>, b) /\ b \in Seq(Steps) /\ b # <<>>
      /\ Tail(b) \in Plans(c.name) /\ Tail(b) \in Seq(Steps)
      /\ c.name \in Linkers /\ c.name # "use-company" /\ ~Finds(Tail(b))
      /\ c.name = "unlink" => "revoke" \in Members(Tail(b))
      /\ SwitchesRecording(c.name) => "switch" \in Members(Tail(b))
      /\ c.state \in State
  BY <1>2 DEF Doing, PlanStep, CommandRecord
<1>4. Finds(b) /\ c.state.device = c.device
  <2>1. "require" \in Members(b)
    BY <1>3, MembersOf
  <2> QED
    BY <1>3, <2>1 DEF Finds, Fits, IsLoaded
<1>5. /\ ~Switches(c)
      /\ SingleTerminal => AloneInv(c, <<>>, b) /\ SwitchIsRight
  BY <1>3, <1>4, NotSwitching DEF Fits
<1>6. UNCHANGED <<fileVars, unlinked, OutsideCommand>> /\ BackendMoves
  BY BackendStays DEF Require, IInv
<1>7. CASE Required(c) = None
  <2>1. Fails(t) /\ UNCHANGED history
    BY <1>1, <1>6, <1>7 DEF Require, history
  <2> QED
    BY <1>5, <1>6, <2>1, CommandStops
<1>8. CASE Required(c) # None
  <2>1. PICK l, d : l = Required(c) /\ d = [c EXCEPT !.link = l]
    OBVIOUS
  <2>2. /\ l \in Links /\ l # None /\ l.device = c.device /\ backend[l] # "NONE"
        /\ c.name = "unlink" => l.company = c.company
    BY <1>3, <1>4, <1>8, <2>1, RequiredLink
  <2>3. /\ d \in CommandRecord /\ d.name = c.name /\ d.company = c.company /\ d.device = c.device
        /\ d.state = c.state /\ d.listed = c.listed /\ d.link = l /\ d.todo = b
    BY <1>3, <2>1, <2>2 DEF CommandRecord
  <2>4. PICK rest, a, next : rest = Tail(b) /\ a = <<>> /\ next = Replan(d, rest)
    OBVIOUS
  <2>5. next \in CommandRecord /\ next.todo = rest /\ SameButTodo(next, d)
    BY <1>3, <2>3, <2>4, Replanned
  <2>6. Becomes(t, next)
    <3>1. Then(t, d)
      BY <1>1, <1>8, <2>1 DEF Require
    <3> QED
      BY <1>1, <1>3, <2>4, <3>1 DEF Then, Replan
  <2>7. switch' = CASE c.name = "start-recording" -> "on"
                    [] c.name = "stop-recording" -> "off"
                    [] OTHER -> switch
    BY <1>1, <1>8 DEF Require
  <2>8. /\ next.name = c.name /\ next.company = c.company /\ next.device = c.device
        /\ next.state = c.state /\ next.listed = c.listed /\ next.link = l
    BY <2>3, <2>5 DEF SameButTodo
  <2>9. IsListed(next) /\ IsLoaded(next, a, rest)
    BY <1>3, <1>4, <2>8 DEF IsListed, IsLoaded
  <2>10. HasLink(next, rest) /\ IsRevoked(next, rest)
    BY <1>3, <2>2, <2>4, <2>8 DEF HasLink, IsRevoked
  <2>11. ASSUME SingleTerminal
         PROVE  AloneInv(next, a, rest)' /\ file' # Unreadable
    <3>1. file' = file /\ temporary' = temporary /\ file # Unreadable
      BY <1>6, <2>11 DEF fileVars, IInv, SingleInv
    <3>2. a # <<"write", "replace">> /\ a # <<"replace">>
      BY <2>4
    <3>3. CASE SwitchesRecording(c.name)
      <4>1. Switches(next) /\ "switch" \in Members(rest)
        BY <1>3, <2>2, <2>4, <2>8, <3>3 DEF Switches
      <4>2. switch' = IF next.name = "start-recording" THEN "on" ELSE "off"
        BY <2>7, <2>8, <3>3 DEF SwitchesRecording
      <4>3. Switches(next)'
        BY <4>1 DEF Switches
      <4> QED
        BY <3>1, <3>2, <4>1, <4>2, <4>3 DEF AloneInv
    <3>4. CASE ~SwitchesRecording(c.name)
      <4>1. ~Switches(next)' /\ switch' = switch
        BY <2>7, <2>8, <3>4 DEF Switches, SwitchesRecording
      <4> QED
        BY <1>5, <2>8, <2>11, <3>1, <3>2, <4>1 DEF AloneInv, SwitchIsRight
    <3> QED
      BY <3>3, <3>4
  <2>12. /\ switch' \in {"on", "off", "unknown"} /\ commands' \in 0 .. deployment.commands
         /\ UNCHANGED <<machine, service, runner, deployment>>
         /\ \A k \in unlinked' \ unlinked : k \in Links /\ Settled(k)'
    BY <1>6, <2>7 DEF IInv, RestInv, OutsideCommand
  <2>13. FilesInv'
    BY <1>6, FilesStay DEF IInv
  <2>14. a \in Saves /\ next.todo = a \o rest /\ rest \in Plans(next.name) /\ Sound(next.state)
    BY <1>3, <2>4, <2>5, <2>8, ConcatEmptySeq DEF Saves
  <2> QED
    BY <1>6, <2>5, <2>6, <2>9, <2>10, <2>11, <2>12, <2>13, <2>14, CommandGoesOn
<1> QED
  BY <1>7, <1>8

LEMMA SwitchInv ==
  ASSUME IInv, NEW t \in Terminals, Switch(t)
  PROVE  IInv'
<1>1. PICK c : c = command[t]
  OBVIOUS
<1>2. PICK b \in Plans(c.name) : Doing(c, b, "switch")
  BY <1>1, DoesStep DEF Switch, IInv
<1>3. /\ c \in CommandRecord /\ IsListed(c) /\ Sound(c.state) /\ c.todo = b /\ Head(b) = "switch"
      /\ Fits(c, <<>>, b) /\ b \in Seq(Steps) /\ b # <<>>
      /\ Tail(b) \in Plans(c.name) /\ Tail(b) \in Seq(Steps)
      /\ c.name \in Linkers /\ SwitchesRecording(c.name) /\ ~Finds(b) /\ "switch" \notin Members(Tail(b))
      /\ c.state \in State
  BY <1>2 DEF Doing, PlanStep, CommandRecord
<1>4. /\ Switches(c) /\ c.state.device = c.device
      /\ SingleTerminal => AloneInv(c, <<>>, b)
  BY <1>3 DEF Switches, Fits, IsLoaded, HasLink
<1>5. PICK on, s, d : /\ on = (c.name = "start-recording") /\ s = [c.state EXCEPT !.recording = on]
                      /\ d = [c EXCEPT !.state = s]
  OBVIOUS
<1>6. s \in State /\ Sound(s) /\ s.device = c.state.device /\ s.recording = on
  <2>1. on \in BOOLEAN
    BY <1>5
  <2>2. s = [c.state EXCEPT !.recording = on]
    BY <1>5
  <2> QED
    BY <1>3, <2>1, <2>2, SwitchedState
<1>7. /\ d \in CommandRecord /\ d.name = c.name /\ d.company = c.company /\ d.device = c.device
      /\ d.state = s /\ d.listed = c.listed /\ d.link = c.link /\ d.todo = b
  BY <1>3, <1>5, <1>6 DEF CommandRecord
<1>8. ThenSave(t, d)
  <2>1. [c EXCEPT !.state.recording = on] = d
    BY <1>3, <1>5 DEF CommandRecord
  <2> QED
    BY <1>1, <1>5, <2>1 DEF Switch
<1>9. IsListed(d) /\ IsLoaded(d, Save, Tail(b))
  BY <1>3, <1>4, <1>6, <1>7 DEF IsListed, IsLoaded
<1>10. HasLink(d, Tail(b)) /\ IsRevoked(d, Tail(b))
  BY <1>2, <1>3, <1>7, RestFits
<1>11. SingleTerminal => AloneInv(d, Save, Tail(b))
  <2>1. Save # <<"write", "replace">> /\ Save # <<"replace">> /\ Save # <<>>
    BY DEF Save
  <2>2. Switches(d)
    BY <1>4, <1>7 DEF Switches
  <2>3. SingleTerminal => switch = IF c.name = "start-recording" THEN "on" ELSE "off"
    BY <1>4 DEF AloneInv
  <2>4. SingleTerminal => d.state.recording = (switch = "on")
    BY <1>5, <1>6, <1>7, <2>3
  <2> QED
    BY <1>7, <2>1, <2>2, <2>3, <2>4 DEF AloneInv
<1>12. Known(d, Save, Tail(b))
  BY <1>6, <1>7, <1>9, <1>10, <1>11 DEF Known
<1> QED
  BY <1>3, <1>7, <1>8, <1>10, <1>12, CommandThenSaves DEF Switch

LEMMA RemoveInv ==
  ASSUME IInv, NEW t \in Terminals, Remove(t)
  PROVE  IInv'
<1>1. PICK c : c = command[t]
  OBVIOUS
<1>2. PICK b \in Plans(c.name) : Doing(c, b, "remove")
  BY <1>1, DoesStep DEF Remove, IInv
<1>3. /\ c \in CommandRecord /\ IsListed(c) /\ Sound(c.state) /\ c.todo = b /\ Head(b) = "remove"
      /\ Fits(c, <<>>, b) /\ b \in Seq(Steps) /\ b # <<>>
      /\ Tail(b) \in Plans(c.name) /\ Tail(b) \in Seq(Steps)
      /\ c.name = "unlink" /\ c.state \in State
  BY <1>2 DEF Doing, PlanStep, CommandRecord
<1>4. /\ ~Switches(c) /\ c.state.device = c.device
      /\ SingleTerminal => AloneInv(c, <<>>, b)
  BY <1>3 DEF Switches, SwitchesRecording, Fits, IsLoaded
<1>5. PICK s, d : s = RemoveCompany(c.state, c.company) /\ d = [c EXCEPT !.state = s]
  OBVIOUS
<1>6. s \in State /\ Sound(s) /\ s.device = c.state.device /\ s.recording = c.state.recording
  BY <1>3, <1>5, RemovedState
<1>7. /\ d \in CommandRecord /\ d.name = c.name /\ d.company = c.company /\ d.device = c.device
      /\ d.state = s /\ d.listed = c.listed /\ d.link = c.link /\ d.todo = b
  BY <1>3, <1>5, <1>6 DEF CommandRecord
<1>8. ThenSave(t, d)
  <2>1. [c EXCEPT !.state = RemoveCompany(@, c.company)] = d
    BY <1>3, <1>5 DEF CommandRecord
  <2> QED
    BY <1>1, <2>1 DEF Remove
<1>9. IsListed(d) /\ IsLoaded(d, Save, Tail(b))
  BY <1>3, <1>4, <1>6, <1>7 DEF IsListed, IsLoaded
<1>10. HasLink(d, Tail(b)) /\ IsRevoked(d, Tail(b))
  BY <1>2, <1>3, <1>7, RestFits
<1>11. SingleTerminal => AloneInv(d, Save, Tail(b))
  <2>1. Save # <<"write", "replace">> /\ Save # <<"replace">>
    BY DEF Save
  <2> QED
    BY <1>4, <1>6, <1>7, <2>1 DEF AloneInv, Switches
<1>12. Known(d, Save, Tail(b))
  BY <1>6, <1>7, <1>9, <1>10, <1>11 DEF Known
<1> QED
  BY <1>3, <1>7, <1>8, <1>10, <1>12, CommandThenSaves DEF Remove

RunnerRecord ==
  [todo : Seq(RunnerSteps), device : Devices \union {None}, context : Links \union {None}]

\* A runner with the link of its next report, if it has one, is one of the invariant.
RunnerFits(r) ==
  /\ r \in RunnerRecord
  /\ r.context # None =>
       /\ r.todo # <<>> /\ Head(r.todo) \in Lifecycle \union {"network"}
       /\ r.context = EnvLink \/ r.context.device = r.device

\* The runner as it is satisfies its invariant.
LEMMA RunnerIsFit ==
  ASSUME RunnerInv
  PROVE  RunnerFits(runner)
BY DEF RunnerInv, RunnerFits, RunnerRecord, Waiting, Task

\* What a step needs that is none of a command.
LEMMA OthersMove ==
  ASSUME IInv, BackendMoves, UNCHANGED <<fileVars, command, deployment, commands, history>>,
         machine' \in Devices, service' \in {"on", "off", "stopping", "forgotten"},
         NEW next, runner' = next, RunnerFits(next)
  PROVE  IInv'
<1>1. /\ Terminals' = Terminals /\ SingleTerminal' = SingleTerminal /\ EnvLink' = EnvLink
      /\ command' = command /\ file' = file /\ temporary' = temporary
      /\ switch' = switch /\ unlinked' = unlinked
  BY DEF Terminals, SingleTerminal, EnvLink, fileVars, history
<1>2. FilesInv'
  BY FilesStay DEF IInv
<1>3. ASSUME NEW t \in Terminals, NEW c, c = command[t], c # Idle
      PROVE  CommandInv(c)'
  <2>1. /\ c \in CommandRecord /\ c.todo # <<>> /\ Sound(c.state) /\ IsListed(c) /\ c.state \in State
        /\ CommandInv(c)
    BY <1>3 DEF IInv, CommandsInv, CommandInv, CommandRecord
  <2>2. PICK a \in Saves, b \in Plans(c.name) : Fits(c, a, b)
    BY <2>1 DEF CommandInv
  <2>3. AloneInv(c, a, b) => AloneInv(c, a, b)'
    BY <1>1 DEF AloneInv, Switches, SwitchIsRight
  <2>4. HasLink(c, b)' /\ IsRevoked(c, b)' /\ IsLoaded(c, a, b)'
    BY <2>1, <2>2, MovesKeep DEF Fits, IsLoaded
  <2>5. Fits(c, a, b)'
    BY <1>1, <2>2, <2>3, <2>4 DEF Fits
  <2>6. Sound(c.state)' /\ IsListed(c)'
    BY <2>1, MovesKeep
  <2> QED
    BY <2>1, <2>2, <2>5, <2>6 DEF CommandInv
<1>4. CommandsInv'
  <2>1. ASSUME NEW t \in Terminals
        PROVE  command'[t] = Idle \/ CommandInv(command[t])'
    <3>1. PICK c : c = command[t]
      OBVIOUS
    <3>2. c = Idle \/ CommandInv(c)'
      BY <1>3, <3>1
    <3>3. command'[t] = c
      BY <1>1, <3>1
    <3> QED
      BY <3>2, <3>3
  <2>2. command' = [t \in Terminals |-> command'[t]]
    BY <1>1 DEF IInv, CommandsInv
  <2> QED
    BY <1>1, <2>1, <2>2 DEF CommandsInv
<1>5. RunnerInv'
  BY <1>1 DEF RunnerInv, RunnerFits, RunnerRecord, Waiting, Task
<1>6. RestInv'
  <2>1. \A l \in unlinked' : l \in Links /\ Settled(l)'
    BY <1>1 DEF IInv, RestInv, BackendMoves
  <2>2. DOMAIN calls' = Processes'
    BY <1>1 DEF IInv, RestInv, BackendMoves, Processes, Agent
  <2> QED
    BY <1>1, <2>1, <2>2 DEF IInv, RestInv
<1>7. SingleInv'
  BY <1>1 DEF IInv, SingleInv, SwitchIsRight
<1> QED
  BY <1>2, <1>4, <1>5, <1>6, <1>7 DEF IInv, BackendMoves

\* Only a revocation is one.
LEMMA RequestTypes ==
  /\ Other.type # "revoke"
  /\ \A l : Event(l).type # "revoke"
BY DEF Other, Event

LEMMA CallInv ==
  ASSUME IInv, NEW t \in Terminals, Call(t)
  PROVE  IInv'
<1>1. PICK c, r : c = command[t] /\ r = RequestOf(c)
  OBVIOUS
<1>2. PICK step \in {"tell", "revoke", "call"} : Does(t, step)
  BY DEF Call
<1>3. PICK b \in Plans(c.name) : Doing(c, b, step)
  <2>1. step \notin {"open", "write", "replace"}
    OBVIOUS
  <2> QED
    BY <1>1, <1>2, <2>1, DoesStep DEF IInv
<1>4. /\ c \in CommandRecord /\ IsListed(c) /\ Sound(c.state) /\ c.todo = b /\ Head(b) = step
      /\ Fits(c, <<>>, b) /\ b \in Seq(Steps) /\ b # <<>>
      /\ Tail(b) \in Plans(c.name) /\ Tail(b) \in Seq(Steps) /\ c.state \in State
      /\ step \in {"tell", "revoke"} => c.name \in Linkers /\ ~Finds(b)
      /\ step = "revoke" => c.name = "unlink"
      /\ step = "call" => c.name = "link"
      /\ step = "tell" => ("switch" \in Members(b) <=> c.name = "stop-recording")
      /\ "switch" \in Members(Tail(b)) <=> "switch" \in Members(b)
      /\ HasLink(c, b) /\ c.state.device = c.device
      /\ SingleTerminal => AloneInv(c, <<>>, b)
  BY <1>2, <1>3, PlanTail DEF Doing, PlanStep, CommandRecord, Fits, IsLoaded
<1>5. step \in {"tell", "revoke"} => c.link \in Links /\ backend[c.link] # "NONE"
  BY <1>4 DEF HasLink
<1>6. /\ r.type = "revoke" => r.link \in Links /\ backend[r.link] # "NONE"
      /\ step = "revoke" => r = Revocation(c.link)
  <2>1. CASE step = "revoke"
    <3>1. r = Revocation(c.link)
      BY <1>1, <1>4, <2>1 DEF RequestOf
    <3> QED
      BY <1>5, <2>1, <3>1 DEF Revocation
  <2>2. CASE step # "revoke"
    <3>1. r = Event(c.link) \/ r = Other
      BY <1>1, <1>4, <2>2 DEF RequestOf
    <3> QED
      BY <2>2, <3>1, RequestTypes
  <2> QED
    BY <2>1, <2>2
<1>7. /\ UNCHANGED <<fileVars, history, OutsideCommand>>
      /\ \/ Flushing(t, r) /\ UNCHANGED command
         \/ Returns(t, r) /\ Then(t, c)
         \/ Raises(t, r) /\ CallFails(t)
  BY <1>1 DEF Call
<1>8. BackendMoves /\ (Returns(t, r) /\ r.type = "revoke" => Settled(r.link)')
  <2>1. t \in Processes /\ BackendInv /\ DOMAIN calls = Processes
    BY DEF Processes, IInv, RestInv
  <2> QED
    BY <1>6, <1>7, <2>1, CallMoves
<1>9. CASE Returns(t, r) /\ Then(t, c)
  <2>1. IsRevoked(c, Tail(b)) \/ IsRevoked(c, Tail(b))'
    <3>1. CASE step = "revoke"
      <4>1. r.type = "revoke" /\ r.link = c.link
        BY <1>6, <3>1 DEF Revocation
      <4>2. PICK l : l = c.link
        OBVIOUS
      <4>3. Settled(l)'
        <5>1. r.link = l
          BY <4>1, <4>2
        <5> QED
          BY <1>8, <1>9, <4>1, <5>1
      <4> QED
        BY <4>2, <4>3 DEF IsRevoked
    <3>2. CASE step # "revoke"
      BY <1>3, <1>4, <3>2, RestFits
    <3> QED
      BY <3>1, <3>2
  <2>2. HasLink(c, Tail(b))
    BY <1>3, <1>4, RestFits
  <2>3. IsLoaded(c, <<>>, Tail(b))
    BY <1>4 DEF IsLoaded
  <2>4. SingleTerminal => AloneInv(c, <<>>, Tail(b))
    BY <1>4 DEF AloneInv
  <2>5. Known(c, <<>>, Tail(b))
    BY <1>4, <2>1, <2>2, <2>3, <2>4 DEF Known
  <2> QED
    BY <1>1, <1>4, <1>7, <1>8, <1>9, <2>5, CommandThen
<1>10. CASE CallFails(t) /\ c.name # "stop-recording"
  <2>1. Fails(t)
    BY <1>1, <1>10 DEF CallFails
  <2>2. ASSUME SingleTerminal
        PROVE  SwitchIsRight
    <3>1. CASE Switches(c)
      <4>1. step = "tell" /\ "switch" \notin Members(b)
        BY <1>2, <1>4, <1>10, <3>1 DEF Switches, SwitchesRecording
      <4> QED
        BY <1>4, <2>2, <3>1, <4>1 DEF AloneInv, SwitchIsRight
    <3>2. CASE ~Switches(c)
      BY <1>4, <2>2, <3>2 DEF AloneInv
    <3> QED
      BY <3>1, <3>2
  <2> QED
    BY <1>7, <1>8, <2>1, <2>2, CommandStops
<1>11. CASE CallFails(t) /\ c.name = "stop-recording"
  <2>1. PICK a, rest, next : a = <<>> /\ rest = <<"switch">> /\ next = Replan(c, rest)
    OBVIOUS
  <2>2. Becomes(t, next)
    BY <1>1, <1>11, <2>1 DEF CallFails, Replan
  <2>3. rest \in Plans(c.name) /\ rest \in Seq(Steps) /\ Members(rest) = {"switch"} /\ rest # <<>>
        /\ Head(rest) = "switch"
    <3>1. <<"switch">> \in Plans("stop-recording")
      BY DEF Plans
    <3>2. Members(<<"switch">>) = {"switch"} /\ <<"switch">> \in Seq(Steps) /\ <<"switch">> # <<>>
          /\ Head(<<"switch">>) = "switch"
      BY DEF Members, Steps
    <3> QED
      BY <1>11, <2>1, <3>1, <3>2, Zenon
  <2>4. next \in CommandRecord /\ next.todo = rest /\ SameButTodo(next, c)
    BY <1>4, <2>1, <2>3, Replanned
  <2>5. step = "tell" /\ ~Finds(rest) /\ ~Finds(b)
    BY <1>2, <1>4, <1>11, <2>3 DEF Finds
  <2>6. HasLink(c, rest) /\ IsRevoked(c, rest)
    BY <1>4, <1>11, <2>5 DEF HasLink, IsRevoked
  <2>7. IsLoaded(c, a, rest)
    BY <1>4 DEF IsLoaded
  <2>8. SingleTerminal => AloneInv(c, a, rest)
    BY <1>4, <1>11, <2>1, <2>3 DEF AloneInv
  <2>9. Known(c, a, rest)
    BY <1>4, <2>6, <2>7, <2>8 DEF Known
  <2>10. Known(next, a, rest) /\ a \in Saves /\ next.todo = a \o rest /\ rest \in Plans(next.name)
    BY <2>1, <2>3, <2>4, <2>9, KnownOfBoth, ConcatEmptySeq DEF SameButTodo, Saves
  <2> QED
    BY <1>7, <1>8, <2>2, <2>4, <2>10, CommandComputes DEF Known
<1>12. CASE Flushing(t, r) /\ UNCHANGED command
  <2>1. RunnerFits(runner)
    BY RunnerIsFit DEF IInv
  <2>2. /\ UNCHANGED <<fileVars, command, deployment, commands, history>> /\ runner' = runner
        /\ machine' \in Devices /\ service' \in {"on", "off", "stopping", "forgotten"}
    BY <1>7, <1>12 DEF OutsideCommand, IInv, RestInv
  <2> QED
    BY <1>8, <2>1, <2>2, OthersMove
<1> QED
  BY <1>7, <1>9, <1>10, <1>11, <1>12

LEMMA OpenTemporaryInv ==
  ASSUME IInv, NEW t \in Terminals, OpenTemporary(t)
  PROVE  IInv'
<1>1. PICK c : c = command[t]
  OBVIOUS
<1>2. Truncate /\ Then(t, c) /\ UNCHANGED <<backendVars, history, OutsideCommand>>
  BY <1>1 DEF OpenTemporary
<1>3. PICK p \in Plans(c.name) :
        Doing(c, p, "open") \/ \E a \in Saves : Saving(c, a, p, "open")
  BY <1>1, DoesStep DEF OpenTemporary, IInv
<1>4. \E b \in Plans(c.name) :
        /\ Tail(c.todo) = <<"write", "replace">> \o b /\ b \in Seq(Steps)
        /\ c \in CommandRecord /\ IsListed(c) /\ Sound(c.state) /\ c.state.device = c.device
        /\ HasLink(c, b) /\ IsRevoked(c, b)
        /\ SingleTerminal => AloneInv(c, Save, b)
  <2>1. CASE Doing(c, p, "open")
    <3>1. PICK x, y, z : /\ x = <<"write", "replace">> /\ y = <<"call", "call">>
                         /\ z = <<"write", "replace", "call", "call">>
      OBVIOUS
    <3>2. /\ x \in Seq(Steps) /\ y \in Seq(Steps) /\ z \in Seq(Steps)
          /\ Len(x) = 2 /\ Len(y) = 2 /\ Len(z) = 4
      BY <3>1 DEF Steps
    <3>3. /\ x \o y \in Seq(Steps) /\ Len(x \o y) = Len(x) + Len(y)
          /\ \A i \in 1 .. Len(x) + Len(y) :
               (x \o y)[i] = IF i <= Len(x) THEN x[i] ELSE y[i - Len(x)]
      BY <3>2, ConcatProperties
    <3>4. \A i \in 1 .. 4 : z[i] = IF i <= 2 THEN x[i] ELSE y[i - 2]
      BY <3>1
    <3>5. Len(x \o y) = Len(z) /\ \A i \in 1 .. Len(x \o y) : (x \o y)[i] = z[i]
      BY <3>2, <3>3, <3>4
    <3>6. x \o y = z
      BY <3>2, <3>3, <3>5, SeqEqual
    <3>7. /\ c \in CommandRecord /\ IsListed(c) /\ Sound(c.state) /\ c.todo = p /\ p # <<>>
          /\ Head(p) = "open" /\ Fits(c, <<>>, p)
          /\ c.name = "link" /\ Tail(p) = <<"write", "replace", "call", "call">>
      BY <2>1 DEF Doing, PlanStep
    <3>8. Tail(c.todo) = <<"write", "replace">> \o y
      BY <3>1, <3>6, <3>7
    <3>9. y \in Plans(c.name)
      <4>1. <<"call", "call">> \in Plans("link")
        BY DEF Plans
      <4> QED
        BY <3>1, <3>7, <4>1
    <3>10. c.link = None /\ c.name \notin Linkers /\ c.name # "unlink" /\ ~Switches(c)
      BY <3>7 DEF Fits, HasLink, Linkers, Switches
    <3>11. HasLink(c, y) /\ IsRevoked(c, y) /\ c.state.device = c.device
      BY <3>7, <3>10 DEF HasLink, IsRevoked, Fits, IsLoaded
    <3>12. SingleTerminal => AloneInv(c, Save, y)
      <4>1. Save # <<"write", "replace">> /\ Save # <<"replace">>
        BY DEF Save
      <4> QED
        BY <3>7, <3>10, <4>1 DEF Fits, AloneInv
    <3> QED
      BY <3>2, <3>7, <3>8, <3>9, <3>11, <3>12
  <2>2. CASE \E a \in Saves : Saving(c, a, p, "open")
    <3>1. PICK a \in Saves : Saving(c, a, p, "open")
      BY <2>2
    <3>2. a = Save /\ Tail(a) = <<"write", "replace">>
      <4>1. a # <<>> /\ Head(a) = "open"
        BY <3>1 DEF Saving
      <4>2. /\ Head(<<"replace">>) # "open" /\ Head(<<"write", "replace">>) # "open"
            /\ Tail(<<"open", "write", "replace">>) = <<"write", "replace">>
        OBVIOUS
      <4> QED
        BY <4>1, <4>2, Zenon DEF Saves, Save
    <3>3. /\ Tail(c.todo) = Tail(a) \o p /\ p \in Seq(Steps)
          /\ c \in CommandRecord /\ IsListed(c) /\ Sound(c.state) /\ a # <<>> /\ Fits(c, a, p)
      BY <3>1 DEF Saving
    <3>4. /\ c.state.device = c.device /\ HasLink(c, p) /\ IsRevoked(c, p)
          /\ SingleTerminal => AloneInv(c, Save, p)
      BY <3>2, <3>3 DEF Fits, IsLoaded
    <3> QED
      BY <3>2, <3>3, <3>4
  <2> QED
    BY <1>3, <2>1, <2>2
<1>5. PICK b \in Plans(c.name) :
        /\ Tail(c.todo) = <<"write", "replace">> \o b /\ b \in Seq(Steps)
        /\ c \in CommandRecord /\ IsListed(c) /\ Sound(c.state) /\ c.state.device = c.device
        /\ HasLink(c, b) /\ IsRevoked(c, b)
        /\ SingleTerminal => AloneInv(c, Save, b)
  BY <1>4
<1>6. PICK x, next : x = <<"write", "replace">> \o b /\ next = Replan(c, x)
  OBVIOUS
<1>7. x \in Seq(Steps)
  <2>1. <<"write", "replace">> \in Saves
    BY DEF Saves
  <2> QED
    BY <1>5, <1>6, <2>1, SaveThenPlan
<1>8. next \in CommandRecord /\ next.todo = x /\ SameButTodo(next, c)
  BY <1>5, <1>6, <1>7, Replanned
<1>9. Becomes(t, next)
  BY <1>1, <1>2, <1>5, <1>6 DEF Then, Replan
<1>10. Known(c, Save, b)
  BY <1>5 DEF Known, IsLoaded
<1>11. Known(next, Save, b) /\ b \in Plans(next.name)
  BY <1>8, <1>10, KnownOfBoth DEF SameButTodo
<1>12. next.state.device = next.device /\ IsRevoked(next, b) /\ next.todo = <<"write", "replace">> \o b
  BY <1>5, <1>6, <1>8 DEF SameButTodo, IsRevoked
<1> QED
  BY <1>2, <1>8, <1>9, <1>11, <1>12, CommandSaves DEF Known

\* Only a save writes and replaces.
LEMMA SavingStep ==
  ASSUME CommandsInv, NEW t \in Terminals, NEW step \in {"write", "replace"}, Does(t, step),
         NEW c, c = command[t]
  PROVE  \E b \in Plans(c.name), a \in Saves :
           /\ c \in CommandRecord /\ IsListed(c) /\ Sound(c.state) /\ c.state.device = c.device
           /\ a = (IF step = "write" THEN <<"write", "replace">> ELSE <<"replace">>)
           /\ Tail(c.todo) = Tail(a) \o b /\ c.todo = a \o b /\ b \in Seq(Steps) /\ Fits(c, a, b)
           /\ Tail(a) = (IF step = "write" THEN <<"replace">> ELSE <<>>)
<1>1. PICK b \in Plans(c.name) :
        \/ step \notin {"write", "replace"} /\ Doing(c, b, step)
        \/ step \in {"open", "write", "replace"} /\ \E a \in Saves : Saving(c, a, b, step)
  BY DoesStep
<1>2. PICK a \in Saves : Saving(c, a, b, step)
  BY <1>1
<1>3. /\ c \in CommandRecord /\ IsListed(c) /\ Sound(c.state) /\ a # <<>> /\ Head(a) = step
      /\ Tail(c.todo) = Tail(a) \o b /\ b \in Seq(Steps) /\ Fits(c, a, b) /\ c.todo = a \o b
  BY <1>2 DEF Saving, Fits
<1>4. c.state.device = c.device
  BY <1>3 DEF Fits, IsLoaded
<1>5. /\ a = (IF step = "write" THEN <<"write", "replace">> ELSE <<"replace">>)
      /\ Tail(a) = (IF step = "write" THEN <<"replace">> ELSE <<>>)
  <2>1. /\ Head(<<"replace">>) = "replace" /\ Head(<<"write", "replace">>) = "write"
        /\ Head(<<"open", "write", "replace">>) = "open"
        /\ Tail(<<"write", "replace">>) = <<"replace">> /\ Tail(<<"replace">>) = <<>>
    OBVIOUS
  <2> QED
    BY <1>3, <2>1 DEF Saves
<1> QED
  BY <1>3, <1>4, <1>5

LEMMA WriteTemporaryInv ==
  ASSUME IInv, NEW t \in Terminals, WriteTemporary(t)
  PROVE  IInv'
<1>1. PICK c, f : c = command[t] /\ f = file
  OBVIOUS
<1>2. PICK written : /\ written = c.state \/ (Rival(t) /\ written = Unreadable)
                     /\ \/ temporary # None /\ temporary' = written /\ file' = f
                        \/ temporary = None /\ file' = written /\ temporary' = None
  <2>1. PICK written \in {command[t].state} \union (IF Rival(t) THEN {Unreadable} ELSE {}) :
          IF temporary # None THEN temporary' = written /\ UNCHANGED file
          ELSE file' = written /\ UNCHANGED temporary
    BY DEF WriteTemporary
  <2>2. written = c.state \/ (Rival(t) /\ written = Unreadable)
    BY <1>1, <2>1
  <2> QED
    BY <1>1, <2>1, <2>2
<1>3. Then(t, c) /\ UNCHANGED <<backendVars, history, OutsideCommand>>
  BY <1>1 DEF WriteTemporary
<1>4. PICK b \in Plans(c.name), a0 \in Saves :
           /\ c \in CommandRecord /\ IsListed(c) /\ Sound(c.state) /\ c.state.device = c.device
           /\ a0 = <<"write", "replace">>
           /\ Tail(c.todo) = Tail(a0) \o b /\ c.todo = a0 \o b /\ b \in Seq(Steps) /\ Fits(c, a0, b)
           /\ Tail(a0) = <<"replace">>
  BY <1>1, SavingStep DEF WriteTemporary, IInv
<1>5. PICK a, todo, next : a = <<"replace">> /\ todo = a \o b /\ next = Replan(c, todo)
  OBVIOUS
<1>6. a \in Saves /\ todo \in Seq(Steps)
  <2>1. a \in Saves
    BY <1>5 DEF Saves
  <2> QED
    BY <1>4, <1>5, <2>1, SaveThenPlan
<1>7. next \in CommandRecord /\ next.todo = todo /\ SameButTodo(next, c)
  BY <1>4, <1>5, <1>6, Replanned
<1>8. Becomes(t, next)
  BY <1>1, <1>3, <1>4, <1>5 DEF Then, Replan
<1>9. BackendMoves
  BY <1>3, BackendStays DEF IInv
<1>10. /\ next.name = c.name /\ next.device = c.device /\ next.state = c.state /\ next.link = c.link
       /\ next.listed = c.listed /\ next.company = c.company
  BY <1>7 DEF SameButTodo
<1>11. /\ Sound(next.state) /\ IsListed(next) /\ IsLoaded(next, a, b) /\ b \in Plans(next.name)
       /\ HasLink(next, b) /\ IsRevoked(next, b)
  <2>1. HasLink(c, b) /\ IsRevoked(c, b)
    BY <1>4 DEF Fits
  <2> QED
    BY <1>4, <1>10, <2>1 DEF HasLink, IsRevoked, IsLoaded, IsListed
<1>12. FilesInv'
  <2>1. /\ written \in State \union {Unreadable} /\ (written # Unreadable => Sound(written)')
        /\ f \in State \union {Unreadable} /\ (f # Unreadable => Sound(f)')
    <3>1. c.state \in State /\ Sound(c.state)
      BY <1>4 DEF CommandRecord
    <3>2. PICK s : s = c.state
      OBVIOUS
    <3>3. s \in State /\ Sound(s)'
      BY <1>9, <3>1, <3>2, MovesKeep
    <3>4. written = s \/ written = Unreadable
      BY <1>2, <3>2
    <3>5. f \in State \union {Unreadable} /\ (f # Unreadable => Sound(f)')
      BY <1>1, <1>9, MovesKeep DEF IInv, FilesInv
    <3> QED
      BY <3>3, <3>4, <3>5
  <2> QED
    BY <1>2, <2>1 DEF FilesInv
<1>13. /\ switch' = switch /\ switch' \in {"on", "off", "unknown"} /\ unlinked' = unlinked
       /\ commands' \in 0 .. deployment.commands /\ UNCHANGED <<machine, service, runner, deployment>>
  BY <1>3 DEF IInv, RestInv, OutsideCommand, history
<1>14. ASSUME SingleTerminal
       PROVE  AloneInv(next, a, b)' /\ file' # Unreadable
  <2>1. ~Rival(t)
    BY <1>14, OneTerminal DEF Rival, IInv, RestInv
  <2>2. AloneInv(c, a0, b)
    BY <1>4, <1>14 DEF Fits
  <2>3. temporary' = c.state /\ file' = file /\ file # Unreadable
    BY <1>1, <1>2, <1>4, <1>14, <2>1, <2>2, FilesAssumption DEF AloneInv, IInv, SingleInv
  <2>4. a # <<"write", "replace">> /\ a # <<>> /\ a0 # <<>>
    BY <1>4, <1>5
  <2>5. AloneInv(next, a, b)'
    BY <1>10, <1>13, <2>2, <2>3, <2>4 DEF AloneInv, Switches, SwitchIsRight
  <2> QED
    BY <2>3, <2>5
<1>15. \A l \in unlinked' \ unlinked : l \in Links /\ Settled(l)'
  BY <1>13
<1>16. next.todo = a \o b
  BY <1>5, <1>7
<1> QED
  BY <1>6, <1>7, <1>8, <1>9, <1>11, <1>12, <1>13, <1>14, <1>15, <1>16, CommandGoesOn

\* What an unlink has removed from the file is revoked.
LEMMA RemovedIsSettled ==
  ASSUME BackendInv, NEW c \in CommandRecord, NEW a \in Saves, NEW b \in Plans(c.name),
         Fits(c, a, b), NEW l \in RemovedBy(c), backend[l] # "NONE"
  PROVE  l \in Links /\ Settled(l)
<1>1. /\ c.name = "unlink" /\ c.link # None /\ "remove" \notin Members(c.todo)
      /\ l \in Links /\ l.company = c.company /\ l.device = c.device /\ l.n <= c.link.n
  BY DEF RemovedBy, Members
<1>2. b \in Seq(Steps) /\ (b # <<>> => PlanStep(c.name, b))
  <2>1. b # <<>> => PlanStep(c.name, b)
    BY PlanSteps DEF CommandRecord
  <2> QED
    BY <2>1, EmptySeq DEF PlanStep
<1>3. "remove" \notin Members(b)
  <2>1. Members(a \o b) = Members(a) \union Members(b)
    BY <1>2, SaveThenPlan
  <2> QED
    BY <1>1, <2>1 DEF Fits
<1>4. "revoke" \notin Members(b)
  <2>1. CASE b = <<>>
    BY <2>1 DEF Members
  <2>2. CASE b # <<>>
    BY <1>1, <1>2, <1>3, <2>2 DEF PlanStep
  <2> QED
    BY <2>1, <2>2
<1>5. /\ Settled(c.link) /\ c.link \in Links /\ c.link.device = c.device
      /\ c.link.company = c.company /\ backend[c.link] # "NONE"
  BY <1>1, <1>4 DEF Fits, IsRevoked, HasLink
<1>6. CASE l.n < c.link.n
  BY <1>1, <1>5, <1>6 DEF BackendInv, Settled
<1>7. CASE l.n >= c.link.n
  <2>1. /\ l \in [company : Companies, device : Devices, n : Nat \ {0}]
        /\ c.link \in [company : Companies, device : Devices, n : Nat \ {0}]
    BY <1>1, <1>5, LinksAssumption
  <2>2. l = c.link
    BY <1>1, <1>5, <1>7, <2>1
  <2> QED
    BY <1>1, <1>5, <2>2
<1> QED
  BY <1>1, <1>6, <1>7, LinksAssumption, <1>5

LEMMA ReplaceFileInv ==
  ASSUME IInv, NEW t \in Terminals, ReplaceFile(t)
  PROVE  IInv'
<1>1. PICK c, g : c = command[t] /\ g = temporary
  OBVIOUS
<1>2. UNCHANGED <<backendVars, switch, OutsideCommand>> /\ BackendMoves
  BY BackendStays DEF ReplaceFile, IInv
<1>3. PICK b \in Plans(c.name), a0 \in Saves :
           /\ c \in CommandRecord /\ IsListed(c) /\ Sound(c.state) /\ c.state.device = c.device
           /\ a0 = <<"replace">>
           /\ Tail(c.todo) = Tail(a0) \o b /\ c.todo = a0 \o b /\ b \in Seq(Steps) /\ Fits(c, a0, b)
           /\ Tail(a0) = <<>>
  BY <1>1, SavingStep DEF ReplaceFile, IInv
<1>4. SingleTerminal => AloneInv(c, a0, b) /\ temporary = c.state /\ temporary \in State
  BY <1>3 DEF Fits, AloneInv, CommandRecord
<1>5. CASE temporary = None
  <2>1. Fails(t) /\ UNCHANGED <<fileVars, unlinked>>
    BY <1>5 DEF ReplaceFile
  <2>2. ~SingleTerminal
    BY <1>4, <1>5, FilesAssumption
  <2> QED
    BY <1>2, <2>1, <2>2, CommandStops DEF history
<1>6. CASE temporary # None
  <2>1. /\ file' = g /\ temporary' = None /\ Then(t, c)
        /\ unlinked' = unlinked \union {l \in RemovedBy(c) : backend[l] # "NONE"}
    BY <1>1, <1>6 DEF ReplaceFile
  <2>2. PICK a, next : a = <<>> /\ next = Replan(c, b)
    OBVIOUS
  <2>3. next \in CommandRecord /\ next.todo = b /\ SameButTodo(next, c)
    BY <1>3, <2>2, Replanned
  <2>4. Becomes(t, next)
    <3>1. Tail(c.todo) = b
      BY <1>3, ConcatEmptySeq
    <3> QED
      BY <1>1, <2>1, <2>2, <3>1 DEF Then, Replan
  <2>5. /\ next.name = c.name /\ next.device = c.device /\ next.state = c.state
        /\ next.link = c.link /\ next.listed = c.listed /\ next.company = c.company
    BY <2>3 DEF SameButTodo
  <2>6. /\ Sound(next.state) /\ IsListed(next) /\ IsLoaded(next, a, b) /\ b \in Plans(next.name)
        /\ HasLink(next, b) /\ IsRevoked(next, b)
    <3>1. HasLink(c, b) /\ IsRevoked(c, b)
      BY <1>3 DEF Fits
    <3> QED
      BY <1>3, <2>5, <3>1 DEF HasLink, IsRevoked, IsLoaded, IsListed
  <2>7. FilesInv'
    <3>1. g \in State \union {Unreadable} /\ (g # Unreadable => Sound(g)')
      BY <1>1, <1>2, <1>6, MovesKeep DEF IInv, FilesInv
    <3> QED
      BY <2>1, <3>1 DEF FilesInv
  <2>8. /\ switch' = switch /\ switch' \in {"on", "off", "unknown"}
        /\ commands' \in 0 .. deployment.commands
        /\ UNCHANGED <<machine, service, runner, deployment>>
    BY <1>2 DEF IInv, RestInv, OutsideCommand
  <2>9. ASSUME SingleTerminal
        PROVE  AloneInv(next, a, b)' /\ file' # Unreadable
    <3>1. file' = c.state /\ file' # Unreadable
      BY <1>1, <1>4, <2>1, <2>9, FilesAssumption
    <3>2. a # <<"write", "replace">> /\ a # <<"replace">>
      BY <2>2
    <3>3. AloneInv(next, a, b)'
      BY <1>3, <1>4, <2>5, <2>8, <2>9, <3>1, <3>2 DEF AloneInv, Switches, SwitchIsRight
    <3> QED
      BY <3>1, <3>3
  <2>10. \A l \in unlinked' \ unlinked : l \in Links /\ Settled(l)'
    <3>1. \A l \in unlinked' \ unlinked : l \in Links /\ Settled(l)
      BY <1>3, <2>1, RemovedIsSettled DEF IInv
    <3> QED
      BY <1>2, <3>1 DEF BackendMoves
  <2>11. next.todo = a \o b /\ a \in Saves
    BY <1>3, <2>2, <2>3, ConcatEmptySeq DEF Saves
  <2> QED
    BY <1>2, <2>3, <2>4, <2>6, <2>7, <2>8, <2>9, <2>10, <2>11, CommandGoesOn
<1> QED
  BY <1>5, <1>6

LEMMA KilledInv ==
  ASSUME IInv, NEW t \in Terminals, Killed(t)
  PROVE  IInv'
<1>1. PICK c : c = command[t]
  OBVIOUS
<1>2. /\ Fails(t) /\ UNCHANGED <<fileVars, unlinked, OutsideCommand>>
      /\ switch' = IF SwitchesRecording(c.name) THEN "unknown" ELSE switch
      /\ Dropped(t, RequestOf(c))
  BY <1>1 DEF Killed, SwitchesRecording
<1>3. BackendMoves
  <2>1. PICK r : r = RequestOf(c)
    OBVIOUS
  <2>2. r.type = "revoke" => r.link \in Links /\ backend[r.link] # "NONE"
    <3>1. CASE Does(t, "revoke")
      <4>1. PICK b \in Plans(c.name) : Doing(c, b, "revoke")
        BY <1>1, <3>1, DoesStep DEF IInv
      <4>2. c \in CommandRecord /\ HasLink(c, b) /\ c.name \in Linkers /\ ~Finds(b)
        BY <4>1, PlanTail DEF Doing, PlanStep, Fits
      <4>3. c.link \in Links /\ backend[c.link] # "NONE"
        BY <4>2 DEF HasLink
      <4>4. r = Revocation(c.link)
        BY <1>1, <2>1, <3>1 DEF RequestOf, Does
      <4> QED
        BY <4>3, <4>4 DEF Revocation
    <3>2. CASE ~Does(t, "revoke")
      <4>1. Head(c.todo) # "revoke"
        BY <1>1, <3>2 DEF Does, Killed
      <4>2. r = Event(c.link) \/ r = Other
        BY <2>1, <4>1 DEF RequestOf
      <4> QED
        BY <4>2, RequestTypes
    <3> QED
      BY <3>1, <3>2
  <2>3. t \in Processes /\ BackendInv /\ DOMAIN calls = Processes
    BY DEF Processes, IInv, RestInv
  <2> QED
    BY <1>2, <2>1, <2>2, <2>3, CallMoves
<1>4. CommandInv(c)
  BY <1>1, IdleOrRunning DEF Killed, IInv
<1>5. ASSUME SingleTerminal
      PROVE  SwitchIsRight'
  <2>1. CASE SwitchesRecording(c.name)
    BY <1>2, <2>1 DEF SwitchIsRight
  <2>2. CASE ~SwitchesRecording(c.name)
    <3>1. SwitchIsRight
      BY <1>4, <1>5, <2>2, NotSwitching DEF CommandInv
    <3> QED
      BY <1>2, <2>2, <3>1 DEF SwitchIsRight, fileVars
  <2> QED
    BY <2>1, <2>2
<1>6. switch' \in {"on", "off", "unknown"}
  BY <1>2 DEF IInv, RestInv
<1> QED
  BY <1>2, <1>3, <1>5, <1>6, CommandEnds

\* Every command begins by listing the links or reading the file.
LEMMA ProgramIsAPlan ==
  ASSUME NEW name \in AllCommands
  PROVE  /\ Program(name) \in Plans(name) /\ Program(name) # <<>>
         /\ Head(Program(name)) \in {"list", "load"}
<1>1. CASE name = "link"
  <2>1. PICK w, x, y, z : /\ w = <<"load">> /\ x = Save /\ y = <<"call", "call">>
                          /\ z = <<"load", "open", "write", "replace", "call", "call">>
    OBVIOUS
  <2>2. /\ w \in Seq(Steps) /\ x \in Seq(Steps) /\ y \in Seq(Steps) /\ z \in Seq(Steps)
        /\ Len(w) = 1 /\ Len(x) = 3 /\ Len(y) = 2 /\ Len(z) = 6
    BY <2>1 DEF Steps, Save
  <2>3. /\ w \o x \in Seq(Steps) /\ Len(w \o x) = Len(w) + Len(x)
        /\ \A i \in 1 .. Len(w) + Len(x) :
             (w \o x)[i] = IF i <= Len(w) THEN w[i] ELSE x[i - Len(w)]
    BY <2>2, ConcatProperties
  <2>4. PICK v : v = w \o x
    OBVIOUS
  <2>5. /\ v \in Seq(Steps) /\ Len(v) = 4
        /\ \A i \in 1 .. 4 : v[i] = IF i <= 1 THEN w[i] ELSE x[i - 1]
    BY <2>2, <2>3, <2>4
  <2>6. /\ v \o y \in Seq(Steps) /\ Len(v \o y) = Len(v) + Len(y)
        /\ \A i \in 1 .. Len(v) + Len(y) :
             (v \o y)[i] = IF i <= Len(v) THEN v[i] ELSE y[i - Len(v)]
    BY <2>2, <2>5, ConcatProperties
  <2>7. \A i \in 1 .. 4 : v[i] = z[i]
    BY <2>1, <2>5 DEF Save
  <2>8. \A i \in 1 .. 6 : z[i] = IF i <= 4 THEN v[i] ELSE y[i - 4]
    BY <2>1, <2>7
  <2>9. Len(v \o y) = Len(z) /\ \A i \in 1 .. Len(v \o y) : (v \o y)[i] = z[i]
    BY <2>2, <2>5, <2>6, <2>8
  <2>10. v \o y = z
    BY <2>2, <2>6, <2>9, SeqEqual
  <2>11. Program(name) = z
    BY <1>1, <2>1, <2>4, <2>10 DEF Program
  <2>12. z \in Plans(name) /\ z # <<>> /\ Head(z) = "load"
    BY <1>1, <2>1 DEF Plans
  <2> QED
    BY <2>11, <2>12
<1>2. CASE name = "companies"
  BY <1>2 DEF Program, Plans
<1>3. CASE name = "use-company"
  BY <1>3 DEF Program, Plans
<1>4. CASE name = "start-recording"
  BY <1>4 DEF Program, Plans
<1>5. CASE name = "stop-recording"
  BY <1>5 DEF Program, Plans
<1>6. CASE name = "unlink"
  BY <1>6 DEF Program, Plans
<1> QED
  BY <1>1, <1>2, <1>3, <1>4, <1>5, <1>6 DEF AllCommands

LEMMA StartCommandInv ==
  ASSUME IInv, NEW t \in Terminals, NEW name \in AllCommands, NEW k \in Companies \union {None},
         StartCommand(t, name, k)
  PROVE  IInv'
<1>1. PICK b, e : b = Program(name) /\ e = EmptyState
  OBVIOUS
<1>2. PICK next : next = [todo |-> b, name |-> name, company |-> k, device |-> machine,
                          state |-> e, listed |-> e, link |-> None]
  OBVIOUS
<1>3. b \in Plans(name) /\ b # <<>> /\ Head(b) \in {"list", "load"} /\ PlanStep(name, b)
  BY <1>1, ProgramIsAPlan, PlanSteps
<1>4. e \in State /\ e.known = {} /\ e.live = {} /\ e.selected = None /\ e.device = None
  BY <1>1 DEF EmptyState, State
<1>5. b \in Seq(Steps) /\ machine \in Devices
  BY <1>3 DEF PlanStep, IInv, RestInv
<1>6. next \in CommandRecord
  BY <1>2, <1>4, <1>5 DEF CommandRecord
<1>7. /\ next.todo = b /\ next.name = name /\ next.device = machine /\ next.state = e
      /\ next.listed = e /\ next.link = None
  BY <1>2
<1>8. Becomes(t, next)
  BY <1>1, <1>2, <1>3, <1>7 DEF StartCommand, Becomes
<1>9. PICK a : a = <<>>
  OBVIOUS
<1>10. Sound(next.state) /\ IsListed(next) /\ IsLoaded(next, a, b)
  BY <1>3, <1>4, <1>7, <1>9 DEF Sound, IsListed, IsLoaded
<1>11. HasLink(next, b) /\ IsRevoked(next, b)
  <2>1. Finds(b) \/ name \notin Linkers
    BY <1>3 DEF PlanStep, Linkers, SwitchesRecording
  <2> QED
    BY <1>7, <2>1 DEF HasLink, IsRevoked
<1>12. /\ UNCHANGED <<fileVars, backendVars, machine, service, runner, deployment, history>>
       /\ commands' = commands + 1 /\ commands < deployment.commands /\ ~Running(t)
  BY DEF StartCommand
<1>13. BackendMoves /\ FilesInv'
  BY <1>12, BackendStays, FilesStay DEF IInv
<1>14. commands' \in 0 .. deployment.commands
  BY <1>12, BoundsAssumption DEF IInv, RestInv
<1>15. ASSUME SingleTerminal
       PROVE  AloneInv(next, a, b)' /\ file' # Unreadable
  <2>1. command[t] = Idle
    BY <1>12, IdleOrRunning DEF IInv
  <2>2. SwitchIsRight /\ file # Unreadable
    BY <1>15, <2>1 DEF IInv, SingleInv
  <2>3. SwitchIsRight' /\ file' # Unreadable
    BY <1>12, <2>2 DEF SwitchIsRight, fileVars, history
  <2>4. ~Switches(next)' /\ next.state.device # next.device
    BY <1>4, <1>5, <1>7, LinksAssumption DEF Switches
  <2> QED
    BY <1>9, <2>3, <2>4 DEF AloneInv
<1>16. /\ switch' \in {"on", "off", "unknown"}
       /\ \A l \in unlinked' \ unlinked : l \in Links /\ Settled(l)'
  BY <1>12 DEF IInv, RestInv, history
<1>17. next.todo = a \o b /\ a \in Saves /\ b \in Plans(next.name)
  BY <1>3, <1>5, <1>7, <1>9, ConcatEmptySeq DEF Saves
<1> QED
  BY <1>6, <1>8, <1>10, <1>11, <1>12, <1>13, <1>14, <1>15, <1>16, <1>17, CommandGoesOn

\* One step of the command of a terminal.
LEMMA CommandStepInv ==
  ASSUME IInv, NEW t \in Terminals, CommandStep(t) \/ Killed(t)
  PROVE  IInv'
BY ListDeviceLinksInv, LoadInv, SyncInv, FindInv, SelectInv, RequireInv, SwitchInv, RemoveInv,
   CallInv, OpenTemporaryInv, WriteTemporaryInv, ReplaceFileInv, KilledInv DEF CommandStep

-----------------------------------------------------------------------------
(* The runner, the backend and the machine.                                  *)

\* What a step of the runner needs.
LEMMA RunnerMoves ==
  ASSUME IInv, BackendMoves, UNCHANGED OutsideRunner, service' \in {"on", "off", "stopping", "forgotten"},
         NEW next, runner' = next, RunnerFits(next)
  PROVE  IInv'
<1>1. UNCHANGED <<fileVars, command, deployment, commands, history>> /\ machine' \in Devices
  BY DEF OutsideRunner, IInv, RestInv
<1> QED
  BY <1>1, OthersMove

\* A runner that is gone has no link.
LEMMA GoneIsFit ==
  /\ RunnerFits(Gone("down")) /\ RunnerFits(Gone("failed"))
<1>1. Gone("down") \in RunnerRecord /\ Gone("failed") \in RunnerRecord
  BY DEF Gone, RunnerRecord, RunnerSteps
<1> QED
  BY <1>1 DEF RunnerFits, Gone

\* A runner that has done its task and has no link yet.
LEMMA NextTaskIsFit ==
  ASSUME RunnerInv, ~Waiting, runner.context = None, NEW next, next = [runner EXCEPT !.todo = Tail(@)]
  PROVE  RunnerFits(next)
<1>1. runner \in RunnerRecord /\ runner.todo # <<>> /\ runner.todo \in Seq(RunnerSteps)
  BY DEF RunnerInv, RunnerRecord, Waiting
<1>2. Tail(runner.todo) \in Seq(RunnerSteps)
  BY <1>1, HeadTailProperties
<1> QED
  BY <1>1, <1>2 DEF RunnerRecord, RunnerFits

\* A runner that is killed, in a call or not.
LEMMA RunnerDropped ==
  ASSUME IInv, Dropped(Agent, RunnerRequest)
  PROVE  BackendMoves
<1>1. PICK r : r = RunnerRequest
  OBVIOUS
<1>2. r.type # "revoke"
  BY <1>1, RequestTypes DEF RunnerRequest
<1>3. Agent \in Processes /\ BackendInv /\ DOMAIN calls = Processes
  BY DEF Processes, IInv, RestInv
<1> QED
  BY <1>1, <1>2, <1>3, CallMoves

LEMMA ServiceInv ==
  ASSUME IInv, ServiceStarts \/ StartRunner \/ StartOnce \/ StopSeen \/ Exit \/ Stopped
                 \/ RunnerKilled \/ ServiceStops \/ StopIsForgotten
  PROVE  IInv'
<1>1. BackendMoves /\ UNCHANGED OutsideRunner
  <2>1. UNCHANGED OutsideRunner
    BY DEF ServiceStarts, StartRunner, StartOnce, Starts, StopSeen, Exit, Stopped,
       RunnerKilled, ServiceStops, StopIsForgotten
  <2>2. UNCHANGED backendVars \/ Dropped(Agent, RunnerRequest)
    BY DEF ServiceStarts, StartRunner, StartOnce, Starts, StopSeen, Exit, Stopped,
       RunnerKilled, ServiceStops, StopIsForgotten
  <2> QED
    BY <2>1, <2>2, BackendStays, RunnerDropped DEF IInv
<1>2. service' \in {"on", "off", "stopping", "forgotten"}
  BY DEF IInv, RestInv, ServiceStarts, StartRunner, StartOnce, Starts, StopSeen, Exit, Stopped,
     RunnerKilled, ServiceStops, StopIsForgotten
<1>3. PICK next : next = runner'
  OBVIOUS
<1>4. RunnerFits(runner) /\ machine \in Devices
  BY RunnerIsFit DEF IInv, RestInv
<1>5. CASE UNCHANGED runner
  BY <1>1, <1>2, <1>4, <1>5, RunnerMoves
<1>6. CASE runner' = Gone("down")
  BY <1>1, <1>2, <1>6, GoneIsFit, RunnerMoves
<1>7. CASE \E todo \in {RunForever, RunOnce} : Starts(todo)
  <2>1. RunForever \in Seq(RunnerSteps) /\ RunOnce \in Seq(RunnerSteps)
    <3>1. /\ Bootstrap \in Seq(RunnerSteps) /\ <<"ready">> \in Seq(RunnerSteps)
          /\ <<"ready", "AGENT_HEARTBEAT", "scan", "AGENT_STOPPING", "AGENT_STOPPED", "exit">>
               \in Seq(RunnerSteps)
      BY DEF Bootstrap, RunnerSteps, Lifecycle
    <3> QED
      BY <3>1, ConcatProperties DEF RunForever, RunOnce
  <2>2. PICK todo \in Seq(RunnerSteps) : runner' = [todo |-> todo, device |-> machine, context |-> None]
    BY <1>7, <2>1 DEF Starts
  <2>3. RunnerFits(next)
    BY <1>3, <1>4, <2>2 DEF RunnerFits, RunnerRecord
  <2> QED
    BY <1>1, <1>2, <1>3, <2>3, RunnerMoves
<1>8. CASE StopSeen
  <2>1. next = [runner EXCEPT !.todo = Shutdown] /\ runner.context = None
    BY <1>3, <1>8 DEF StopSeen, Goes, IInv, RunnerInv
  <2>2. Shutdown \in Seq(RunnerSteps)
    BY DEF Shutdown, RunnerSteps, Lifecycle
  <2>3. RunnerFits(next)
    BY <1>4, <2>1, <2>2 DEF RunnerFits, RunnerRecord
  <2> QED
    BY <1>1, <1>2, <1>3, <2>3, RunnerMoves
<1> QED
  BY <1>5, <1>6, <1>7, <1>8 DEF ServiceStarts, StartRunner, StartOnce, Exit, Stopped,
     RunnerKilled, ServiceStops, StopIsForgotten, Goes

LEMMA BeginsInv ==
  ASSUME IInv, NEW task \in {"AGENT_HEARTBEAT", "scan"}, Begins(task)
  PROVE  IInv'
<1>1. BackendMoves /\ UNCHANGED <<service, OutsideRunner>>
  BY BackendStays DEF IInv, Begins
<1>2. PICK refresh \in Refreshes :
        runner' = [runner EXCEPT !.todo = refresh \o <<task>>, !.device = machine]
  BY DEF Begins, Goes
<1>3. refresh \in Seq(RunnerSteps) /\ <<task>> \in Seq(RunnerSteps)
  <2>1. <<"register", "AGENT_CONFIG_CHANGED">> \in Seq(RunnerSteps) /\ task \in RunnerSteps
    BY DEF RunnerSteps, Lifecycle
  <2>2. <<>> \in Seq(RunnerSteps)
    BY EmptySeq
  <2>3. refresh \in Seq(RunnerSteps)
    BY <2>1, <2>2, Zenon DEF Refreshes
  <2> QED
    BY <2>1, <2>3
<1>4. refresh \o <<task>> \in Seq(RunnerSteps)
  BY <1>3, ConcatProperties
<1>5. RunnerFits(runner) /\ runner.context = None /\ machine \in Devices
  BY RunnerIsFit DEF IInv, RestInv, RunnerInv, Begins
<1>6. PICK todo, next : todo = refresh \o <<task>> /\ next = [runner EXCEPT !.todo = todo, !.device = machine]
  OBVIOUS
<1>7. RunnerFits(next)
  BY <1>4, <1>5, <1>6 DEF RunnerFits, RunnerRecord
<1> QED
  BY <1>1, <1>2, <1>6, <1>7, RunnerMoves DEF IInv, RestInv

\* The link of a report is the one of the environment or one of the device of the runner.
LEMMA ContextIsFit ==
  ASSUME IInv, file # Unreadable, NEW d, MayUse(file, d), CompanyContext(file) # None
  PROVE  /\ CompanyContext(file) \in Links
         /\ CompanyContext(file) = EnvLink \/ CompanyContext(file).device = d
<1>1. file \in State /\ Sound(file) /\ file.known \subseteq Links
  BY DEF IInv, FilesInv, State
<1>2. CASE ActiveCompany(file) \in file.live
  <2>1. CompanyContext(file) = ActiveCompany(file) /\ CompanyContext(file) \in file.known
    BY <1>1, <1>2 DEF CompanyContext, Sound
  <2>2. /\ CompanyContext(file) \in Links /\ CompanyContext(file).device = file.device
        /\ CompanyContext(file).device # None
    BY <1>1, <2>1, LinksAssumption DEF Sound, Devices
  <2> QED
    BY <2>2 DEF MayUse
<1>3. CASE ActiveCompany(file) \notin file.live
  <2>1. CompanyContext(file) = EnvLink
    BY <1>3 DEF CompanyContext
  <2> QED
    BY <2>1, BoundsAssumption DEF EnvLink, IInv, RestInv
<1> QED
  BY <1>2, <1>3

\* As many reports of the network as the scan has found.
LEMMA ScanSteps ==
  ASSUME NEW k \in Nat, NEW s \in Seq(RunnerSteps), NEW t, t = [i \in 1 .. k |-> "network"] \o s
  PROVE  t \in Seq(RunnerSteps) /\ (k # 0 => t # <<>> /\ Head(t) = "network")
<1>1. PICK r : r = [i \in 1 .. k |-> "network"]
  OBVIOUS
<1>2. r \in Seq(RunnerSteps) /\ Len(r) = k /\ \A i \in 1 .. k : r[i] = "network"
  BY <1>1 DEF RunnerSteps
<1>3. /\ t \in Seq(RunnerSteps) /\ Len(t) = Len(r) + Len(s) /\ Len(s) \in Nat
      /\ \A i \in 1 .. Len(r) + Len(s) : t[i] = IF i <= Len(r) THEN r[i] ELSE s[i - Len(r)]
  BY <1>1, <1>2, ConcatProperties, LenProperties
<1>4. ASSUME k # 0
      PROVE  t # <<>> /\ Head(t) = "network"
  <2>1. 1 \in 1 .. Len(r) + Len(s) /\ 1 <= Len(r) /\ 1 \in 1 .. k
    BY <1>2, <1>3, <1>4
  <2>2. t[1] = "network" /\ Len(t) # 0
    BY <1>2, <1>3, <2>1
  <2>3. t \in Seq(RunnerSteps)
    BY <1>3
  <2> QED
    BY <2>2, <2>3
<1> QED
  BY <1>3, <1>4

LEMMA LoadStateInv ==
  ASSUME IInv, LoadState
  PROVE  IInv'
<1>1. BackendMoves /\ UNCHANGED <<service, OutsideRunner>> /\ service' \in {"on", "off", "stopping", "forgotten"}
  BY BackendStays DEF IInv, LoadState, RestInv
<1>2. /\ runner \in RunnerRecord /\ runner.todo # <<>> /\ runner.todo \in Seq(RunnerSteps)
      /\ Task = Head(runner.todo) /\ Task \in Lifecycle \union {"scan"}
      /\ runner.context = None
  BY DEF LoadState, Waiting, Task, IInv, RunnerInv, RunnerRecord
<1>3. CASE Crashes
  BY <1>1, <1>3, GoneIsFit, RunnerMoves DEF Crashes, Goes
<1>4. CASE ~Crashes
  <2>1. file # Unreadable /\ MayUse(file, runner.device) /\ CompanyContext(file) # None
    BY <1>4 DEF LoadState
  <2>2. PICK l : l = CompanyContext(file)
    OBVIOUS
  <2>3. l \in Links /\ (l = EnvLink \/ l.device = runner.device)
    BY <2>1, <2>2, ContextIsFit
  <2>4. CASE Task # "scan"
    <3>1. PICK next : next = [runner EXCEPT !.context = l]
      OBVIOUS
    <3>2. runner' = next
      BY <1>4, <2>1, <2>2, <2>4, <3>1 DEF LoadState, Goes
    <3>3. RunnerFits(next)
      BY <1>2, <2>3, <2>4, <3>1 DEF RunnerFits, RunnerRecord
    <3> QED
      BY <1>1, <3>2, <3>3, RunnerMoves
  <2>5. CASE Task = "scan"
    <3>1. PICK k \in 0 .. (IF RecordingEnabled(file) THEN MaxScan ELSE 0) :
            runner' = [runner EXCEPT !.todo = [i \in 1 .. k |-> "network"] \o Tail(@),
                                     !.context = IF k = 0 THEN None ELSE CompanyContext(file)]
      BY <1>4, <2>1, <2>5 DEF LoadState, Goes
    <3>2. k \in Nat /\ Tail(runner.todo) \in Seq(RunnerSteps)
      BY <1>2, BoundsAssumption, HeadTailProperties
    <3>3. PICK todo, m, next : /\ todo = [i \in 1 .. k |-> "network"] \o Tail(runner.todo)
                               /\ m = IF k = 0 THEN None ELSE l
                               /\ next = [runner EXCEPT !.todo = todo, !.context = m]
      OBVIOUS
    <3>4. todo \in Seq(RunnerSteps) /\ (k # 0 => todo # <<>> /\ Head(todo) = "network")
      BY <3>2, <3>3, ScanSteps
    <3>5. runner' = next
      BY <1>2, <2>2, <3>1, <3>3 DEF RunnerRecord
    <3>6. RunnerFits(next)
      <4>1. next = [todo |-> todo, device |-> runner.device, context |-> m]
        BY <1>2, <3>3 DEF RunnerRecord
      <4>2. m \in Links \union {None} /\ (m # None => k # 0 /\ m = l)
        BY <2>3, <3>3
      <4> QED
        BY <1>2, <2>3, <3>4, <4>1, <4>2 DEF RunnerFits, RunnerRecord
    <3> QED
      BY <1>1, <3>5, <3>6, RunnerMoves
  <2> QED
    BY <2>4, <2>5
<1> QED
  BY <1>3, <1>4

LEMMA PostInv ==
  ASSUME IInv, PostGoesOn \/ Post \/ PostFails
  PROVE  IInv'
<1>1. UNCHANGED <<service, OutsideRunner>> /\ service' \in {"on", "off", "stopping", "forgotten"}
  BY DEF IInv, PostGoesOn, Post, PostFails, RestInv
<1>2. /\ runner \in RunnerRecord /\ runner.todo # <<>> /\ runner.todo \in Seq(RunnerSteps)
      /\ Task = Head(runner.todo) /\ (Task = "register" \/ runner.context # None)
  BY DEF PostGoesOn, Post, PostFails, Posting, Waiting, Task, IInv, RunnerInv, RunnerRecord
<1>3. PICK r : r = RunnerRequest
  OBVIOUS
<1>4. r.type # "revoke"
  BY <1>3, RequestTypes DEF RunnerRequest
<1>5. Flushing(Agent, r) \/ Returns(Agent, r) \/ Raises(Agent, r)
  BY <1>3 DEF PostGoesOn, Post, PostFails
<1>6. BackendMoves
  <2>1. Agent \in Processes /\ BackendInv /\ DOMAIN calls = Processes
    BY DEF Processes, IInv, RestInv
  <2> QED
    BY <1>4, <1>5, <2>1, CallMoves
<1>7. CASE PostFails
  BY <1>1, <1>6, <1>7, GoneIsFit, RunnerMoves DEF PostFails, Crashes, Goes
<1>8. CASE Post
  <2>1. PICK rest, m, next :
          /\ rest = Tail(runner.todo)
          /\ m = IF rest # <<>> /\ Head(rest) = "network" THEN runner.context ELSE None
          /\ next = [runner EXCEPT !.todo = rest, !.context = m]
    OBVIOUS
  <2>2. runner' = next
    <3>1. AfterPost = [runner EXCEPT !.todo = rest, !.context = m]
      BY <2>1 DEF AfterPost
    <3> QED
      BY <1>8, <2>1, <3>1 DEF Post, Goes
  <2>3. rest \in Seq(RunnerSteps)
    BY <1>2, <2>1, HeadTailProperties
  <2>4. RunnerFits(runner)
    BY RunnerIsFit DEF IInv
  <2>5. next = [todo |-> rest, device |-> runner.device, context |-> m]
    BY <1>2, <2>1 DEF RunnerRecord
  <2>6. RunnerFits(next)
    BY <1>2, <2>1, <2>3, <2>4, <2>5 DEF RunnerFits, RunnerRecord
  <2> QED
    BY <1>1, <1>6, <2>2, <2>6, RunnerMoves
<1>9. CASE PostGoesOn
  <2>1. runner' = runner /\ RunnerFits(runner)
    BY <1>9, RunnerIsFit DEF PostGoesOn, IInv
  <2> QED
    BY <1>1, <1>6, <2>1, RunnerMoves
<1> QED
  BY <1>7, <1>8, <1>9

LEMMA RunnerStepInv ==
  ASSUME IInv, RunnerStep
  PROVE  IInv'
<1>1. CASE CheckState \/ Ready \/ NotReady
  <2>1. BackendMoves /\ UNCHANGED <<service, OutsideRunner>> /\ service' \in {"on", "off", "stopping", "forgotten"}
    BY <1>1, BackendStays DEF IInv, CheckState, Ready, NotReady, RestInv
  <2>2. CASE Crashes
    BY <2>1, <2>2, GoneIsFit, RunnerMoves DEF Crashes, Goes
  <2>3. CASE ~Crashes
    <3>1. PICK next : next = [runner EXCEPT !.todo = Tail(@)]
      OBVIOUS
    <3>2. runner' = next
      BY <1>1, <2>3, <3>1 DEF CheckState, Ready, NotReady, Goes
    <3>3. ~Waiting /\ runner.context = None
      BY <1>1 DEF CheckState, Ready, NotReady, Faces, IInv, RunnerInv, Lifecycle
    <3>4. RunnerFits(next)
      BY <3>1, <3>3, NextTaskIsFit DEF IInv
    <3> QED
      BY <2>1, <3>2, <3>4, RunnerMoves
  <2> QED
    BY <2>2, <2>3
<1> QED
  BY <1>1, LoadStateInv, PostInv, ServiceInv DEF RunnerStep

LEMMA AcceptedInv ==
  ASSUME IInv, NEW l \in Links, LinkAccepted(l)
  PROVE  IInv'
<1>1. BackendMoves /\ UNCHANGED <<service, runner, OutsideRunner>>
  BY AcceptanceMoves DEF IInv, LinkAccepted
<1>2. RunnerFits(runner) /\ service' \in {"on", "off", "stopping", "forgotten"}
  BY <1>1, RunnerIsFit DEF IInv, RestInv
<1> QED
  BY <1>1, <1>2, RunnerMoves

LEMMA RenamedInv ==
  ASSUME IInv, MachineRenamed
  PROVE  IInv'
<1>1. /\ BackendMoves /\ machine' \in Devices
      /\ UNCHANGED <<fileVars, service, runner, command, deployment, commands, history>>
  BY BackendStays DEF IInv, MachineRenamed
<1>2. RunnerFits(runner) /\ service' \in {"on", "off", "stopping", "forgotten"}
  BY <1>1, RunnerIsFit DEF IInv, RestInv
<1> QED
  BY <1>1, <1>2, OthersMove

LEMMA StutterInv ==
  ASSUME IInv, UNCHANGED vars
  PROVE  IInv'
<1>1. /\ BackendMoves /\ machine' \in Devices
      /\ UNCHANGED <<fileVars, service, runner, command, deployment, commands, history>>
  BY BackendStays DEF IInv, vars, RestInv, fileVars, backendVars, queueVars, history
<1>2. RunnerFits(runner) /\ service' \in {"on", "off", "stopping", "forgotten"}
  BY <1>1, RunnerIsFit DEF IInv, RestInv
<1> QED
  BY <1>1, <1>2, OthersMove

LEMMA NextIInv ==
  ASSUME IInv, [Next]_vars
  PROVE  IInv'
BY StartCommandInv, CommandStepInv, ServiceInv, RunnerStepInv, BeginsInv, AcceptedInv, RenamedInv,
   StutterInv DEF Next, HeartbeatIsDue, ScanIsDue

LEMMA InitIInv ==
  ASSUME Init
  PROVE  IInv
<1>1. /\ deployment \in Deployments /\ temporary = None /\ revoking = {}
      /\ tail = "clean" /\ exposed = {} /\ calls = [p \in Processes |-> NoCall] /\ service = "off"
      /\ runner = Gone("down") /\ command = [t \in Terminals |-> Idle] /\ commands = 0
      /\ unlinked = {} /\ switch = (IF file.recording THEN "on" ELSE "off")
      /\ backend = [l \in Links |-> IF l \in Linked THEN "ACTIVE" ELSE "NONE"]
  BY DEF Init
<1>2. Linked \subseteq Links /\ \A l \in Links : l.device \in Devices /\ l # None
  BY LinksAssumption DEF Devices
<1>3. file \in State /\ Sound(file) /\ machine \in Devices
  <2>1. CASE file = EmptyState /\ \E l \in Linked : machine = l.device
    BY <1>2, <2>1 DEF EmptyState, State, Sound
  <2>2. CASE \E l \in Linked, on \in BOOLEAN : file = Configured(l, on) /\ machine = l.device
    <3>1. PICK l \in Linked, on \in BOOLEAN : file = Configured(l, on) /\ machine = l.device
      BY <2>2
    <3>2. PICK own : own = {k \in Linked : k.device = l.device}
      OBVIOUS
    <3>3. file = [device |-> l.device, recording |-> on, selected |-> l, known |-> own, live |-> own]
      BY <3>1, <3>2 DEF Configured
    <3>4. own \subseteq Links /\ l \in own /\ l \in Links /\ l.device \in Devices
      BY <1>2, <3>2
    <3>5. file \in State
      BY <3>3, <3>4 DEF State
    <3>6. \A k \in own : k.device = l.device /\ backend[k] # "NONE"
      BY <1>1, <1>2, <3>2
    <3>7. Sound(file)
      BY <3>3, <3>4, <3>6 DEF Sound
    <3> QED
      BY <3>1, <3>4, <3>5, <3>7
  <2> QED
    BY <2>1, <2>2 DEF Init
<1>4. FilesInv
  BY <1>1, <1>3, FilesAssumption DEF FilesInv
<1>5. BackendInv
  <2>1. backend \in [Links -> {"NONE", "ACTIVE", "REVOKED"}]
    BY <1>1
  <2>2. ASSUME NEW k \in Links, NEW l \in Links, k.company = l.company, k.device = l.device,
               k.n < l.n, backend[l] # "NONE"
        PROVE  FALSE
    <3>1. l \in Linked
      BY <1>1, <2>2
    <3>2. l.n <= k.n /\ l.n \in Nat /\ k.n \in Nat
      BY <2>2, <3>1, LinksAssumption
    <3> QED
      BY <2>2, <3>2
  <2>3. CallsInv
    <3>1. PICK k : k = NoCall
      OBVIOUS
    <3>2. k \in CallRecord /\ k.step = "none" /\ k.links = {}
      BY <3>1 DEF NoCall, CallRecord
    <3>3. Agrees(k)
      BY <3>2 DEF Agrees
    <3>4. DOMAIN calls = Processes /\ \A p \in DOMAIN calls : calls[p] = k
      BY <1>1, <3>1
    <3>5. calls \in [DOMAIN calls -> CallRecord]
      BY <1>1, <3>1, <3>2
    <3> QED
      BY <1>1, <3>2, <3>3, <3>4, <3>5 DEF CallsInv
  <2> QED
    BY <1>1, <2>1, <2>2, <2>3 DEF BackendInv
<1>6. CommandsInv /\ \A t \in Terminals : command[t] = Idle
  BY <1>1 DEF CommandsInv
<1>7. RunnerInv
  <2>1. RunnerFits(runner)
    BY <1>1, GoneIsFit
  <2> QED
    BY <1>1, <2>1 DEF RunnerInv, RunnerFits, RunnerRecord, Gone
<1>8. RestInv
  <2>1. 0 \in 0 .. deployment.commands
    BY <1>1, BoundsAssumption
  <2> QED
    BY <1>1, <1>3, <2>1 DEF RestInv
<1>9. SingleInv
  <2>1. file.recording \in BOOLEAN
    BY <1>3 DEF State
  <2> QED
    BY <1>1, <1>3, <2>1, FilesAssumption DEF SingleInv, SwitchIsRight
<1> QED
  BY <1>4, <1>5, <1>6, <1>7, <1>8, <1>9 DEF IInv

-----------------------------------------------------------------------------
(* The theorems.                                                             *)

\* The invariant holds whatever the commands, the runner and the machine do.
THEOREM ControlInvariance == Spec => []IInv
<1>1. Init => IInv
  BY InitIInv
<1>2. IInv /\ [Next]_vars => IInv'
  BY NextIInv
<1> QED
  BY <1>1, <1>2, PTL DEF Spec

\* The file, the processes and the backend are what their types say.
THEOREM TypeCorrect == Spec => []TypeOK
<1>1. IInv => TypeOK
  <2> SUFFICES ASSUME IInv
               PROVE  TypeOK
    OBVIOUS
  <2>1. /\ file \in State \union {Unreadable} /\ temporary \in State \union {None, Unreadable}
        /\ backend \in [Links -> {"NONE", "ACTIVE", "REVOKED"}]
        /\ revoking \subseteq {l \in Links : backend[l] # "NONE"}
        /\ machine \in Devices /\ service \in {"on", "off", "stopping", "forgotten"}
        /\ deployment \in Deployments /\ commands \in 0 .. deployment.commands
        /\ switch \in {"on", "off", "unknown"} /\ unlinked \subseteq Links
        /\ tail \in {"clean", "open"} /\ exposed \subseteq Links
    BY DEF IInv, FilesInv, BackendInv, CallsInv, RestInv
  <2>5. calls \in [Processes -> CallRecord]
    BY DEF IInv, BackendInv, CallsInv, RestInv
  <2>2. DOMAIN command = Terminals
    BY DEF IInv, CommandsInv
  <2>3. /\ runner.device \in Devices \union {None} /\ runner.context \in Links \union {None}
        /\ runner.context # None => ~Waiting /\ Task \in Lifecycle \union {"network"}
        /\ \A i \in DOMAIN runner.todo : runner.todo[i] \in RunnerSteps
    BY DEF IInv, RunnerInv
  <2>4. ASSUME NEW t \in Terminals, Running(t)
        PROVE  /\ command[t].name \in AllCommands /\ command[t].device \in Devices
               /\ command[t].state \in State /\ command[t].link \in Links \union {None}
               /\ \A i \in DOMAIN command[t].todo : command[t].todo[i] \in Steps
    BY <2>4, IdleOrRunning DEF IInv, CommandInv, CommandRecord
  <2> QED
    BY <2>1, <2>2, <2>3, <2>4, <2>5 DEF TypeOK, RunnerSteps, CallRecord
<1> QED
  BY <1>1, ControlInvariance, PTL

\* Whatever the commands write over each other, the file names a selected company that
\* is active, among linked companies that are of its device (agent/app/state.py:130-179).
THEOREM ConsistentCorrect == Spec => []StateIsConsistent
<1>1. IInv => StateIsConsistent
  BY DEF IInv, FilesInv, Sound, StateIsConsistent
<1> QED
  BY <1>1, ControlInvariance, PTL

\* Nothing is reported with the link of another device (agent/app/runner.py:229-235,
\* cli.py:378).
THEOREM ReportsCorrect == Spec => []ReportsAreOfTheDevice
<1>1. IInv => ReportsAreOfTheDevice
  <2> SUFFICES ASSUME IInv
               PROVE  ReportsAreOfTheDevice
    OBVIOUS
  <2>1. runner.context # None => runner.context = EnvLink \/ runner.context.device = runner.device
    BY DEF IInv, RunnerInv
  <2>2. ASSUME NEW t \in Terminals, Running(t), command[t].link # None
        PROVE  command[t].link.device = command[t].device
    BY <2>2, IdleOrRunning DEF IInv, CommandInv, Fits, HasLink
  <2> QED
    BY <2>1, <2>2 DEF ReportsAreOfTheDevice
<1> QED
  BY <1>1, ControlInvariance, PTL

\* The links of a company that an unlink removed are revoked or will be, whichever
\* calls came in between and whichever process stopped where, but for what the queue
\* without a lock can lose: a revocation appended during a call of another process or
\* behind a torn line, or waiting when a rewrite is cut or read half done
\* (agent/app/cli.py:320-339, local_queue.py:54, 64-95, 228-257).
THEOREM RevocationCorrect == Spec => []UnlinkedIsRevoked
<1>1. IInv => UnlinkedIsRevoked
  BY DEF IInv, RestInv, Settled, UnlinkedIsRevoked
<1> QED
  BY <1>1, ControlInvariance, PTL

\* With one terminal the file can be read, wherever a save was cut
\* (agent/app/state.py:207-215).
THEOREM ReadableCorrect == Spec => []StateIsReadable
<1>1. IInv => StateIsReadable
  BY DEF IInv, SingleInv, StateIsReadable
<1> QED
  BY <1>1, ControlInvariance, PTL

\* With one terminal the recording is as the operator last wanted it
\* (agent/app/cli.py:293-317).
THEOREM SwitchCorrect == Spec => []SwitchIsObeyed
<1>1. IInv => SwitchIsObeyed
  <2> SUFFICES ASSUME IInv, SingleTerminal, \A t \in Terminals : ~Running(t)
               PROVE  SwitchIsRight
    BY DEF SwitchIsObeyed, SwitchIsRight
  <2>1. 1 \in Terminals
    BY BoundsAssumption DEF Terminals, SingleTerminal, IInv, RestInv
  <2>2. command[1] = Idle
    BY <2>1, IdleOrRunning DEF IInv
  <2> QED
    BY <2>1, <2>2 DEF IInv, SingleInv
<1> QED
  BY <1>1, ControlInvariance, PTL
=============================================================================
