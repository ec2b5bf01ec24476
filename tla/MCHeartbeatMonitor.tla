-------------------------- MODULE MCHeartbeatMonitor --------------------------
(* Small instances of HeartbeatMonitor for TLC. *)
EXTENDS HeartbeatMonitor, TLC

CONSTANTS acme, beta, sched, manual

OneCompany == {acme}
TwoCompanies == {acme, beta}
OneScheduler == {sched}
Manual == {manual}
Alive == {"up", "net"}
Everything == AllKinds
SomeDeployments == {{manual}, {sched}, {sched, manual}}
ManualOnly == {{manual}}
LongWhenSerial(long, short) ==
  [D \in Deployments |-> IF sched \in D THEN short ELSE long]
SomeReportsEnd == LongWhenSerial(7, 5)
SomeMaxTime == LongWhenSerial(9, 7)
=============================================================================
