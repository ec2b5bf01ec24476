----------------------------- MODULE MCAgentControl -----------------------------
(* A small instance of AgentControl for TLC. *)
EXTENDS AgentControl

CONSTANTS acme, beta, laptop, renamed

Link(c, d, n) == [company |-> c, device |-> d, n |-> n]
FirstLinks == {Link(acme, laptop, 1), Link(beta, laptop, 1)}
SomeLinks == FirstLinks \union {Link(acme, laptop, 2), Link(beta, renamed, 1)}
OtherLink == Link(beta, laptop, 1)
Runs(t, c, a, r, env) ==
  [terminals |-> t, commands |-> c, agent |-> a, renamed |-> r, env |-> env]
FourDeployments == {Runs(1, 1, TRUE, FALSE, None), Runs(1, 0, TRUE, TRUE, OtherLink),
                     Runs(1, 2, FALSE, TRUE, None), Runs(2, 2, FALSE, FALSE, None)}
=============================================================================
