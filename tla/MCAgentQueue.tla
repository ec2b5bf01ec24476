----------------------------- MODULE MCAgentQueue -----------------------------
(* A small instance of AgentQueue for TLC. *)
EXTENDS AgentQueue, TLC

CONSTANTS hb, ev, unlink, reg, old

AuditTwo == {hb, ev}
AuditOne == {hb}
RevokeOne == {unlink}
OtherOne == {reg}
LegacyOne == {old}
NoRequest == {}

Symmetric == Permutations(AuditTwo)
=============================================================================
