---------------------------- MODULE MCAuditorAccess ----------------------------
(* A small instance of AuditorAccess for TLC. *)
EXTENDS AuditorAccess, TLC

CONSTANTS w1, w2, laptop, kiosk, acme, beta, office

TwoWorkers == {w1, w2}
TwoDevices == {laptop, kiosk}
TwoCompanies == {acme, beta}
OneIp == {office}
OneEach == [limit \in Limits |-> 1]
RequestBounds == <<2, 2>>
EventBounds == <<5, 3>>

Symmetric == Permutations(TwoWorkers) \union Permutations(TwoDevices) \union Permutations(TwoCompanies)
=============================================================================
