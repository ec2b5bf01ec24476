---------------------------- MODULE MCDeviceRegistry ----------------------------
(* A small instance of DeviceRegistry for TLC. *)
EXTENDS DeviceRegistry

CONSTANTS w1, w2, laptop, old, new

TwoWorkers == {w1, w2}
OneDevice == {laptop}
TwoVersions == {old, new}
=============================================================================
