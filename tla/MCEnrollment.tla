----------------------------- MODULE MCEnrollment -----------------------------
(* A small instance of Enrollment for TLC. *)
EXTENDS Enrollment, TLC

CONSTANTS w1, w2, laptop, kiosk, acme, monday, friday

TwoWorkers == {w1, w2}
TwoDevices == {laptop, kiosk}
OneCompany == {acme}
TwoCodes == {monday, friday}
AllOfAcme == [k \in TwoCodes |-> acme]

TwiceAndOnce == [k \in TwoCodes |-> IF k = monday THEN 2 ELSE 1]

Symmetric == Permutations(TwoWorkers) \union Permutations(TwoDevices)
=============================================================================
