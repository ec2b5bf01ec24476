---------------------------- MODULE MCAuditQueries ----------------------------
(* A small instance of AuditQueries for TLC. *)
EXTENDS AuditQueries, TLC

CONSTANTS laptop, desktop, acme, beta

TwoDevices == {laptop, desktop}TwoCompanies == {acme, beta}
LaptopLinked == {<<acme, laptop>>, <<beta, laptop>>}
ExportOnly == {"export-json"}
LaptopOrAny == {laptop, AnyDevice}
OneWindow == {<<1, 2>>}
LimitOne == {1}
=============================================================================
