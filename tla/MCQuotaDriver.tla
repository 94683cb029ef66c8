---------------------------- MODULE MCQuotaDriver ----------------------------
(* Small instances of QuotaDriver for TLC.                                 *)
EXTENDS QuotaDriver
=============================================================================
