----------------------------- MODULE MCQuotaRun -----------------------------
(* Small instances of QuotaRun for TLC.                                    *)
EXTENDS QuotaRun
=============================================================================
