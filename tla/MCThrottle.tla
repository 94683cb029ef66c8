----------------------------- MODULE MCThrottle -----------------------------
(* Small instances of Throttle for TLC.                                    *)
EXTENDS Throttle, TLC

Interchangeable == Permutations(Callers) \cup Permutations(Categories)
=============================================================================
