------------------------------- MODULE UsageLog -------------------------------
(***************************************************************************)
(* What the capacity probe promises of its own bookkeeping: a log of       *)
(* readings of a counter. A reading that was logged stays, and as long as  *)
(* the counter is the same one, each reading lies between the reading      *)
(* before it and what has been counted by then.                            *)
(***************************************************************************)
EXTENDS Integers, Sequences

VARIABLES
  used,      (* what the counter shows                                   *)
  readings,  (* the log, first entry the baseline                        *)
  same       (* the counter is still the one the baseline was read from  *)

Init == used \in Nat /\ readings = << >> /\ same = TRUE

Count == used' \in Nat /\ used' >= used /\ UNCHANGED <<readings, same>>

\* The counter starts again.
Restart ==
  /\ used' = 0
  /\ same' = FALSE \/ (readings = << >> /\ UNCHANGED same)
  /\ UNCHANGED readings

\* One more reading; what was logged before stays.
Read ==
  LET n == Len(readings)
  IN /\ readings' \in Seq(Nat)
     /\ Len(readings') = n + 1
     /\ SubSeq(readings', 1, n) = readings
     /\ same => /\ readings'[n + 1] <= used
                /\ n > 0 => readings[n] <= readings'[n + 1]
     /\ UNCHANGED <<used, same>>

Next == Count \/ Restart \/ Read

LogSpec == Init /\ [][Next]_<<used, readings, same>>
=============================================================================
