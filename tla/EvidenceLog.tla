---------------------------- MODULE EvidenceLog ----------------------------
(***************************************************************************)
(* What the ledger promises whoever reads the evidence later, whatever     *)
(* threads, processes and crashes produced it: a log that only grows, one  *)
(* linked entry at a time, and holds every entry whose append returned.    *)
(***************************************************************************)
EXTENDS Integers, Sequences

VARIABLES log, acknowledged

Linked(n) ==
  /\ log[n].seq = n
  /\ log[n].prev = IF n = 1 THEN 0 ELSE log[n - 1].hash

EInit == log = <<>> /\ acknowledged = {}

\* One entry is added at the end, linked to the one that was last.
Record ==
  /\ Len(log') = Len(log) + 1
  /\ \A n \in 1 .. Len(log) : log'[n] = log[n]
  /\ Linked(Len(log))'
  /\ UNCHANGED acknowledged

\* An append returns only after its entry is in the log.
Acknowledge ==
  /\ \A h \in acknowledged' : h \in acknowledged \/ \E n \in 1 .. Len(log) : log[n].hash = h
  /\ acknowledged \subseteq acknowledged'
  /\ UNCHANGED log

ESpec == EInit /\ [][Record \/ Acknowledge]_<<log, acknowledged>>
=============================================================================
