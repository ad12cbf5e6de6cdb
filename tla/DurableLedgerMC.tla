-------------------------- MODULE DurableLedgerMC --------------------------
(* Small instances of DurableLedger for TLC.                               *)
EXTENDS EvidencePack, TLC

CONSTANTS t1, t2, t3, p1, p2, j1

SharedFile == t1 :> p1 @@ t2 :> p1 @@ t3 :> p2
=============================================================================
