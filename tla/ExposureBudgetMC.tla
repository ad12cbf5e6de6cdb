-------------------------- MODULE ExposureBudgetMC --------------------------
(* Small instances of ExposureBudget for TLC.                              *)
EXTENDS ExposureBudget, TLC

CONSTANTS grant, session, wire, payment, refund

\* A wire cannot be undone; a payment and a refund are voided with residue.
OneGrant == [a \in Actions |-> grant]
OneSession == [a \in Actions |-> session]
Kind == [a \in Actions |-> IF a = wire THEN "irreversible" ELSE "compensable"]
Risk == [a \in Actions |-> 100]
Residue == [a \in Actions |-> a # wire]
Amount == [a \in Actions |-> 1]

\* The payment and the refund have the same accounts, price and amount.
Interchangeable == Permutations({payment, refund})
=============================================================================
