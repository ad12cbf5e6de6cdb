-------------------------- MODULE DrillRegisterMC --------------------------
(* Small instances of DrillRegister for TLC.                               *)
EXTENDS ValidationRuns

CONSTANTS pay, grant, cron, ops, status, owner, prod, test

Good == [undoable |-> TRUE, reads |-> 3, forward |-> TRUE, moved |-> {status},
         undo |-> "ran", wrong |-> {}]

\* The inverse changes another field; its gate is closed; the canary's call has no
\* effect; its call has no undo path.
Collateral == [Good EXCEPT !.wrong = {owner}]
Gated == [Good EXCEPT !.undo = "refused"]
NoOp == [Good EXCEPT !.moved = {}]
ReadOnly == [Good EXCEPT !.undoable = FALSE]

Surroundings ==
  [t \in Tools |-> IF t = pay THEN {Good, Collateral, Gated}
                  ELSE {Good, Collateral, NoOp, ReadOnly}]

\* What the proof of ProofsStayFresh assumes holds of this instance, with no tick to
\* spare: with StaleAfter one less TLC finds a proof that lapses.
ASSUME InstanceHasRoom ==
  ScheduleHasRoom /\ Early + Period + 2 * Cardinality(Tools) = StaleAfter + 1
=============================================================================
