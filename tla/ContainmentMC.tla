--------------------------- MODULE ContainmentMC ---------------------------
(* Small instances of Containment for TLC.                                 *)
EXTENDS Containment, TLC

CONSTANTS write, open, root, child, a1, a2, r1, r2

Single(gates, window) ==
  [kind |-> "reversible", degraded |-> "reversible",
   steps |-> << [critical |-> TRUE, snapshot |-> FALSE, result |-> FALSE, prior |-> {}] >>,
   window |-> window, authorizeGates |-> {}, undoGates |-> gates]

\* One-step inverses: behind a gate and inside a window.
Guarded == write :> Single({open}, 2)

Tree == root :> root @@ child :> root
=============================================================================
