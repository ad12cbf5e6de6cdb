--------------------------- MODULE Reversibility ---------------------------
(***************************************************************************)
(* The reversal posture of a tool and the inverse specification an         *)
(* integrator registers for it: src/src/revoco/reversal/model.py.          *)
(*                                                                         *)
(* A specification is kept as far as the engine's control flow looks at    *)
(* it: which steps are critical, where the arguments of a step come from,  *)
(* the undo window and the gates.  Names, static arguments and residue     *)
(* text are left out.                                                      *)
(***************************************************************************)
EXTENDS Naturals, Sequences

Kinds == {"unknown", "irreversible", "compensable", "reversible", "idempotent"}

Rank == [unknown |-> 0, irreversible |-> 1, compensable |-> 2,
         reversible |-> 3, idempotent |-> 4]

IsUndoable(kind) == kind \in {"reversible", "compensable"}

IsOneWay(kind) == kind \in {"irreversible", "unknown"}

\* What Reversibility.rank lets a degradation or a classify hook answer.
NoBetterThan(kind) == {k \in Kinds : Rank[k] <= Rank[kind]}

-----------------------------------------------------------------------------
(* Inverse specifications.                                                 *)

\* A step reads its arguments from the snapshot taken before the forward
\* action, from the forward call's result, or from earlier steps' results.
Steps == [critical : BOOLEAN, snapshot : BOOLEAN, result : BOOLEAN,
          prior : SUBSET Nat]

\* window = 0 stands for window_seconds = None.
InverseSpecs(Gates) ==
  [kind : Kinds, degraded : Kinds, steps : Seq(Steps), window : Nat,
   authorizeGates : SUBSET Gates, undoGates : SUBSET Gates]

\* InverseSpec.__post_init__: the specifications the registry can hold.
WellFormedSpec(spec) ==
  /\ IsUndoable(spec.kind) <=> spec.steps # <<>>
  /\ ~IsUndoable(spec.kind) => spec.degraded = spec.kind
  /\ spec.degraded \in NoBetterThan(spec.kind)
  /\ spec.authorizeGates # {} => IsUndoable(spec.kind)
  /\ \A i \in DOMAIN spec.steps : spec.steps[i].prior \subseteq 1 .. (i - 1)

\* An argument of an inverse step, named by the step and its source.
ArgsFrom(steps, source) ==
  {<<i, source>> : i \in {j \in DOMAIN steps :
                            CASE source = "snapshot" -> steps[j].snapshot
                              [] source = "result"   -> steps[j].result}}

ArgsOf(steps) == ArgsFrom(steps, "snapshot") \cup ArgsFrom(steps, "result")
=============================================================================
