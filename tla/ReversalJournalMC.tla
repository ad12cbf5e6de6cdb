------------------------- MODULE ReversalJournalMC -------------------------
(* One entry of each shape of specification that ships, and of shapes an   *)
(* integrator may register.                                                *)
EXTENDS RecoveryHorizon, Catalogues, TLC

CONSTANTS post, write, upload, lookup, command, period, versioned

Step(critical, snapshot, result, prior) ==
  [critical |-> critical, snapshot |-> snapshot, result |-> result, prior |-> prior]

\* post: a sequenced undo behind an undo gate, inside a window; the void is
\*   critical, the reset needs the void's result, the notification is neither.
\* write: one step that restores a snapshot.
\* upload: undoable only if the target is versioned, else compensable.
\* lookup: a tool with no undo path.
\* command: its specification is derived; the second step reads the first one's result.
Written ==
  (post :> [kind |-> "compensable", degraded |-> "irreversible",
            steps |-> << Step(FALSE, FALSE, FALSE, {}),
                         Step(TRUE, FALSE, TRUE, {}),
                         Step(TRUE, FALSE, FALSE, {1}) >>,
            window |-> 2, authorizeGates |-> {}, undoGates |-> {period}])
  @@ (write :> [kind |-> "reversible", degraded |-> "irreversible",
                steps |-> << Step(TRUE, TRUE, FALSE, {}) >>,
                window |-> 1, authorizeGates |-> {}, undoGates |-> {}])
  @@ (upload :> [kind |-> "reversible", degraded |-> "compensable",
                 steps |-> << Step(TRUE, FALSE, TRUE, {}), Step(FALSE, TRUE, FALSE, {}) >>,
                 window |-> 0, authorizeGates |-> {versioned},
                 undoGates |-> {versioned}])
  @@ (lookup :> [kind |-> "irreversible", degraded |-> "irreversible", steps |-> <<>>,
                 window |-> 1, authorizeGates |-> {}, undoGates |-> {}])
  @@ (command :> [kind |-> "reversible", degraded |-> "irreversible",
                  steps |-> << Step(FALSE, TRUE, FALSE, {}), Step(TRUE, FALSE, TRUE, {1}) >>,
                  window |-> 0, authorizeGates |-> {}, undoGates |-> {}])

\* The shipped specifications, as far as they differ: their windows become one of two ticks
\* and their gates one for each phase.
Shape(spec) ==
  [kind |-> spec.kind, degraded |-> spec.degraded, steps |-> spec.steps,
   window |-> IF spec.window = 0 THEN 0 ELSE 2,
   authorizeGates |-> IF spec.authorizeGates = {} THEN {} ELSE {versioned},
   undoGates |-> IF spec.undoGates = {} THEN {} ELSE {period}]

\* One of each shape.
OneOfEach(specs) ==
  {CHOOSE s \in specs : <<Shape(s), Capturing(s)>> = shape :
     shape \in {<<Shape(s), Capturing(s)>> : s \in specs}}

Examples == OneOfEach(Shipped)

TableOf(written, examples) ==
  [t \in DOMAIN written \cup {s.tool : s \in examples} |->
     IF t \in DOMAIN written THEN written[t]
     ELSE Shape(CHOOSE s \in examples : s.tool = t)]

SpecTable == TableOf(Written, Examples)

AllTools == {post, write, upload, lookup, command} \cup {s.tool : s \in Examples}

HeldByRegistry == AllTools \ {command}

CapturingTools ==
  {post, write, upload, command} \cup {s.tool : s \in {x \in Examples : Capturing(x)}}
=============================================================================
