------------------------- MODULE AuthorizePipelineMC -------------------------
(* A small instance of AuthorizePipeline for TLC.                          *)
EXTENDS AuthorizePipeline, TLC

CONSTANTS a, b, grant

Request(actor, kind, plan, risk, chain, flawed, broken) ==
  [actor |-> actor, grant |-> grant, kind |-> kind, plan |-> plan, risk |-> risk,
   chain |-> chain, flawed |-> flawed, broken |-> broken]

\* A harmless call; a risky one that is one-way although it was classified as
\* reversible; another actor's one-way call beyond its authority.
SomeRequests ==
  { Request(a, "reversible", "reversible", 0, TRUE, FALSE, FALSE),
    Request(a, "reversible", "irreversible", 2, TRUE, FALSE, FALSE),
    Request(b, "irreversible", "irreversible", 1, FALSE, TRUE, TRUE) }

Identical == Permutations(Calls)
=============================================================================
