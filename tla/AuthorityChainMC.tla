-------------------------- MODULE AuthorityChainMC --------------------------
(* A small instance of AuthorityChain for TLC.                             *)
EXTENDS AuthorityChain, TLC

CONSTANTS pay, look, amount

Scope(tools, actions, risk, floor, cap) ==
  [tools |-> tools, actions |-> actions, risk |-> risk, floor |-> floor,
   caps |-> [k \in Keys |-> cap]]

\* Everything; what can be undone, up to a cap; reversible payments without a word
\* on amounts.
SomeScopes ==
  { Scope({Wildcard}, {Wildcard}, 2, "unknown", Absent),
    Scope({pay, look}, {Wildcard}, 2, "compensable", 1),
    Scope({pay}, {"write"}, 1, "reversible", Absent) }

Call(tool, risk, kind, arg) ==
  [tool |-> tool, action |-> "write", risk |-> risk, kind |-> kind,
   args |-> [k \in Keys |-> arg]]

\* A payment over the cap, one that cannot be undone, and a look that is riskier.
SomeCalls ==
  { Call(pay, 1, "reversible", 2), Call(pay, 1, "irreversible", 1),
    Call(look, 2, "compensable", NaN) }

Renamed == Permutations(Agents)
=============================================================================
