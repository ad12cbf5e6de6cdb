-------------------------- MODULE OnChainFinality --------------------------
(***************************************************************************)
(* On-chain actions, whose posture changes with time: src/recoup/recoup/   *)
(* finality.py.  An action is drafted, signed, broadcast and buried under  *)
(* confirmations, which a reorganisation may take back; posture, deadline  *)
(* and holdback are read off it at any moment.                             *)
(***************************************************************************)
EXTENDS Integers

\* The chains: block time in tenths of a second, depth of finality, and whether a
\* pending transaction can be replaced.
Chain(block, depth, replaceable) == [block |-> block, depth |-> depth, replaceable |-> replaceable]

Chains ==
  [bitcoin |-> Chain(6000, 6, TRUE), ethereum |-> Chain(120, 64, TRUE),
   solana |-> Chain(4, 32, FALSE), base |-> Chain(20, 64, TRUE), polygon |-> Chain(20, 128, TRUE)]

KnownChains == DOMAIN Chains
Deepest == 128

\* confirmations is -1 before the broadcast.
OnChainActions ==
  {a \in [chain : KnownChains \cup {"unknown"}, confirmations : -1 .. Deepest + 1, signed : BOOLEAN,
          large : BOOLEAN] :
     a.confirmations >= 0 => a.signed}

Depth(a) == IF a.chain \in KnownChains THEN Chains[a.chain].depth ELSE 64

\* OnChainAction.state
StateOf(a) ==
  CASE a.confirmations < 0 /\ ~a.signed -> "draft"
    [] a.confirmations < 0 /\ a.signed -> "pending"
    [] a.confirmations = 0 -> "pending"
    [] a.confirmations \in 1 .. Depth(a) - 1 -> "confirming"
    [] a.confirmations >= Depth(a) -> "final"

Replaceable(a) == a.chain \in KnownChains /\ Chains[a.chain].replaceable

\* reversibility
PostureOf(a) ==
  CASE StateOf(a) = "draft" -> "reversible"
    [] StateOf(a) = "pending" -> IF Replaceable(a) THEN "compensable" ELSE "irreversible"
    [] StateOf(a) = "confirming" -> "compensable"
    [] StateOf(a) = "final" -> "irreversible"

NoTime == -1

\* time_to_irreversibility
TimeLeft(a) ==
  CASE a.chain \notin KnownChains \/ StateOf(a) = "final" -> NoTime
    [] a.chain \in KnownChains /\ StateOf(a) \in {"draft", "pending"} ->
         Chains[a.chain].block * Chains[a.chain].depth
    [] a.chain \in KnownChains /\ StateOf(a) = "confirming" ->
         Chains[a.chain].block * (Chains[a.chain].depth - a.confirmations)

\* holdback_for; large is a value at or above the threshold.
Holdback(a) ==
  IF StateOf(a) # "draft" THEN [hold |-> FALSE, stoppable |-> PostureOf(a) # "irreversible"]
  ELSE [hold |-> a.large, stoppable |-> TRUE]

\* Signing, the broadcast and one more block; or a reorganisation, which takes blocks
\* back and never the broadcast.
Forward(a) ==
  IF ~a.signed THEN {[a EXCEPT !.signed = TRUE]}
  ELSE {[a EXCEPT !.confirmations = @ + 1]} \cap OnChainActions

Reorganised(a) == {[a EXCEPT !.confirmations = n] : n \in 0 .. a.confirmations - 1}

-----------------------------------------------------------------------------
(* Properties.                                                             *)

Remedies == [reversible |-> 2, compensable |-> 1, irreversible |-> 0]

\* On a known chain an action has time left exactly as long as something can be done
\* about it, but for one that is pending and cannot be replaced: it is irreversible, and
\* time_to_irreversibility still gives it the time to the final block.  A deadline only
\* comes nearer; a posture only falls, except where an action that could not be replaced
\* while it was pending begins to confirm.  Only
\* a draft is held back, so that a veto still stops it, and neither a block nor a
\* reorganisation makes a broadcast action one to be held; and what cannot be stopped
\* has no remedy.
FinalityIsHonest ==
  \A a \in OnChainActions :
    /\ a.chain \in KnownChains =>
         (TimeLeft(a) > 0 <=> \/ PostureOf(a) # "irreversible"
                              \/ StateOf(a) = "pending" /\ ~Replaceable(a))
    /\ Holdback(a).hold => PostureOf(a) = "reversible" /\ Holdback(a).stoppable
    /\ Holdback(a).stoppable <=> Remedies[PostureOf(a)] > 0
    /\ StateOf(a) = "pending" /\ ~Replaceable(a) => ~Holdback(a).stoppable
    /\ \A b \in Forward(a) :
         /\ TimeLeft(b) <= TimeLeft(a)
         /\ Remedies[PostureOf(b)] <= Remedies[PostureOf(a)]
              \/ (StateOf(a) = "pending" /\ StateOf(b) = "confirming" /\ ~Replaceable(a))
         /\ Holdback(b).hold => Holdback(a).hold
    /\ \A b \in Reorganised(a) : ~Holdback(b).hold /\ TimeLeft(b) >= TimeLeft(a)
=============================================================================
