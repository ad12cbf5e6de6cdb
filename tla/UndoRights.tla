----------------------------- MODULE UndoRights -----------------------------
(***************************************************************************)
(* What the reversal engine promises whoever relies on an undo: a right    *)
(* that a commit grants, that attempts keep, and that is gone once it is   *)
(* used or lost, until it is granted anew.  No step of an inverse takes    *)
(* effect without the right; using it up means that the whole plan took    *)
(* effect, and an attempt that leaves it means that some of it did not.    *)
(* Which calls bring a right to its end, and when, is ReversalJournal's    *)
(* matter.                                                                 *)
(***************************************************************************)
EXTENDS Naturals

CONSTANTS Entries, Steps

VARIABLES
  standing,  \* of the right to undo each entry
  plan,      \* the steps that undo it
  effects,   \* how often each step took effect
  uses       \* how often the right was used

rvars == <<standing, plan, effects, uses>>

RInit ==
  /\ standing = [e \in Entries |-> "none"]
  /\ plan \in [Entries -> SUBSET Steps]
  /\ effects = [e \in Entries |-> [i \in Steps |-> 0]]
  /\ uses = [e \in Entries |-> 0]

Grant(e) ==
  /\ standing' = [standing EXCEPT ![e] = "open"]
  /\ UNCHANGED <<plan, effects, uses>>

Lose(es) ==
  /\ standing' = [e \in Entries |-> IF e \in es THEN "lost" ELSE standing[e]]
  /\ UNCHANGED <<plan, effects, uses>>

TakeEffect(e, done) ==
  effects' = [effects EXCEPT ![e] = [i \in Steps |-> IF i \in done THEN @[i] + 1 ELSE @[i]]]

Attempt(e, done) ==
  /\ standing[e] = "open"
  /\ done \subseteq plan[e] /\ done # plan[e]
  /\ TakeEffect(e, done)
  /\ UNCHANGED <<standing, plan, uses>>

Use(e) ==
  /\ standing[e] = "open"
  /\ TakeEffect(e, plan[e])
  /\ standing' = [standing EXCEPT ![e] = "used"]
  /\ uses' = [uses EXCEPT ![e] = @ + 1]
  /\ UNCHANGED plan

RNext ==
  \/ \E e \in Entries :
       \/ Grant(e)
       \/ Use(e)
       \/ \E done \in SUBSET Steps : Attempt(e, done)
  \/ \E es \in SUBSET Entries : Lose(es)

RSpec == RInit /\ [][RNext]_rvars
=============================================================================
