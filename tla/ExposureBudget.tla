--------------------------- MODULE ExposureBudget ---------------------------
(***************************************************************************)
(* The two accounts a call is held against: the irreversibility budget of  *)
(* its grant (src/src/revoco/reversal/budget.py) and the policy budget of  *)
(* its session (gate/session.py, gate/engine.py), as the control plane     *)
(* checks, debits and credits them (controlplane.py).                      *)
(*                                                                         *)
(* Both are checked while the call is authorized and debited when it is    *)
(* confirmed; no lock spans the two, nor the debits of one confirm, nor    *)
(* the credits of one undo, so each is an action.  Only ControlPlane.undo  *)
(* credits: undo_all and contain reverse through the engine alone.         *)
(***************************************************************************)
EXTENDS Reversibility, FiniteSetsExt

CONSTANTS
  Grants, Sessions,
  Actions,              \* the calls, confirmed or not, of all callers
  GrantOf, SessionOf,   \* the accounts of each call
  KindOf, RiskOf,       \* its resolved posture and its risk, 0 to 100
  ResidueOf,            \* whether the undo leaves named residue
  AmountOf,             \* what the policy rule's budget field says
  Ceiling,              \* of a grant, in hundredths of a weight times risk
  Limit,                \* of a session
  MaxInFlight,          \* bound on the calls in flight under one grant
  MaxConfirms           \* bound on confirms of one call

ASSUME AccountsAssumption ==
  /\ IsFiniteSet(Actions)
  /\ GrantOf \in [Actions -> Grants] /\ SessionOf \in [Actions -> Sessions]
  /\ KindOf \in [Actions -> Kinds] /\ RiskOf \in [Actions -> 0 .. 100]
  /\ ResidueOf \in [Actions -> BOOLEAN] /\ AmountOf \in [Actions -> Nat]
  /\ Ceiling \in Nat \ {0} /\ Limit \in Nat
  /\ MaxInFlight \in Nat \ {0} /\ MaxConfirms \in Nat

VARIABLES
  inFlight,   \* how many calls the callers of a grant keep in flight
  pc,         \* where the caller is with each call
  ruled,      \* calls whose decision is the rule that carries the budget
  total,      \* InMemorySessionStore._totals
  spent,      \* BudgetState.spent
  standing,   \* calls whose journal entry is COMMITTED
  undoing,    \* where ControlPlane.undo is with each call it reversed
  confirms,   \* history: how often each call was confirmed
  disturbed,  \* history: calls confirmed twice, undone while being
              \*   confirmed, or whose confirm or undo left the accounts alone
  lapsed,     \* history: how many of those confirms raised before a debit
  renewed     \* history: grants a human re-authorized

accounts == <<total, spent>>
history == <<confirms, disturbed, lapsed, renewed>>
vars == <<inFlight, pc, ruled, accounts, standing, undoing, history>>

Stages == {"idle", "gated", "allowed", "refused", "debiting", "charging", "confirmed"}

BTypeOK ==
  /\ inFlight \in [Grants -> 1 .. MaxInFlight]
  /\ pc \in [Actions -> Stages]
  /\ ruled \subseteq Actions
  /\ total \in [Sessions -> Nat]
  /\ spent \in [Grants -> Nat]
  /\ standing \subseteq Actions
  /\ undoing \in [Actions -> {"no", "releasing", "refunding"}]
  /\ confirms \in [Actions -> Nat] /\ lapsed \in [Actions -> Nat]
  /\ disturbed \subseteq Actions /\ renewed \subseteq Grants

Init ==
  /\ inFlight \in [Grants -> 1 .. MaxInFlight]
  /\ pc = [a \in Actions |-> "idle"]
  /\ ruled = {} /\ standing = {} /\ disturbed = {} /\ renewed = {}
  /\ total = [s \in Sessions |-> 0]
  /\ spent = [g \in Grants |-> 0]
  /\ undoing = [a \in Actions |-> "no"]
  /\ confirms = [a \in Actions |-> 0] /\ lapsed = [a \in Actions |-> 0]

-----------------------------------------------------------------------------
(* Pricing and the operations of an account.                               *)

Weight == [idempotent |-> 0, reversible |-> 0, compensable |-> 25,
           irreversible |-> 100, unknown |-> 100]

ResidueSurcharge == 15

MinRiskToCharge == 1

Price(kind, risk, residue) ==
  IF risk < MinRiskToCharge \/ Weight[kind] = 0 THEN 0
  ELSE (Weight[kind] + IF residue /\ kind = "compensable" THEN ResidueSurcharge ELSE 0)
       * risk

Cost(a) == Price(KindOf[a], RiskOf[a], ResidueOf[a])

\* Fault: the refusal looks at what is spent, not at what the call would add.
NotYetOver(balance, cost, limit) == balance <= limit

Fits(balance, cost, limit) == balance + cost <= limit

Credited(balance, cost) == IF balance > cost THEN balance - cost ELSE 0

-----------------------------------------------------------------------------
(* Authorization.                                                          *)

Passed(a) == pc[a] \in {"allowed", "debiting", "charging"}

InFlight(g) == {a \in Actions : GrantOf[a] = g /\ (Passed(a) \/ pc[a] = "gated")}

Start(a) ==
  /\ pc[a] = "idle"
  /\ Cardinality(InFlight(GrantOf[a])) < inFlight[GrantOf[a]]

\* PolicyEngine._rule_matches: the rule with the budget decides the call.
MatchBudgetRule(a) ==
  /\ Start(a)
  /\ Fits(total[SessionOf[a]], AmountOf[a], Limit)
  /\ pc' = [pc EXCEPT ![a] = "gated"]
  /\ ruled' = ruled \cup {a}
  /\ UNCHANGED <<inFlight, accounts, standing, undoing, history>>

\* Over the limit the rule stops matching: a later rule or the default denies
\* the call, or asks a human, who may let it through.
FallThrough(a, approved) ==
  /\ Start(a)
  /\ ~Fits(total[SessionOf[a]], AmountOf[a], Limit)
  /\ pc' = [pc EXCEPT ![a] = IF approved THEN "gated" ELSE "refused"]
  /\ UNCHANGED <<inFlight, ruled, accounts, standing, undoing, history>>

\* IrreversibilityBudget.check: nothing is debited.
CheckExposure(a) ==
  /\ pc[a] = "gated"
  /\ pc' = [pc EXCEPT ![a] =
              IF Cost(a) = 0 \/ Fits(spent[GrantOf[a]], Cost(a), Ceiling)
              THEN "allowed" ELSE "refused"]
  /\ UNCHANGED <<inFlight, ruled, accounts, standing, undoing, history>>

\* The authority chain or a detector refuses the call, or the call fails.
ComesToNothing(a) ==
  /\ pc[a] = "allowed"
  /\ pc' = [pc EXCEPT ![a] = "refused"]
  /\ UNCHANGED <<inFlight, ruled, accounts, standing, undoing, history>>

-----------------------------------------------------------------------------
(* ControlPlane.confirm: the journal, the session, the grant.  Nothing     *)
(* stops a caller from confirming a call again.                            *)

\* ReversalEngine.commit: the entry is COMMITTED before the ledger is written; a
\* ledger that cannot be written raises out of confirm, and nothing is debited.
ConfirmJournal(a, written) ==
  /\ pc[a] \in {"allowed", "confirmed"}
  /\ confirms[a] < MaxConfirms
  /\ pc' = [pc EXCEPT ![a] = IF written THEN "debiting" ELSE "confirmed"]
  /\ standing' = standing \cup {a}
  /\ confirms' = [confirms EXCEPT ![a] = @ + 1]
  /\ lapsed' = [lapsed EXCEPT ![a] = @ + IF written THEN 0 ELSE 1]
  /\ disturbed' = IF confirms[a] > 0 \/ ~written THEN disturbed \cup {a} ELSE disturbed
  /\ UNCHANGED <<inFlight, ruled, accounts, undoing, renewed>>

\* PolicyEngine.commit_budget
DebitSession(a) ==
  /\ pc[a] = "debiting"
  /\ pc' = [pc EXCEPT ![a] = "charging"]
  /\ total' = [total EXCEPT ![SessionOf[a]] = @ + IF a \in ruled THEN AmountOf[a] ELSE 0]
  /\ UNCHANGED <<inFlight, ruled, spent, standing, undoing, history>>

\* IrreversibilityBudget.commit
DebitExposure(a) ==
  /\ pc[a] = "charging"
  /\ pc' = [pc EXCEPT ![a] = "confirmed"]
  /\ spent' = [spent EXCEPT ![GrantOf[a]] = @ + Cost(a)]
  /\ UNCHANGED <<inFlight, ruled, total, standing, undoing, history>>

-----------------------------------------------------------------------------
(* Undo and re-authorization.                                              *)

Undoable(a) == a \in standing /\ IsUndoable(KindOf[a])

\* ControlPlane.undo, once ReversalEngine.reverse succeeded.
Undo(a) ==
  /\ Undoable(a)
  /\ undoing[a] = "no"
  /\ standing' = standing \ {a}
  /\ undoing' = [undoing EXCEPT ![a] = "releasing"]
  /\ disturbed' = IF pc[a] = "confirmed" THEN disturbed ELSE disturbed \cup {a}
  /\ UNCHANGED <<inFlight, pc, ruled, accounts, confirms, lapsed, renewed>>

\* PolicyEngine.release_budget
Release(a) ==
  /\ undoing[a] = "releasing"
  /\ undoing' = [undoing EXCEPT ![a] = "refunding"]
  /\ total' = [total EXCEPT ![SessionOf[a]] =
                 Credited(@, IF a \in ruled THEN AmountOf[a] ELSE 0)]
  /\ UNCHANGED <<inFlight, pc, ruled, spent, standing, history>>

\* Fault: the refund is priced without the residue surcharge.
RefundBare(a) ==
  /\ undoing[a] = "refunding"
  /\ undoing' = [undoing EXCEPT ![a] = "no"]
  /\ spent' = [spent EXCEPT ![GrantOf[a]] =
                 Credited(@, Price(KindOf[a], RiskOf[a], FALSE))]
  /\ UNCHANGED <<inFlight, pc, ruled, total, standing, history>>

\* IrreversibilityBudget.refund
Refund(a) ==
  /\ undoing[a] = "refunding"
  /\ undoing' = [undoing EXCEPT ![a] = "no"]
  /\ spent' = [spent EXCEPT ![GrantOf[a]] = Credited(@, Cost(a))]
  /\ UNCHANGED <<inFlight, pc, ruled, total, standing, history>>

\* The entry is reversed and both accounts are left alone: undo_all and contain
\* credit neither, and an undo whose receipt cannot be written to the ledger raises
\* out of ReversalEngine.reverse after the transition, before the credits.
CascadeUndo(a) ==
  /\ Undoable(a)
  /\ standing' = standing \ {a}
  /\ disturbed' = disturbed \cup {a}
  /\ UNCHANGED <<inFlight, pc, ruled, accounts, undoing, confirms, lapsed, renewed>>

\* IrreversibilityBudget.reset: a human re-authorizes the grant.
Reset(g) ==
  /\ spent' = [spent EXCEPT ![g] = 0]
  /\ renewed' = renewed \cup {g}
  /\ UNCHANGED <<inFlight, pc, ruled, total, standing, undoing, confirms, disturbed, lapsed>>

Next ==
  \/ \E a \in Actions :
       \/ MatchBudgetRule(a)
       \/ \E approved \in BOOLEAN : FallThrough(a, approved)
       \/ CheckExposure(a)
       \/ ComesToNothing(a)
       \/ \E written \in BOOLEAN : ConfirmJournal(a, written)
       \/ DebitSession(a)
       \/ DebitExposure(a)
       \/ Undo(a)
       \/ Release(a)
       \/ Refund(a)
       \/ CascadeUndo(a)
  \/ \E g \in Grants : Reset(g)

Spec == Init /\ [][Next]_vars

-----------------------------------------------------------------------------
(* Properties.                                                             *)

TotalOf(f, S) == MapThenSumSet(LAMBDA x : f[x], S)

CostOf == [a \in Actions |-> Cost(a)]

CallsOf(g) == {a \in Actions : GrantOf[a] = g}

CallsIn(s) == {a \in Actions : SessionOf[a] = s}

\* What the confirms that raised have not debited.
Undebited == [a \in Actions |-> lapsed[a] * IF a \in ruled THEN AmountOf[a] ELSE 0]
Uncharged == [a \in Actions |-> lapsed[a] * Cost(a)]

\* The confirms of a grant's calls after the first of each.
Confirms == Actions \X (2 .. MaxConfirms)
Repeated(g) == {x \in Confirms : x[1] \in CallsOf(g) /\ confirms[x[1]] >= x[2]}
CostOfConfirm == [x \in Confirms |-> Cost(x[1])]

\* A caller that keeps one call in flight and confirms it once.
Serial(g) == inFlight[g] = 1 /\ \A a \in CallsOf(g) : confirms[a] <= 1

\* No confirm and no undo of these calls is under way.
Settled(S) ==
  \A a \in S : pc[a] \notin {"debiting", "charging"} /\ undoing[a] = "no"

\* A grant whose callers work one call at a time is never overdrawn, whatever
\* undos, cascades and re-authorizations interleave with them
\* (IrreversibilityBudget.check against commit, refund and reset).
SerialWithinCeiling == \A g \in Grants : Serial(g) => spent[g] <= Ceiling

\* Checking at authorize and debiting at confirm overdraws a grant by no more
\* than one maximal charge for each further call in flight, and one charge for
\* each repeated confirm.
OvershootBounded ==
  \A g \in Grants :
    spent[g] + TotalOf(CostOf, {a \in CallsOf(g) : Passed(a) /\ confirms[a] <= 1}) <=
      Ceiling + (inFlight[g] - 1) * Max({0} \cup {Cost(a) : a \in CallsOf(g)})
              + TotalOf(CostOfConfirm, Repeated(g))

\* Credits never free headroom that standing effects still occupy: with no
\* confirm or undo under way, what stands exceeds each account by no more than
\* one charge for each confirm that a ledger failure cut short of its debits,
\* unless a human renewed the grant in between.
BooksCoverStanding ==
  /\ \A s \in Sessions :
       Settled(CallsIn(s)) =>
         TotalOf(AmountOf, CallsIn(s) \cap standing \cap ruled)
           <= total[s] + TotalOf(Undebited, CallsIn(s))
  /\ \A g \in Grants \ renewed :
       Settled(CallsOf(g)) =>
         TotalOf(CostOf, CallsOf(g) \cap standing) <= spent[g] + TotalOf(Uncharged, CallsOf(g))

\* A caller that undoes what it did through ControlPlane.undo gets all of its
\* headroom back: where no confirm was repeated, no undo raced a confirm, no ledger
\* failure cut one short, and no cascade or renewal intervened, an account is
\* exactly its standing effects.
RepairReturnsHeadroom ==
  /\ \A s \in Sessions :
       Settled(CallsIn(s)) /\ CallsIn(s) \cap disturbed = {} =>
         total[s] = TotalOf(AmountOf, CallsIn(s) \cap standing \cap ruled)
  /\ \A g \in Grants \ renewed :
       Settled(CallsOf(g)) /\ CallsOf(g) \cap disturbed = {} =>
         spent[g] = TotalOf(CostOf, CallsOf(g) \cap standing)

\* The types and the books in both directions together.
BooksBalance == BTypeOK /\ BooksCoverStanding /\ RepairReturnsHeadroom

\* The inductive strengthening for SerialWithinCeiling: a serial caller's call
\* that passed the check fits what is spent now.
SerialInv ==
  /\ BTypeOK
  /\ \A g \in Grants : Serial(g) =>
       /\ spent[g] <= Ceiling
       /\ \A a, b \in InFlight(g) : a = b
       /\ \A a \in CallsOf(g) : Passed(a) => spent[g] + Cost(a) <= Ceiling
  /\ \A a \in Actions : pc[a] \in {"debiting", "charging", "confirmed"} => confirms[a] > 0
=============================================================================
