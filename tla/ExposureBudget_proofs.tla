------------------------ MODULE ExposureBudget_proofs ------------------------
(***************************************************************************)
(* Proofs about ExposureBudget: the accounts stay typed, a caller that     *)
(* works one call at a time never overdraws its grant, several callers     *)
(* overdraw it by no more than their number allows, and the books cover    *)
(* what stands.                                                            *)
(*                                                                         *)
(* None of these is inductive alone.  Between a check and its debit the    *)
(* invariant says what has passed and still fits; between a confirm and    *)
(* its debits, or an undo and its credits, it says what each call owes.    *)
(* Sums over a grant's calls are a recursion over a finite set: they are   *)
(* taken apart here by induction on the size of the set.                   *)
(***************************************************************************)
EXTENDS ExposureBudget, FiniteSetTheorems, WellFoundedInduction, TLAPS

\* A price is a natural number.
LEMMA CostType ==
  ASSUME NEW a \in Actions
  PROVE  Cost(a) \in Nat
<1>1. /\ KindOf[a] \in Kinds
      /\ RiskOf[a] \in 0 .. 100
  BY AccountsAssumption
<1>2. Weight[KindOf[a]] \in Nat
  BY <1>1 DEF Weight, Kinds
<1>3. \A w, r \in Nat : w * r \in Nat
  BY SMT
<1> QED
  BY <1>1, <1>2, <1>3 DEF Cost, Price, ResidueSurcharge, MinRiskToCharge

\* A credit leaves an account that is no fuller and not below zero.
LEMMA CreditedType ==
  ASSUME NEW b \in Nat, NEW c \in Nat
  PROVE  Credited(b, c) \in Nat /\ Credited(b, c) <= b
BY DEF Credited

\* Every account, stage and history variable keeps its type.
LEMMA TypeStep ==
  ASSUME BTypeOK, [Next]_vars
  PROVE  BTypeOK'
<1> USE AccountsAssumption
<1>1. ASSUME NEW a \in Actions,
             \/ MatchBudgetRule(a)
             \/ \E approved \in BOOLEAN : FallThrough(a, approved)
             \/ CheckExposure(a)
             \/ ComesToNothing(a)
      PROVE  BTypeOK'
  BY <1>1 DEF BTypeOK, Stages, MatchBudgetRule, FallThrough, CheckExposure,
              ComesToNothing, accounts, history
<1>2. ASSUME NEW a \in Actions, NEW written \in BOOLEAN, ConfirmJournal(a, written)
      PROVE  BTypeOK'
  BY <1>2 DEF BTypeOK, Stages, ConfirmJournal, accounts
<1>3. ASSUME NEW a \in Actions, DebitSession(a)
      PROVE  BTypeOK'
  BY <1>3 DEF BTypeOK, Stages, DebitSession, history
<1>4. ASSUME NEW a \in Actions, DebitExposure(a)
      PROVE  BTypeOK'
  BY <1>4, CostType DEF BTypeOK, Stages, DebitExposure, history
<1>5. ASSUME NEW a \in Actions, Undo(a) \/ CascadeUndo(a)
      PROVE  BTypeOK'
  BY <1>5 DEF BTypeOK, Undo, CascadeUndo, accounts
<1>6. ASSUME NEW a \in Actions, Release(a)
      PROVE  BTypeOK'
  BY <1>6, CreditedType DEF BTypeOK, Release, history
<1>7. ASSUME NEW a \in Actions, Refund(a)
      PROVE  BTypeOK'
  BY <1>7, CreditedType, CostType DEF BTypeOK, Refund, history
<1>8. ASSUME NEW g \in Grants, Reset(g)
      PROVE  BTypeOK'
  BY <1>8 DEF BTypeOK, Reset
<1>9. CASE UNCHANGED vars
  BY <1>9 DEF BTypeOK, vars, accounts, history
<1> QED
  BY <1>1, <1>2, <1>3, <1>4, <1>5, <1>6, <1>7, <1>8, <1>9 DEF Next

-----------------------------------------------------------------------------

\* What SerialInv says of one grant.
GrantInv(g) ==
  Serial(g) =>
    /\ spent[g] <= Ceiling
    /\ \A a, b \in InFlight(g) : a = b
    /\ \A a \in CallsOf(g) : Passed(a) => spent[g] + Cost(a) <= Ceiling

\* A confirmed call was confirmed.
ConfirmedOnce(a) == pc[a] = "confirmed" => confirms[a] > 0

\* A grant whose callers are serial was serial before: a call is never
\* confirmed fewer times than before.
LEMMA SerialBefore ==
  ASSUME BTypeOK, [Next]_vars, NEW g \in Grants, Serial(g)'
  PROVE  Serial(g)
<1>1. inFlight' = inFlight
  BY DEF Next, vars, MatchBudgetRule, FallThrough, CheckExposure, ComesToNothing,
         ConfirmJournal, DebitSession, DebitExposure, Undo, Release, Refund,
         CascadeUndo, Reset
<1>2. \A a \in Actions : confirms[a] <= confirms'[a]
  <2>1. CASE \E a \in Actions, written \in BOOLEAN : ConfirmJournal(a, written)
    BY <2>1 DEF ConfirmJournal, BTypeOK
  <2>2. CASE ~\E a \in Actions, written \in BOOLEAN : ConfirmJournal(a, written)
    <3>1. confirms' = confirms
      BY <2>2 DEF Next, vars, history, MatchBudgetRule, FallThrough, CheckExposure,
             ComesToNothing, DebitSession, DebitExposure, Undo, Release, Refund,
             CascadeUndo, Reset
    <3> QED
      BY <3>1 DEF BTypeOK
  <2> QED
    BY <2>1, <2>2
<1>3. \A a \in Actions : confirms[a] \in Nat /\ confirms'[a] \in Nat
  BY TypeStep DEF BTypeOK
<1> QED
  BY <1>1, <1>2, <1>3 DEF Serial, CallsOf

\* A call starts under a serial grant only when no other is in flight there.
LEMMA StartsAlone ==
  ASSUME BTypeOK, NEW a \in Actions, Start(a), Serial(GrantOf[a])
  PROVE  InFlight(GrantOf[a]) = {}
<1>1. IsFiniteSet(InFlight(GrantOf[a]))
  BY FS_Subset, AccountsAssumption DEF InFlight
<1>2. Cardinality(InFlight(GrantOf[a])) \in Nat
  BY <1>1, FS_CardinalityType
<1>3. Cardinality(InFlight(GrantOf[a])) = 0
  BY <1>2 DEF Start, Serial
<1> QED
  BY <1>1, <1>3, FS_EmptySet

\* Each step keeps what the invariant says of each grant.
LEMMA GrantStep ==
  ASSUME BTypeOK, NEW g \in Grants, GrantInv(g),
         \A a \in Actions : ConfirmedOnce(a), [Next]_vars
  PROVE  GrantInv(g)'
<1> SUFFICES ASSUME Serial(g)'
             PROVE  /\ spent'[g] <= Ceiling
                    /\ \A a, b \in InFlight(g)' : a = b
                    /\ \A a \in CallsOf(g) : Passed(a)' => spent'[g] + Cost(a) <= Ceiling
  BY DEF GrantInv, CallsOf, Cost, Price
<1> USE AccountsAssumption
<1>1. Serial(g)
  BY SerialBefore
<1>2. /\ spent[g] <= Ceiling
      /\ \A a, b \in InFlight(g) : a = b
      /\ \A a \in CallsOf(g) : Passed(a) => spent[g] + Cost(a) <= Ceiling
  BY <1>1 DEF GrantInv
<1>3. \A a \in Actions : Cost(a) \in Nat
  BY CostType
<1>4. spent[g] \in Nat /\ spent'[g] \in Nat
  BY TypeStep DEF BTypeOK
<1>5. ASSUME NEW a \in Actions,
             MatchBudgetRule(a) \/ \E approved \in BOOLEAN : FallThrough(a, approved)
      PROVE  /\ spent' = spent
             /\ \A b, c \in InFlight(g)' : b = c
             /\ \A b \in Actions : Passed(b)' => Passed(b)
  <2>1. /\ spent' = spent
        /\ Start(a)
        /\ pc' = [pc EXCEPT ![a] = "gated"] \/ pc' = [pc EXCEPT ![a] = "refused"]
    BY <1>5 DEF MatchBudgetRule, FallThrough, accounts
  <2>2. pc \in [Actions -> Stages]
    BY DEF BTypeOK
  <2>3. CASE GrantOf[a] = g
    <3>1. InFlight(g) = {}
      BY <2>1, <2>3, <1>1, StartsAlone
    <3> QED
      BY <2>1, <2>2, <3>1 DEF InFlight, Passed
  <2>4. CASE GrantOf[a] # g
    BY <2>1, <2>2, <2>4, <1>2 DEF InFlight, Passed
  <2> QED
    BY <2>1, <2>2, <2>3, <2>4 DEF Passed
<1>6. ASSUME NEW a \in Actions, CheckExposure(a)
      PROVE  /\ spent' = spent
             /\ InFlight(g)' \subseteq InFlight(g)
             /\ \A b \in CallsOf(g) : Passed(b)' =>
                  Passed(b) \/ spent[g] + Cost(b) <= Ceiling
  <2>1. \A b \in Actions \ {a} : pc'[b] = pc[b]
    BY <1>6 DEF CheckExposure, BTypeOK
  <2>2. /\ pc[a] = "gated"
        /\ pc'[a] \in {"allowed", "refused"}
        /\ pc'[a] = "allowed" => Cost(a) = 0 \/ Fits(spent[GrantOf[a]], Cost(a), Ceiling)
        /\ spent' = spent
    BY <1>6 DEF CheckExposure, BTypeOK, accounts
  <2>3. \A b \in CallsOf(g) : Passed(b)' => Passed(b) \/ spent[g] + Cost(b) <= Ceiling
    BY <2>1, <2>2, <1>2, <1>3, <1>4 DEF Passed, Fits, CallsOf
  <2> QED
    BY <2>1, <2>2, <2>3 DEF InFlight, Passed
<1>7. ASSUME NEW a \in Actions, ComesToNothing(a) \/ DebitSession(a)
      PROVE  /\ spent' = spent
             /\ InFlight(g)' \subseteq InFlight(g)
             /\ \A b \in Actions : Passed(b)' => Passed(b)
  <2>1. \A b \in Actions \ {a} : pc'[b] = pc[b]
    BY <1>7 DEF ComesToNothing, DebitSession, BTypeOK
  <2>2. Passed(a) /\ spent' = spent
    BY <1>7 DEF ComesToNothing, DebitSession, Passed, accounts
  <2> QED
    BY <2>1, <2>2 DEF InFlight, Passed
<1>8. ASSUME NEW a \in Actions, NEW written \in BOOLEAN, ConfirmJournal(a, written)
      PROVE  /\ spent' = spent
             /\ InFlight(g)' \subseteq InFlight(g)
             /\ \A b \in CallsOf(g) : Passed(b)' => Passed(b)
  <2>1. \A b \in Actions \ {a} : pc'[b] = pc[b]
    BY <1>8 DEF ConfirmJournal, BTypeOK
  <2>2. spent' = spent
    BY <1>8 DEF ConfirmJournal, accounts
  <2>3. a \in CallsOf(g) => Passed(a)
    <3>1. a \in CallsOf(g) => confirms'[a] <= 1
      BY DEF Serial, CallsOf
    <3>2. confirms[a] \in Nat /\ confirms'[a] = confirms[a] + 1
      BY <1>8 DEF ConfirmJournal, BTypeOK
    <3> QED
      BY <3>1, <3>2, <1>8 DEF ConfirmJournal, ConfirmedOnce, Passed
  <2> QED
    BY <2>1, <2>2, <2>3 DEF InFlight, Passed, CallsOf
<1>9. ASSUME NEW a \in Actions, DebitExposure(a), GrantOf[a] = g
      PROVE  /\ spent'[g] = spent[g] + Cost(a)
             /\ InFlight(g)' \subseteq InFlight(g)
             /\ spent'[g] <= Ceiling
             /\ \A b \in CallsOf(g) : ~Passed(b)'
  <2>1. \A b \in Actions \ {a} : pc'[b] = pc[b]
    BY <1>9 DEF DebitExposure, BTypeOK
  <2>2. /\ Passed(a)
        /\ pc'[a] = "confirmed"
        /\ spent'[g] = spent[g] + Cost(a)
    BY <1>9 DEF DebitExposure, BTypeOK, Passed
  <2>3. a \in InFlight(g) /\ a \in CallsOf(g)
    BY <2>2, <1>9 DEF InFlight, CallsOf
  <2>4. \A b \in CallsOf(g) : ~Passed(b)'
    BY <2>1, <2>2, <2>3, <1>2 DEF Passed, InFlight, CallsOf
  <2> QED
    BY <2>1, <2>2, <2>3, <2>4, <1>2 DEF InFlight, Passed
<1>10. ASSUME NEW a \in Actions, DebitExposure(a), GrantOf[a] # g
       PROVE  spent'[g] = spent[g] /\ InFlight(g)' = InFlight(g)
              /\ \A b \in CallsOf(g) : Passed(b)' = Passed(b)
  <2>1. \A b \in Actions \ {a} : pc'[b] = pc[b]
    BY <1>10 DEF DebitExposure, BTypeOK
  <2>2. spent'[g] = spent[g]
    BY <1>10 DEF DebitExposure, BTypeOK
  <2> QED
    BY <2>1, <2>2, <1>10 DEF InFlight, Passed, CallsOf
<1>11. ASSUME \/ \E a \in Actions : Undo(a) \/ Release(a) \/ Refund(a) \/ CascadeUndo(a)
              \/ \E h \in Grants : Reset(h)
              \/ UNCHANGED vars
       PROVE  pc' = pc /\ spent'[g] <= spent[g]
  <2>1. ASSUME NEW a \in Actions, Refund(a)
        PROVE  pc' = pc /\ spent'[g] <= spent[g]
    <3>1. spent'[g] = spent[g] \/ spent'[g] = Credited(spent[g], Cost(a))
      BY <2>1 DEF Refund, BTypeOK
    <3>2. Credited(spent[g], Cost(a)) <= spent[g]
      BY <1>3, <1>4, CreditedType
    <3> QED
      BY <2>1, <3>1, <3>2, <1>4 DEF Refund
  <2>2. ASSUME NEW h \in Grants, Reset(h)
        PROVE  pc' = pc /\ spent'[g] <= spent[g]
    BY <2>2, <1>4 DEF Reset, BTypeOK
  <2>3. CASE \/ \E a \in Actions : Undo(a) \/ Release(a) \/ CascadeUndo(a)
             \/ UNCHANGED vars
    <3>1. pc' = pc /\ spent' = spent
      BY <2>3 DEF Undo, Release, CascadeUndo, vars, accounts
    <3> QED
      BY <3>1, <1>4
  <2> QED
    BY <1>11, <2>1, <2>2, <2>3
<1>12. CASE pc' = pc /\ spent'[g] <= spent[g]
  <2>1. InFlight(g)' = InFlight(g) /\ \A b \in Actions : Passed(b)' = Passed(b)
    BY <1>12 DEF InFlight, Passed
  <2> QED
    BY <2>1, <1>12, <1>2, <1>3, <1>4 DEF CallsOf
<1>13. CASE \E a \in Actions : DebitExposure(a)
  BY <1>13, <1>2, <1>9, <1>10
<1>14. CASE \E a \in Actions :
              \/ MatchBudgetRule(a) \/ \E approved \in BOOLEAN : FallThrough(a, approved)
              \/ CheckExposure(a) \/ ComesToNothing(a) \/ DebitSession(a)
              \/ \E written \in BOOLEAN : ConfirmJournal(a, written)
  BY <1>14, <1>2, <1>5, <1>6, <1>7, <1>8 DEF CallsOf
<1> QED
  BY <1>11, <1>12, <1>13, <1>14 DEF Next

\* Only a confirm lets a call become confirmed.
LEMMA ConfirmedStep ==
  ASSUME BTypeOK, \A a \in Actions : pc[a] \in {"debiting", "charging", "confirmed"}
                                       => confirms[a] > 0,
         [Next]_vars
  PROVE  \A a \in Actions : pc'[a] \in {"debiting", "charging", "confirmed"}
                              => confirms'[a] > 0
<1>1. CASE \E a \in Actions, written \in BOOLEAN : ConfirmJournal(a, written)
  BY <1>1 DEF ConfirmJournal, BTypeOK
<1>2. CASE \E a \in Actions :
             \/ MatchBudgetRule(a) \/ \E approved \in BOOLEAN : FallThrough(a, approved)
             \/ CheckExposure(a) \/ ComesToNothing(a)
  BY <1>2 DEF MatchBudgetRule, FallThrough, CheckExposure, ComesToNothing, BTypeOK, history
<1>3. CASE \E a \in Actions : DebitSession(a) \/ DebitExposure(a)
  BY <1>3 DEF DebitSession, DebitExposure, BTypeOK, history
<1>4. CASE \/ \E a \in Actions : Undo(a) \/ Release(a) \/ Refund(a) \/ CascadeUndo(a)
           \/ \E g \in Grants : Reset(g)
           \/ UNCHANGED vars
  <2>1. pc' = pc /\ confirms' = confirms
    BY <1>4 DEF Undo, Release, Refund, CascadeUndo, Reset, vars, history
  <2> QED
    BY <2>1
<1> QED
  BY <1>1, <1>2, <1>3, <1>4 DEF Next

-----------------------------------------------------------------------------

\* The strengthened invariant of the accounts holds in every reachable state.
THEOREM BudgetInvariant == Spec => []SerialInv
<1> USE AccountsAssumption
<1>1. Init => SerialInv
  <2> SUFFICES ASSUME Init PROVE SerialInv
    OBVIOUS
  <2>1. BTypeOK
    BY DEF Init, BTypeOK, Stages
  <2>2. \A a \in Actions : pc[a] = "idle" /\ confirms[a] = 0
    BY DEF Init
  <2>3. \A g \in Grants : spent[g] = 0 /\ InFlight(g) = {}
    BY <2>2 DEF Init, InFlight, Passed
  <2>4. \A a \in Actions : ~Passed(a)
    BY <2>2 DEF Passed
  <2>5. \A g \in Grants : GrantInv(g)
    BY <2>3, <2>4 DEF GrantInv, CallsOf
  <2>6. \A a \in Actions : pc[a] \notin {"debiting", "charging", "confirmed"}
    BY <2>2
  <2> QED
    BY <2>1, <2>5, <2>6 DEF SerialInv, GrantInv
<1>2. SerialInv /\ [Next]_vars => SerialInv'
  <2> SUFFICES ASSUME SerialInv, [Next]_vars
               PROVE  SerialInv'
    OBVIOUS
  <2>1. BTypeOK /\ BTypeOK'
    BY TypeStep DEF SerialInv
  <2>2. \A g \in Grants : GrantInv(g)
    BY DEF SerialInv, GrantInv
  <2>3. \A a \in Actions : pc[a] \in {"debiting", "charging", "confirmed"}
                             => confirms[a] > 0
    BY DEF SerialInv
  <2>4. \A a \in Actions : ConfirmedOnce(a)
    BY <2>3 DEF ConfirmedOnce
  <2>5. \A g \in Grants : GrantInv(g)'
    BY <2>1, <2>2, <2>4, GrantStep
  <2>6. \A a \in Actions : pc'[a] \in {"debiting", "charging", "confirmed"}
                             => confirms'[a] > 0
    BY <2>1, <2>3, ConfirmedStep
  <2> QED
    BY <2>1, <2>5, <2>6 DEF SerialInv, GrantInv
<1> QED
  BY <1>1, <1>2, PTL DEF Spec

\* For any number of grants, sessions, calls and any prices: the budget holds
\* its ceiling for callers that work one call at a time and confirm it once.
THEOREM CeilingHoldsSerially == Spec => []SerialWithinCeiling
<1>1. SerialInv => SerialWithinCeiling
  BY DEF SerialInv, SerialWithinCeiling
<1> QED
  BY <1>1, BudgetInvariant, PTL

\* The accounts are natural numbers: no credit takes one below zero.
THEOREM AccountsTyped == Spec => []BTypeOK
<1>1. SerialInv => BTypeOK
  BY DEF SerialInv
<1> QED
  BY <1>1, BudgetInvariant, PTL

-----------------------------------------------------------------------------
(* Sums over finite sets.  The library's induction theorems take an        *)
(* operator; here induction is over sets of natural numbers, which is      *)
(* first-order.                                                            *)

\* A set of naturals with 0 and every successor holds all of them: the numbers are
\* well-founded.
LEMMA NaturalsInduct ==
  ASSUME NEW S \in SUBSET Nat, 0 \in S, \A n \in S : n + 1 \in S
  PROVE  S = Nat
<1> DEFINE Less == {pair \in Nat \X Nat : pair[1] < pair[2]}
<1> SUFFICES ASSUME Nat \ S # {} PROVE FALSE
  OBVIOUS
<1>1. IsWellFoundedOn(Less, Nat)
  BY NatLessThanWellFounded DEF OpToRel
<1>2. PICK x \in Nat \ S : \A y \in Nat \ S : <<y, x>> \notin Less
  BY <1>1, WFMin
<1>3. \A y \in Nat \ S : ~(y < x)
  BY <1>2
<1>4. x # 0 /\ x - 1 \in Nat /\ x - 1 \notin Nat \ S
  BY <1>3
<1> QED
  BY <1>4

Pick(S) == CHOOSE x \in S : TRUE

\* What the fold of TotalOf computes for each subset of D.
Sums(f, D, sum) ==
  sum = [S \in SUBSET D |-> IF S = {} THEN 0 ELSE f[Pick(S)] + sum[S \ {Pick(S)}]]

\* Taking the picked element out leaves one element less.
LEMMA PickOne ==
  ASSUME NEW S, IsFiniteSet(S), S # {}
  PROVE  /\ Pick(S) \in S
         /\ IsFiniteSet(S \ {Pick(S)})
         /\ Cardinality(S) \in Nat \ {0}
         /\ Cardinality(S \ {Pick(S)}) = Cardinality(S) - 1
<1>1. Pick(S) \in S
  BY DEF Pick
<1> QED
  BY <1>1, FS_RemoveElement, FS_CardinalityType, FS_EmptySet

\* The fold is defined: it can be built up by the size of the subsets.
LEMMA SumExists ==
  ASSUME NEW f, NEW D, IsFiniteSet(D)
  PROVE  \E sum : Sums(f, D, sum)
<1> DEFINE Upto(n) == {S \in SUBSET D : Cardinality(S) <= n}
           Computes(n, sum) ==
             sum = [S \in Upto(n) |-> IF S = {} THEN 0 ELSE f[Pick(S)] + sum[S \ {Pick(S)}]]
           Good == {n \in Nat : \E sum : Computes(n, sum)}
<1>1. \A S \in SUBSET D : IsFiniteSet(S) /\ Cardinality(S) \in Nat
  BY FS_Subset, FS_CardinalityType
<1>2. 0 \in Good
  <2>1. \A S \in Upto(0) : S = {}
    BY <1>1, FS_EmptySet
  <2>2. Computes(0, [S \in Upto(0) |-> 0])
    BY <2>1
  <2> QED
    BY <2>2
<1>3. ASSUME NEW n \in Good
      PROVE  n + 1 \in Good
  <2>1. PICK sum : Computes(n, sum)
    OBVIOUS
  <2> DEFINE more == [S \in Upto(n + 1) |-> IF S = {} THEN 0 ELSE f[Pick(S)] + sum[S \ {Pick(S)}]]
  <2>2. ASSUME NEW S \in Upto(n + 1), S # {}
        PROVE  more[S \ {Pick(S)}] = sum[S \ {Pick(S)}]
    <3>1. S \ {Pick(S)} \in Upto(n) /\ S \ {Pick(S)} \in Upto(n + 1)
      BY <1>1, <2>2, PickOne
    <3> QED
      BY <2>1, <3>1
  <2>3. Computes(n + 1, more)
    BY <2>2
  <2> HIDE DEF more
  <2>4. \E any : Computes(n + 1, any)
    BY <2>3
  <2> HIDE DEF Computes
  <2> QED
    BY <2>4
<1>4. Good = Nat
  BY <1>2, <1>3, NaturalsInduct
<1>5. PICK sum : Computes(Cardinality(D), sum)
  BY <1>1, <1>4
<1>6. Upto(Cardinality(D)) = SUBSET D
  BY <1>1, FS_Subset
<1>7. Sums(f, D, sum)
  BY <1>5, <1>6 DEF Sums
<1> QED
  BY <1>7

\* Functions that agree on a set have the same sum over it, whatever domain the fold
\* ran over.
LEMMA SumUnique ==
  ASSUME NEW f, NEW g, NEW D, NEW E, IsFiniteSet(D), D \subseteq E,
         \A x \in D : f[x] = g[x],
         NEW sum, NEW other, Sums(f, D, sum), Sums(g, E, other)
  PROVE  sum[D] = other[D]
<1> DEFINE Good == {n \in Nat : \A S \in SUBSET D : Cardinality(S) = n => sum[S] = other[S]}
<1>1. \A S \in SUBSET D : IsFiniteSet(S) /\ Cardinality(S) \in Nat
  BY FS_Subset, FS_CardinalityType
<1>2. /\ sum[{}] = 0 /\ other[{}] = 0
      /\ \A S \in SUBSET D : S # {} =>
           /\ sum[S] = f[Pick(S)] + sum[S \ {Pick(S)}]
           /\ other[S] = g[Pick(S)] + other[S \ {Pick(S)}]
  BY DEF Sums
<1>3. 0 \in Good
  BY <1>1, <1>2, FS_EmptySet
<1>4. ASSUME NEW n \in Good
      PROVE  n + 1 \in Good
  <2>1. ASSUME NEW S \in SUBSET D, Cardinality(S) = n + 1
        PROVE  sum[S] = other[S]
    <3>1. S # {}
      BY <2>1, FS_EmptySet
    <3>2. /\ Pick(S) \in S
          /\ S \ {Pick(S)} \in SUBSET D /\ Cardinality(S \ {Pick(S)}) = n
      BY <1>1, <2>1, <3>1, PickOne
    <3>3. sum[S \ {Pick(S)}] = other[S \ {Pick(S)}]
      BY <3>2
    <3> QED
      BY <1>2, <3>1, <3>2, <3>3
  <2> QED
    BY <2>1
<1>5. Good = Nat
  BY <1>3, <1>4, NaturalsInduct
<1> QED
  BY <1>1, <1>5

\* TotalOf is such a fold.
LEMMA TotalIsSum ==
  ASSUME NEW f, NEW D, IsFiniteSet(D)
  PROVE  \E sum : Sums(f, D, sum) /\ TotalOf(f, D) = sum[D]
<1> DEFINE fold == CHOOSE sum : Sums(f, D, sum)
<1>1. TotalOf(f, D) = fold[D]
  BY DEF TotalOf, MapThenSumSet, MapThenFoldSet, Sums, Pick
<1>2. Sums(f, D, fold)
  BY SumExists
<1> QED
  BY <1>1, <1>2

\* Two functions that agree on a set have the same sum over it.
LEMMA SumSame ==
  ASSUME NEW f, NEW g, NEW D, IsFiniteSet(D), \A x \in D : f[x] = g[x]
  PROVE  TotalOf(f, D) = TotalOf(g, D)
<1>1. PICK sum : Sums(f, D, sum) /\ TotalOf(f, D) = sum[D]
  BY TotalIsSum
<1>2. PICK other : Sums(g, D, other) /\ TotalOf(g, D) = other[D]
  BY TotalIsSum
<1> QED
  BY <1>1, <1>2, SumUnique

\* The sum over nothing, and over a set one element smaller.
LEMMA SumPick ==
  ASSUME NEW f, NEW D, IsFiniteSet(D)
  PROVE  /\ TotalOf(f, {}) = 0
         /\ D # {} => TotalOf(f, D) = f[Pick(D)] + TotalOf(f, D \ {Pick(D)})
<1>1. TotalOf(f, {}) = 0
  <2>1. PICK sum : Sums(f, {}, sum) /\ TotalOf(f, {}) = sum[{}]
    BY TotalIsSum, FS_EmptySet
  <2> QED
    BY <2>1 DEF Sums
<1>2. ASSUME D # {}
      PROVE  TotalOf(f, D) = f[Pick(D)] + TotalOf(f, D \ {Pick(D)})
  <2>1. PICK sum : Sums(f, D, sum) /\ TotalOf(f, D) = sum[D]
    BY TotalIsSum
  <2> DEFINE C == D \ {Pick(D)}
  <2>2. IsFiniteSet(C)
    BY <1>2, PickOne
  <2>3. PICK other : Sums(f, C, other) /\ TotalOf(f, C) = other[C]
    BY <2>2, TotalIsSum
  <2> HIDE DEF C
  <2>4. C \subseteq D
    BY DEF C
  <2>5. other[C] = sum[C]
    BY <2>1, <2>2, <2>3, <2>4, SumUnique
  <2>6. sum[D] = f[Pick(D)] + sum[C]
    BY <1>2, <2>1 DEF Sums, C
  <2> QED
    BY <2>1, <2>3, <2>5, <2>6 DEF C
<1> QED
  BY <1>1, <1>2

\* Any element may be taken out first, and a sum of integers is an integer.
LEMMA SumRemove ==
  ASSUME NEW f, NEW D, IsFiniteSet(D), \A x \in D : f[x] \in Int
  PROVE  /\ TotalOf(f, D) \in Int
         /\ \A x \in D : TotalOf(f, D) = f[x] + TotalOf(f, D \ {x})
<1> DEFINE Right(S) == /\ TotalOf(f, S) \in Int
                       /\ \A x \in S : TotalOf(f, S) = f[x] + TotalOf(f, S \ {x})
           Good == {n \in Nat : \A S \in SUBSET D : Cardinality(S) <= n => Right(S)}
<1>1. \A S \in SUBSET D : IsFiniteSet(S) /\ Cardinality(S) \in Nat
  BY FS_Subset, FS_CardinalityType
<1>2. 0 \in Good
  <2>1. TotalOf(f, {}) = 0
    BY SumPick
  <2>2. \A S \in SUBSET D : Cardinality(S) <= 0 => S = {}
    BY <1>1, FS_EmptySet
  <2>3. Right({})
    BY <2>1
  <2> HIDE DEF Right
  <2> QED
    BY <2>3, <2>2
<1>3. ASSUME NEW n \in Good
      PROVE  n + 1 \in Good
  <2>0. n \in Nat
    OBVIOUS
  <2>1. \A S \in SUBSET D : Cardinality(S) <= n => Right(S)
    OBVIOUS
  <2> HIDE DEF Good
  <2>2. ASSUME NEW S \in SUBSET D, Cardinality(S) = n + 1
        PROVE  Right(S)
    <3> DEFINE p == Pick(S)
    <3>1. S # {} /\ IsFiniteSet(S)
      BY <1>1, <2>0, <2>2, FS_EmptySet
    <3>2. p \in S /\ TotalOf(f, S) = f[p] + TotalOf(f, S \ {p})
      BY <3>1, PickOne, SumPick
    <3> HIDE DEF p, Right
    <3>3. ASSUME NEW x \in S
          PROVE  Cardinality(S \ {x}) = n /\ Right(S \ {x}) /\ f[x] \in Int
      <4>1. Cardinality(S \ {x}) = Cardinality(S) - 1
        BY <3>1, FS_RemoveElement
      <4>2. Cardinality(S \ {x}) = n
        BY <4>1, <2>0, <2>2
      <4>3. S \ {x} \in SUBSET D
        OBVIOUS
      <4> QED
        BY <4>2, <4>3, <2>0, <2>1
    <3>4. ASSUME NEW x \in S, x # p
          PROVE  TotalOf(f, S) = f[x] + TotalOf(f, S \ {x})
      <4> DEFINE R == (S \ {x}) \ {p}
      <4>1. TotalOf(f, S \ {p}) = f[x] + TotalOf(f, (S \ {p}) \ {x})
        BY <3>2, <3>3, <3>4 DEF Right
      <4>2. (S \ {p}) \ {x} = R
        OBVIOUS
      <4>3. TotalOf(f, S \ {x}) = f[p] + TotalOf(f, R)
        BY <3>2, <3>3, <3>4 DEF Right
      <4>4. Right(R)
        <5>1. R \in SUBSET D /\ R \subseteq S \ {x} /\ IsFiniteSet(S \ {x})
          BY <1>1
        <5>2. Cardinality(S \ {x}) = n
          BY <3>3
        <5>3. Cardinality(R) <= Cardinality(S \ {x})
          BY <5>1, FS_Subset
        <5> HIDE DEF R
        <5> QED
          BY <5>1, <5>2, <5>3, <2>1
      <4> HIDE DEF R
      <4>5. f[x] \in Int /\ f[p] \in Int /\ TotalOf(f, R) \in Int
        BY <3>2, <3>3, <4>4 DEF Right
      <4>6. TotalOf(f, S \ {p}) = f[x] + TotalOf(f, R)
        BY <4>1, <4>2
      <4>7. TotalOf(f, S) = f[p] + (f[x] + TotalOf(f, R))
        BY <3>2, <4>6
      <4> QED
        BY <4>3, <4>5, <4>7
    <3>5. TotalOf(f, S) \in Int
      <4>1. TotalOf(f, S \ {p}) \in Int /\ f[p] \in Int
        BY <3>2, <3>3 DEF Right
      <4> QED
        BY <3>2, <4>1
    <3>6. \A x \in S : TotalOf(f, S) = f[x] + TotalOf(f, S \ {x})
      BY <3>2, <3>4
    <3> QED
      BY <3>5, <3>6 DEF Right
  <2>3. \A S \in SUBSET D : Cardinality(S) <= n + 1 => Cardinality(S) <= n \/ Cardinality(S) = n + 1
    BY <1>1, <2>0
  <2> HIDE DEF Right
  <2> QED
    BY <2>0, <2>1, <2>2, <2>3 DEF Good
<1>4. Good = Nat
  BY <1>2, <1>3, NaturalsInduct
<1>5. Cardinality(D) \in Good
  BY <1>1, <1>4
<1> HIDE DEF Right
<1>6. Right(D)
  BY <1>1, <1>5
<1> QED
  BY <1>6 DEF Right

\* A family of subsets that holds the empty one and grows by single elements holds
\* the whole of a finite set.
LEMMA FiniteSetsInduct ==
  ASSUME NEW D, IsFiniteSet(D), NEW G, {} \in G,
         \A S \in SUBSET D : S \in G => \A x \in D \ S : S \cup {x} \in G
  PROVE  D \in G
<1> DEFINE Good == {n \in Nat : \A S \in SUBSET D : Cardinality(S) = n => S \in G}
<1>1. \A S \in SUBSET D : IsFiniteSet(S) /\ Cardinality(S) \in Nat
  BY FS_Subset, FS_CardinalityType
<1>2. 0 \in Good
  BY <1>1, FS_EmptySet
<1>3. ASSUME NEW n \in Good
      PROVE  n + 1 \in Good
  <2>1. ASSUME NEW S \in SUBSET D, Cardinality(S) = n + 1
        PROVE  S \in G
    <3>1. S # {}
      <4>1. n + 1 # 0 /\ Cardinality({}) = 0
        BY FS_EmptySet
      <4> QED
        BY <2>1, <4>1
    <3>2. PICK x : x \in S
      BY <3>1
    <3>3. Cardinality(S \ {x}) = n
      BY <1>1, <2>1, <3>2, FS_RemoveElement
    <3>4. S \ {x} \in G
      BY <3>3
    <3>5. S = (S \ {x}) \cup {x}
      BY <3>2
    <3> QED
      BY <3>2, <3>4, <3>5
  <2> QED
    BY <2>1
<1>4. Good = Nat
  BY <1>2, <1>3, NaturalsInduct
<1> QED
  BY <1>1, <1>4

LEMMA SumInsert ==
  ASSUME NEW f, NEW D, IsFiniteSet(D), \A x \in D : f[x] \in Int, NEW a, a \notin D, f[a] \in Int
  PROVE  TotalOf(f, D \cup {a}) = f[a] + TotalOf(f, D)
<1>1. IsFiniteSet(D \cup {a}) /\ \A x \in D \cup {a} : f[x] \in Int
  BY FS_AddElement
<1>2. TotalOf(f, D \cup {a}) = f[a] + TotalOf(f, (D \cup {a}) \ {a})
  BY <1>1, SumRemove
<1>3. (D \cup {a}) \ {a} = D
  OBVIOUS
<1> QED
  BY <1>2, <1>3

\* A change at one place changes the sum by as much.
LEMMA SumChange ==
  ASSUME NEW f, NEW g, NEW D, IsFiniteSet(D), \A x \in D : f[x] \in Int /\ g[x] \in Int,
         NEW a \in D, \A x \in D \ {a} : f[x] = g[x]
  PROVE  TotalOf(g, D) = TotalOf(f, D) - f[a] + g[a]
<1>1. IsFiniteSet(D \ {a})
  BY FS_RemoveElement
<1>2. TotalOf(f, D \ {a}) = TotalOf(g, D \ {a})
  BY <1>1, SumSame
<1>3. TotalOf(f, D) = f[a] + TotalOf(f, D \ {a}) /\ TotalOf(g, D) = g[a] + TotalOf(g, D \ {a})
  BY SumRemove
<1>4. TotalOf(f, D \ {a}) \in Int
  BY <1>1, SumRemove
<1> QED
  BY <1>2, <1>3, <1>4

\* Elements that count for nothing may be left out.
LEMMA SumFilter ==
  ASSUME NEW f, NEW D, IsFiniteSet(D), \A x \in D : f[x] \in Int, NEW T \in SUBSET D,
         \A x \in D \ T : f[x] = 0
  PROVE  TotalOf(f, D) = TotalOf(f, T)
<1> DEFINE G == {S \in SUBSET D : TotalOf(f, S) = TotalOf(f, S \cap T)}
<1>1. {} \in G
  <2>1. {} \cap T = {}
    OBVIOUS
  <2> QED
    BY <2>1
<1>2. ASSUME NEW S \in G, NEW x \in D \ S
      PROVE  S \cup {x} \in G
  <2>1. /\ IsFiniteSet(S) /\ IsFiniteSet(S \cap T)
        /\ TotalOf(f, S) = TotalOf(f, S \cap T)
    BY FS_Subset
  <2>2. TotalOf(f, S \cup {x}) = f[x] + TotalOf(f, S)
    BY <2>1, SumInsert
  <2>3. TotalOf(f, S) \in Int
    BY <2>1, SumRemove
  <2>4. CASE x \in T
    <3>1. (S \cup {x}) \cap T = (S \cap T) \cup {x}
      BY <2>4
    <3>2. TotalOf(f, (S \cap T) \cup {x}) = f[x] + TotalOf(f, S \cap T)
      BY <2>1, SumInsert
    <3> QED
      BY <2>1, <2>2, <3>1, <3>2
  <2>5. CASE x \notin T
    <3>1. (S \cup {x}) \cap T = S \cap T /\ f[x] = 0
      BY <2>5
    <3>2. TotalOf(f, S \cup {x}) = TotalOf(f, S)
      BY <2>2, <2>3, <3>1
    <3> QED
      BY <2>1, <3>1, <3>2
  <2> QED
    BY <2>4, <2>5
<1> HIDE DEF G
<1>3. D \in G
  BY <1>1, <1>2, FiniteSetsInduct
<1>4. D \cap T = T
  OBVIOUS
<1> QED
  BY <1>3, <1>4 DEF G

\* Smaller terms have a smaller sum, and terms bounded by m one bounded by their
\* number times m.
LEMMA SumLess ==
  ASSUME NEW f, NEW g, NEW D, IsFiniteSet(D),
         \A x \in D : f[x] \in Int /\ g[x] \in Int /\ f[x] <= g[x]
  PROVE  TotalOf(f, D) <= TotalOf(g, D)
<1> DEFINE G == {S \in SUBSET D : TotalOf(f, S) <= TotalOf(g, S)}
<1>1. {} \in G
  <2>1. TotalOf(f, {}) = 0 /\ TotalOf(g, {}) = 0
    BY SumPick
  <2> QED
    BY <2>1
<1>2. ASSUME NEW S \in G, NEW x \in D \ S
      PROVE  S \cup {x} \in G
  <2>1. IsFiniteSet(S) /\ TotalOf(f, S) <= TotalOf(g, S)
    BY FS_Subset
  <2>2. /\ TotalOf(f, S \cup {x}) = f[x] + TotalOf(f, S)
        /\ TotalOf(g, S \cup {x}) = g[x] + TotalOf(g, S)
    BY <2>1, SumInsert
  <2>3. TotalOf(f, S) \in Int /\ TotalOf(g, S) \in Int
    BY <2>1, SumRemove
  <2> QED
    BY <2>1, <2>2, <2>3
<1> HIDE DEF G
<1>3. D \in G
  BY <1>1, <1>2, FiniteSetsInduct
<1> QED
  BY <1>3 DEF G

LEMMA SumBounded ==
  ASSUME NEW f, NEW D, IsFiniteSet(D), NEW m \in Nat,
         \A x \in D : f[x] \in Int /\ f[x] <= m
  PROVE  TotalOf(f, D) <= Cardinality(D) * m
<1> DEFINE G == {S \in SUBSET D : TotalOf(f, S) <= Cardinality(S) * m}
<1>1. {} \in G
  <2>1. TotalOf(f, {}) = 0 /\ Cardinality({}) = 0
    BY SumPick, FS_EmptySet
  <2> QED
    BY <2>1
<1>2. ASSUME NEW S \in G, NEW x \in D \ S
      PROVE  S \cup {x} \in G
  <2>1. IsFiniteSet(S) /\ TotalOf(f, S) <= Cardinality(S) * m
    BY FS_Subset
  <2>2. TotalOf(f, S \cup {x}) = f[x] + TotalOf(f, S)
    BY <2>1, SumInsert
  <2>3. Cardinality(S \cup {x}) = Cardinality(S) + 1 /\ Cardinality(S) \in Nat
    BY <2>1, FS_AddElement, FS_CardinalityType
  <2>4. (Cardinality(S) + 1) * m = Cardinality(S) * m + m /\ Cardinality(S) * m \in Nat
    BY <2>3
  <2>5. TotalOf(f, S) \in Int
    BY <2>1, SumRemove
  <2>6. TotalOf(f, S \cup {x}) <= (Cardinality(S) + 1) * m
    BY <2>1, <2>2, <2>4, <2>5
  <2> QED
    BY <2>3, <2>6
<1> HIDE DEF G
<1>3. D \in G
  BY <1>1, <1>2, FiniteSetsInduct
<1> QED
  BY <1>3 DEF G

-----------------------------------------------------------------------------
(* The books.  Between a confirm and its debits, and between an undo and   *)
(* its credits, an account does not balance; the invariant says by how     *)
(* much: each call owes its price while it stands and while its undo has   *)
(* not been credited, less what a confirm under way has not debited yet    *)
(* and what the confirms that raised never debited.                        *)

Counts(condition, price) == IF condition THEN price ELSE 0

AmountIfRuled(a) == Counts(a \in ruled, AmountOf[a])

SessionOwed ==
  [a \in Actions |-> Counts(a \in standing, AmountIfRuled(a))
                     + Counts(undoing[a] = "releasing", AmountIfRuled(a))
                     - Counts(pc[a] = "debiting", AmountIfRuled(a)) - Undebited[a]]

GrantOwed ==
  [a \in Actions |-> Counts(a \in standing, Cost(a))
                     + Counts(undoing[a] # "no", Cost(a))
                     - Counts(pc[a] \in {"debiting", "charging"}, Cost(a)) - Uncharged[a]]

\* A call that was not confirmed has left no trace; an undisturbed one was confirmed
\* once and stands until that confirm is done.
CallInv(a) ==
  /\ confirms[a] <= MaxConfirms
  /\ pc[a] \in {"idle", "gated", "allowed", "refused"} <=> confirms[a] = 0
  /\ confirms[a] = 0 => a \notin standing /\ undoing[a] = "no"
  /\ lapsed[a] <= confirms[a] /\ (a \notin disturbed => confirms[a] <= 1 /\ lapsed[a] = 0)
  /\ a \notin disturbed /\ pc[a] \in {"debiting", "charging"} => a \in standing /\ undoing[a] = "no"

SessionBooks(s) ==
  /\ TotalOf(SessionOwed, CallsIn(s)) <= total[s]
  /\ CallsIn(s) \cap disturbed = {} => TotalOf(SessionOwed, CallsIn(s)) = total[s]

GrantBooks(g) ==
  g \notin renewed =>
    /\ TotalOf(GrantOwed, CallsOf(g)) <= spent[g]
    /\ CallsOf(g) \cap disturbed = {} => TotalOf(GrantOwed, CallsOf(g)) = spent[g]

BooksInv ==
  /\ BTypeOK
  /\ \A a \in Actions : CallInv(a)
  /\ \A s \in Sessions : SessionBooks(s)
  /\ \A g \in Grants : GrantBooks(g)

LEMMA OwedTypes ==
  ASSUME BTypeOK
  PROVE  /\ \A a \in Actions : /\ AmountOf[a] \in Nat /\ AmountIfRuled(a) \in Nat /\ Cost(a) \in Nat
                               /\ Undebited[a] \in Nat /\ Uncharged[a] \in Nat
                               /\ lapsed[a] = 0 => Undebited[a] = 0 /\ Uncharged[a] = 0
                               /\ SessionOwed[a] \in Int /\ GrantOwed[a] \in Int
         /\ \A s : IsFiniteSet(CallsIn(s)) /\ CallsIn(s) \subseteq Actions
         /\ \A g : IsFiniteSet(CallsOf(g)) /\ CallsOf(g) \subseteq Actions
<1>1. \A a \in Actions : AmountOf[a] \in Nat /\ AmountIfRuled(a) \in Nat /\ Cost(a) \in Nat
  BY CostType, AccountsAssumption DEF AmountIfRuled, Counts
<1>5. ASSUME NEW a \in Actions
      PROVE  /\ Undebited[a] \in Nat /\ Uncharged[a] \in Nat
             /\ lapsed[a] = 0 => Undebited[a] = 0 /\ Uncharged[a] = 0
  <2>1. \A m, n \in Nat : m * n \in Nat /\ 0 * n = 0
    BY SMT
  <2>2. lapsed[a] \in Nat
    BY DEF BTypeOK
  <2>3. Undebited[a] = lapsed[a] * AmountIfRuled(a) /\ Uncharged[a] = lapsed[a] * Cost(a)
    BY DEF Undebited, Uncharged, AmountIfRuled, Counts
  <2> QED
    BY <1>1, <2>1, <2>2, <2>3
<1>2. \A a \in Actions : SessionOwed[a] \in Int /\ GrantOwed[a] \in Int
  BY <1>1, <1>5 DEF SessionOwed, GrantOwed, Counts
<1>3. \A s : IsFiniteSet(CallsIn(s)) /\ CallsIn(s) \subseteq Actions
  BY FS_Subset, AccountsAssumption DEF CallsIn
<1>4. \A g : IsFiniteSet(CallsOf(g)) /\ CallsOf(g) \subseteq Actions
  BY FS_Subset, AccountsAssumption DEF CallsOf
<1> QED
  BY <1>1, <1>2, <1>3, <1>4, <1>5

\* What was lost stays as it is where no confirm raises.
LEMMA LostStays ==
  ASSUME NEW a \in Actions, lapsed' = lapsed, a \in ruled' <=> a \in ruled
  PROVE  Undebited'[a] = Undebited[a] /\ Uncharged'[a] = Uncharged[a]
BY DEF Undebited, Uncharged, Cost

\* An account that covers what is owed still does when what one call owes grows by no
\* more than the account.
LEMMA AccountCovers ==
  ASSUME NEW f, NEW g, NEW D, IsFiniteSet(D), \A x \in D : f[x] \in Int /\ g[x] \in Int,
         NEW a, \A x \in D : x # a => g[x] = f[x],
         NEW old \in Int, NEW new \in Int, TotalOf(f, D) <= old,
         a \in D => g[a] - f[a] <= new - old, a \notin D => old <= new
  PROVE  TotalOf(g, D) <= new
<1>1. TotalOf(f, D) \in Int /\ TotalOf(g, D) \in Int
  BY SumRemove
<1>2. CASE a \in D
  <2>1. TotalOf(g, D) = TotalOf(f, D) - f[a] + g[a]
    BY <1>2, SumChange
  <2> QED
    BY <1>1, <1>2, <2>1
<1>3. CASE a \notin D
  <2>1. TotalOf(g, D) = TotalOf(f, D)
    BY <1>3, SumSame
  <2> QED
    BY <1>1, <1>3, <2>1
<1> QED
  BY <1>2, <1>3

\* One that holds no more than is owed still does when the account grows by no more.
LEMMA AccountWithin ==
  ASSUME NEW f, NEW g, NEW D, IsFiniteSet(D), \A x \in D : f[x] \in Int /\ g[x] \in Int,
         NEW a, \A x \in D : x # a => g[x] = f[x],
         NEW old \in Int, NEW new \in Int, old <= TotalOf(f, D),
         a \in D => new - old <= g[a] - f[a], a \notin D => new <= old
  PROVE  new <= TotalOf(g, D)
<1>1. TotalOf(f, D) \in Int /\ TotalOf(g, D) \in Int
  BY SumRemove
<1>2. CASE a \in D
  <2>1. TotalOf(g, D) = TotalOf(f, D) - f[a] + g[a]
    BY <1>2, SumChange
  <2> QED
    BY <1>1, <1>2, <2>1
<1>3. CASE a \notin D
  <2>1. TotalOf(g, D) = TotalOf(f, D)
    BY <1>3, SumSame
  <2> QED
    BY <1>1, <1>3, <2>1
<1> QED
  BY <1>2, <1>3

\* Where no call owes less than nothing, each owes no more than all together.
LEMMA OneOfAll ==
  ASSUME NEW f, NEW D, IsFiniteSet(D), \A x \in D : f[x] \in Nat, NEW a \in D
  PROVE  f[a] <= TotalOf(f, D)
<1> DEFINE zero == [x \in D |-> 0]
<1>1. IsFiniteSet(D \ {a})
  BY FS_RemoveElement
<1>2. TotalOf(zero, D \ {a}) <= TotalOf(f, D \ {a})
  BY <1>1, SumLess
<1>3. TotalOf(zero, D \ {a}) = TotalOf(zero, {})
  BY <1>1, SumFilter
<1>4. TotalOf(zero, {}) = 0
  BY SumPick
<1>5. TotalOf(f, D) = f[a] + TotalOf(f, D \ {a}) /\ TotalOf(f, D \ {a}) \in Int
  BY <1>1, SumRemove
<1> QED
  BY <1>2, <1>3, <1>4, <1>5

\* What a step does to what one call owes, and to the two accounts.
Moves(a, owedSession, owedGrant, session, grant) ==
  /\ \A b \in Actions : b # a =>
       SessionOwed'[b] = SessionOwed[b] /\ GrantOwed'[b] = GrantOwed[b]
  /\ SessionOwed'[a] = SessionOwed[a] + owedSession
  /\ GrantOwed'[a] = GrantOwed[a] + owedGrant
  /\ \A s \in Sessions : total'[s] = IF s = SessionOf[a] THEN session ELSE total[s]
  /\ \A g \in Grants : spent'[g] = IF g = GrantOf[a] THEN grant ELSE spent[g]
  /\ disturbed \subseteq disturbed' /\ renewed' = renewed

\* The four debits and credits, and the steps that only look.
LEMMA QuietMoves ==
  ASSUME BTypeOK, NEW a \in Actions, CallInv(a),
         \/ MatchBudgetRule(a)
         \/ \E approved \in BOOLEAN : FallThrough(a, approved)
         \/ CheckExposure(a)
         \/ ComesToNothing(a)
  PROVE  Moves(a, 0, 0, total[SessionOf[a]], spent[GrantOf[a]])
<1> USE AccountsAssumption
<1>1. /\ pc[a] \in {"idle", "gated", "allowed"} /\ pc'[a] \in {"gated", "allowed", "refused"}
      /\ \A b \in Actions \ {a} : pc'[b] = pc[b] /\ (b \in ruled' <=> b \in ruled)
      /\ UNCHANGED <<accounts, standing, undoing, history>>
  BY DEF MatchBudgetRule, FallThrough, CheckExposure, ComesToNothing, Start, BTypeOK
<1>2. a \notin standing /\ undoing[a] = "no" /\ lapsed[a] = 0 /\ lapsed' = lapsed
  BY <1>1 DEF CallInv, BTypeOK, history
<1>5. /\ \A b \in Actions \ {a} : Undebited'[b] = Undebited[b] /\ Uncharged'[b] = Uncharged[b]
      /\ Undebited[a] = 0 /\ Uncharged[a] = 0 /\ Undebited'[a] = 0 /\ Uncharged'[a] = 0
  <2>1. Undebited[a] = 0 /\ Uncharged[a] = 0
    BY <1>2, OwedTypes
  <2>2. Uncharged'[a] = 0 /\ \A b \in Actions \ {a} : Undebited'[b] = Undebited[b] /\ Uncharged'[b] = Uncharged[b]
    BY <1>1, <1>2, <2>1, LostStays DEF Uncharged, Cost
  <2>3. Undebited'[a] = 0
    <3>1. (IF a \in ruled' THEN AmountOf[a] ELSE 0) \in Nat
      OBVIOUS
    <3>2. \A n \in Nat : 0 * n = 0
      BY SMT
    <3> QED
      BY <1>2, <3>1, <3>2 DEF Undebited
  <2> QED
    BY <2>1, <2>2, <2>3
<1>3. \A b \in Actions \ {a} : SessionOwed'[b] = SessionOwed[b] /\ GrantOwed'[b] = GrantOwed[b]
  BY <1>1, <1>5 DEF SessionOwed, GrantOwed, AmountIfRuled, Counts, Cost
<1>4. /\ SessionOwed[a] = 0 /\ SessionOwed'[a] = 0
      /\ GrantOwed[a] = 0 /\ GrantOwed'[a] = 0
  BY <1>1, <1>2, <1>5 DEF SessionOwed, GrantOwed, Counts
<1> QED
  BY <1>1, <1>3, <1>4 DEF Moves, accounts, history, BTypeOK

LEMMA ConfirmMoves ==
  ASSUME BTypeOK, NEW a \in Actions, CallInv(a),
         NEW written \in BOOLEAN, ConfirmJournal(a, written)
  PROVE  \E x, y \in Int :
           /\ Moves(a, x, y, total[SessionOf[a]], spent[GrantOf[a]])
           /\ x <= 0 /\ y <= 0
           /\ a \notin disturbed' => x = 0 /\ y = 0
<1> USE AccountsAssumption
<1>1. /\ AmountIfRuled(a) \in Nat /\ Cost(a) \in Nat /\ SessionOwed[a] \in Int /\ GrantOwed[a] \in Int
      /\ Undebited[a] \in Nat /\ Uncharged[a] \in Nat
  BY OwedTypes
<1>2. /\ pc[a] \in {"allowed", "confirmed"} /\ pc'[a] = IF written THEN "debiting" ELSE "confirmed"
      /\ \A b \in Actions \ {a} : /\ pc'[b] = pc[b] /\ (b \in standing' <=> b \in standing)
                                  /\ lapsed'[b] = lapsed[b]
      /\ a \in standing' /\ lapsed'[a] = lapsed[a] + IF written THEN 0 ELSE 1
      /\ disturbed \subseteq disturbed' /\ (a \notin disturbed' => confirms[a] = 0)
      /\ UNCHANGED <<ruled, accounts, undoing, renewed>>
  BY DEF ConfirmJournal, BTypeOK
\* A confirm that raises owes its price by standing and has lost as much.
<1>9. /\ \A b \in Actions \ {a} : Undebited'[b] = Undebited[b] /\ Uncharged'[b] = Uncharged[b]
      /\ Undebited'[a] = Undebited[a] + Counts(~written, AmountIfRuled(a))
      /\ Uncharged'[a] = Uncharged[a] + Counts(~written, Cost(a))
  <2>1. \A m, n \in Nat : (m + 1) * n = m * n + n /\ (m + 0) * n = m * n /\ m * n \in Nat
    BY SMT
  <2>2. lapsed[a] \in Nat
    BY DEF BTypeOK
  <2>3. /\ \A b \in Actions \ {a} : Undebited'[b] = Undebited[b] /\ Uncharged'[b] = Uncharged[b]
        /\ Undebited[a] = lapsed[a] * AmountIfRuled(a) /\ Uncharged[a] = lapsed[a] * Cost(a)
        /\ Undebited'[a] = lapsed'[a] * AmountIfRuled(a) /\ Uncharged'[a] = lapsed'[a] * Cost(a)
    BY <1>2 DEF Undebited, Uncharged, AmountIfRuled, Counts, Cost
  <2> QED
    BY <1>1, <1>2, <2>1, <2>2, <2>3 DEF Counts
<1>3. \A b \in Actions \ {a} : SessionOwed'[b] = SessionOwed[b] /\ GrantOwed'[b] = GrantOwed[b]
  BY <1>2, <1>9 DEF SessionOwed, GrantOwed, AmountIfRuled, Counts, Cost
<1> DEFINE x == IF a \in standing THEN -AmountIfRuled(a) ELSE 0
           y == IF a \in standing THEN -Cost(a) ELSE 0
<1>4. SessionOwed'[a] = SessionOwed[a] + x
  BY <1>1, <1>2, <1>9 DEF SessionOwed, AmountIfRuled, Counts
<1>5. GrantOwed'[a] = GrantOwed[a] + y
  BY <1>1, <1>2, <1>9 DEF GrantOwed, Counts, Cost
<1>6. a \notin disturbed' => a \notin standing
  BY <1>2 DEF CallInv
<1>7. x \in Int /\ y \in Int /\ x <= 0 /\ y <= 0
  BY <1>1
<1>8. Moves(a, x, y, total[SessionOf[a]], spent[GrantOf[a]])
  BY <1>2, <1>3, <1>4, <1>5 DEF Moves, accounts, BTypeOK
<1> QED
  BY <1>6, <1>7, <1>8

LEMMA DebitSessionMoves ==
  ASSUME BTypeOK, NEW a \in Actions, DebitSession(a)
  PROVE  Moves(a, AmountIfRuled(a), 0, total[SessionOf[a]] + AmountIfRuled(a), spent[GrantOf[a]])
<1> USE AccountsAssumption
<1>1. /\ AmountIfRuled(a) \in Nat /\ Cost(a) \in Nat
      /\ Undebited[a] \in Nat /\ Uncharged[a] \in Nat
  BY OwedTypes
<1>2. /\ pc[a] = "debiting" /\ pc'[a] = "charging"
      /\ \A b \in Actions \ {a} : pc'[b] = pc[b]
      /\ total' = [total EXCEPT ![SessionOf[a]] = @ + AmountIfRuled(a)]
      /\ UNCHANGED <<ruled, spent, standing, undoing, history>>
  BY DEF DebitSession, BTypeOK, AmountIfRuled, Counts
<1>3. \A b \in Actions \ {a} : SessionOwed'[b] = SessionOwed[b] /\ GrantOwed'[b] = GrantOwed[b]
  BY <1>2, LostStays DEF history, accounts, SessionOwed, GrantOwed, AmountIfRuled, Counts, Cost
<1>4. SessionOwed'[a] = SessionOwed[a] + AmountIfRuled(a)
  BY <1>1, <1>2, LostStays DEF SessionOwed, AmountIfRuled, Counts, history
<1>5. GrantOwed'[a] = GrantOwed[a] + 0
  BY <1>1, <1>2, LostStays DEF GrantOwed, Counts, Cost, history
<1> QED
  BY <1>2, <1>3, <1>4, <1>5 DEF Moves, history, BTypeOK

LEMMA DebitExposureMoves ==
  ASSUME BTypeOK, NEW a \in Actions, DebitExposure(a)
  PROVE  Moves(a, 0, Cost(a), total[SessionOf[a]], spent[GrantOf[a]] + Cost(a))
<1> USE AccountsAssumption
<1>1. /\ AmountIfRuled(a) \in Nat /\ Cost(a) \in Nat
      /\ Undebited[a] \in Nat /\ Uncharged[a] \in Nat
  BY OwedTypes
<1>2. /\ pc[a] = "charging" /\ pc'[a] = "confirmed"
      /\ \A b \in Actions \ {a} : pc'[b] = pc[b]
      /\ spent' = [spent EXCEPT ![GrantOf[a]] = @ + Cost(a)]
      /\ UNCHANGED <<ruled, total, standing, undoing, history>>
  BY DEF DebitExposure, BTypeOK
<1>3. \A b \in Actions \ {a} : SessionOwed'[b] = SessionOwed[b] /\ GrantOwed'[b] = GrantOwed[b]
  BY <1>2, LostStays DEF history, accounts, SessionOwed, GrantOwed, AmountIfRuled, Counts, Cost
<1>4. SessionOwed'[a] = SessionOwed[a] + 0
  BY <1>1, <1>2, LostStays DEF SessionOwed, AmountIfRuled, Counts, history
<1>5. GrantOwed'[a] = GrantOwed[a] + Cost(a)
  BY <1>1, <1>2, LostStays DEF GrantOwed, Counts, Cost, history
<1> QED
  BY <1>2, <1>3, <1>4, <1>5 DEF Moves, history, BTypeOK

LEMMA UndoMoves ==
  ASSUME BTypeOK, NEW a \in Actions, Undo(a)
  PROVE  Moves(a, 0, 0, total[SessionOf[a]], spent[GrantOf[a]])
<1> USE AccountsAssumption
<1>1. /\ AmountIfRuled(a) \in Nat /\ Cost(a) \in Nat
      /\ Undebited[a] \in Nat /\ Uncharged[a] \in Nat
  BY OwedTypes
<1>2. /\ a \in standing /\ a \notin standing' /\ undoing[a] = "no" /\ undoing'[a] = "releasing"
      /\ \A b \in Actions \ {a} : undoing'[b] = undoing[b] /\ (b \in standing' <=> b \in standing)
      /\ disturbed \subseteq disturbed'
      /\ UNCHANGED <<pc, ruled, accounts, lapsed, renewed>>
  BY DEF Undo, Undoable, BTypeOK
<1>3. \A b \in Actions \ {a} : SessionOwed'[b] = SessionOwed[b] /\ GrantOwed'[b] = GrantOwed[b]
  BY <1>2, LostStays DEF history, accounts, SessionOwed, GrantOwed, AmountIfRuled, Counts, Cost
<1>4. SessionOwed'[a] = SessionOwed[a] + 0
  BY <1>1, <1>2, LostStays DEF SessionOwed, AmountIfRuled, Counts, history
<1>5. GrantOwed'[a] = GrantOwed[a] + 0
  BY <1>1, <1>2, LostStays DEF GrantOwed, Counts, Cost, history
<1> QED
  BY <1>2, <1>3, <1>4, <1>5 DEF Moves, accounts, BTypeOK

LEMMA ReleaseMoves ==
  ASSUME BTypeOK, NEW a \in Actions, Release(a)
  PROVE  Moves(a, -AmountIfRuled(a), 0, Credited(total[SessionOf[a]], AmountIfRuled(a)),
               spent[GrantOf[a]])
<1> USE AccountsAssumption
<1>1. /\ AmountIfRuled(a) \in Nat /\ Cost(a) \in Nat
      /\ Undebited[a] \in Nat /\ Uncharged[a] \in Nat
  BY OwedTypes
<1>2. /\ undoing[a] = "releasing" /\ undoing'[a] = "refunding"
      /\ \A b \in Actions \ {a} : undoing'[b] = undoing[b]
      /\ total' = [total EXCEPT ![SessionOf[a]] = Credited(@, AmountIfRuled(a))]
      /\ UNCHANGED <<pc, ruled, spent, standing, history>>
  BY DEF Release, BTypeOK, AmountIfRuled, Counts
<1>3. \A b \in Actions \ {a} : SessionOwed'[b] = SessionOwed[b] /\ GrantOwed'[b] = GrantOwed[b]
  BY <1>2, LostStays DEF history, accounts, SessionOwed, GrantOwed, AmountIfRuled, Counts, Cost
<1>4. SessionOwed'[a] = SessionOwed[a] + (-AmountIfRuled(a))
  BY <1>1, <1>2, LostStays DEF SessionOwed, AmountIfRuled, Counts, history
<1>5. GrantOwed'[a] = GrantOwed[a] + 0
  BY <1>1, <1>2, LostStays DEF GrantOwed, Counts, Cost, history
<1> QED
  BY <1>2, <1>3, <1>4, <1>5 DEF Moves, history, BTypeOK

LEMMA RefundMoves ==
  ASSUME BTypeOK, NEW a \in Actions, Refund(a)
  PROVE  Moves(a, 0, -Cost(a), total[SessionOf[a]], Credited(spent[GrantOf[a]], Cost(a)))
<1> USE AccountsAssumption
<1>1. /\ AmountIfRuled(a) \in Nat /\ Cost(a) \in Nat
      /\ Undebited[a] \in Nat /\ Uncharged[a] \in Nat
  BY OwedTypes
<1>2. /\ undoing[a] = "refunding" /\ undoing'[a] = "no"
      /\ \A b \in Actions \ {a} : undoing'[b] = undoing[b]
      /\ spent' = [spent EXCEPT ![GrantOf[a]] = Credited(@, Cost(a))]
      /\ UNCHANGED <<pc, ruled, total, standing, history>>
  BY DEF Refund, BTypeOK
<1>3. \A b \in Actions \ {a} : SessionOwed'[b] = SessionOwed[b] /\ GrantOwed'[b] = GrantOwed[b]
  BY <1>2, LostStays DEF history, accounts, SessionOwed, GrantOwed, AmountIfRuled, Counts, Cost
<1>4. SessionOwed'[a] = SessionOwed[a] + 0
  BY <1>1, <1>2, LostStays DEF SessionOwed, AmountIfRuled, Counts, history
<1>5. GrantOwed'[a] = GrantOwed[a] + (-Cost(a))
  BY <1>1, <1>2, LostStays DEF GrantOwed, Counts, Cost, history
<1> QED
  BY <1>2, <1>3, <1>4, <1>5 DEF Moves, history, BTypeOK

LEMMA CascadeMovesBooks ==
  ASSUME BTypeOK, NEW a \in Actions, CascadeUndo(a)
  PROVE  /\ Moves(a, -AmountIfRuled(a), -Cost(a), total[SessionOf[a]], spent[GrantOf[a]])
         /\ a \in disturbed'
<1> USE AccountsAssumption
<1>1. /\ AmountIfRuled(a) \in Nat /\ Cost(a) \in Nat
      /\ Undebited[a] \in Nat /\ Uncharged[a] \in Nat
  BY OwedTypes
<1>2. /\ a \in standing /\ a \notin standing'
      /\ \A b \in Actions \ {a} : b \in standing' <=> b \in standing
      /\ disturbed' = disturbed \cup {a}
      /\ UNCHANGED <<pc, ruled, accounts, undoing, lapsed, renewed>>
  BY DEF CascadeUndo, Undoable, BTypeOK
<1>3. \A b \in Actions \ {a} : SessionOwed'[b] = SessionOwed[b] /\ GrantOwed'[b] = GrantOwed[b]
  BY <1>2, LostStays DEF history, accounts, SessionOwed, GrantOwed, AmountIfRuled, Counts, Cost
<1>4. SessionOwed'[a] = SessionOwed[a] + (-AmountIfRuled(a))
  BY <1>1, <1>2, LostStays DEF SessionOwed, AmountIfRuled, Counts, history
<1>5. GrantOwed'[a] = GrantOwed[a] + (-Cost(a))
  BY <1>1, <1>2, LostStays DEF GrantOwed, Counts, Cost, history
<1> QED
  BY <1>2, <1>3, <1>4, <1>5 DEF Moves, accounts, BTypeOK


\* The accounts follow what is owed.
Follows(a, x, y, session, grant) ==
  /\ x \in Int /\ y \in Int /\ session \in Nat /\ grant \in Nat
  /\ Moves(a, x, y, session, grant)
  /\ x <= session - total[SessionOf[a]]
  /\ y <= grant - spent[GrantOf[a]]
  /\ CallsIn(SessionOf[a]) \cap disturbed' = {} => x = session - total[SessionOf[a]]
  /\ GrantOf[a] \notin renewed /\ CallsOf(GrantOf[a]) \cap disturbed' = {}
       => y = grant - spent[GrantOf[a]]

BooksKeep ==
  /\ \A s \in Sessions : SessionBooks(s)'
  /\ \A g \in Grants : GrantBooks(g)'

\* Moves whose accounts follow what is owed keep the books.
LEMMA BooksFollow ==
  ASSUME BTypeOK, BTypeOK',
         \A s \in Sessions : SessionBooks(s), \A g \in Grants : GrantBooks(g),
         NEW a \in Actions, NEW x, NEW y, NEW session, NEW grant, Follows(a, x, y, session, grant)
  PROVE  BooksKeep
<1> USE DEF Follows
<1> USE AccountsAssumption
<1>1. \A b \in Actions : /\ SessionOwed[b] \in Int /\ GrantOwed[b] \in Int
                         /\ SessionOwed'[b] \in Int /\ GrantOwed'[b] \in Int
  <2>1. \A b \in Actions : SessionOwed[b] \in Int /\ GrantOwed[b] \in Int
    BY OwedTypes
  <2> QED
    BY <2>1 DEF Moves
<1>2. ASSUME NEW s \in Sessions
      PROVE  SessionBooks(s)'
  <2> DEFINE D == CallsIn(s)
  <2>1. IsFiniteSet(D) /\ D \subseteq Actions /\ (a \in D <=> s = SessionOf[a]) /\ CallsIn(s)' = D
    BY OwedTypes DEF CallsIn
  <2>2. total[s] \in Int /\ total'[s] \in Int
    BY DEF BTypeOK
  <2>3. \A b \in D : b # a => SessionOwed'[b] = SessionOwed[b]
    BY <2>1 DEF Moves
  <2>4. \A b \in D : SessionOwed[b] \in Int /\ SessionOwed'[b] \in Int
    BY <1>1, <2>1
  <2>5. /\ a \in D => SessionOwed'[a] - SessionOwed[a] = x /\ total'[s] = session
        /\ a \notin D => total'[s] = total[s]
    BY <1>1, <2>1 DEF Moves
  <2>6. /\ a \in D => SessionOwed'[a] - SessionOwed[a] <= total'[s] - total[s]
        /\ a \notin D => total[s] <= total'[s]
    BY <2>1, <2>2, <2>5
  <2>7. D \cap disturbed' = {} =>
          /\ a \in D => SessionOwed'[a] - SessionOwed[a] = total'[s] - total[s]
          /\ a \notin D => total[s] = total'[s]
          /\ D \cap disturbed = {}
    BY <2>1, <2>5 DEF Moves
  <2>8. /\ TotalOf(SessionOwed, D) <= total[s]
        /\ D \cap disturbed = {} => TotalOf(SessionOwed, D) = total[s]
    BY DEF SessionBooks
  <2>9. /\ TotalOf(SessionOwed', D) <= total'[s]
        /\ D \cap disturbed' = {} => TotalOf(SessionOwed', D) = total'[s]
    <3> DEFINE f == SessionOwed
               h == SessionOwed'
               old == total[s]
               new == total'[s]
    <3>1. IsFiniteSet(D) /\ (\A b \in D : f[b] \in Int /\ h[b] \in Int)
          /\ (\A b \in D : b # a => h[b] = f[b]) /\ old \in Int /\ new \in Int
      BY <2>1, <2>2, <2>3, <2>4
    <3>2. TotalOf(f, D) <= old /\ (a \in D => h[a] - f[a] <= new - old) /\ (a \notin D => old <= new)
      BY <2>6, <2>8
    <3>3. D \cap disturbed' = {} =>
            TotalOf(f, D) = old /\ (a \in D => h[a] - f[a] = new - old) /\ (a \notin D => old = new)
      BY <2>7, <2>8
    <3> HIDE DEF D, f, h, old, new
    <3>4. TotalOf(h, D) <= new
      BY <3>1, <3>2, AccountCovers, ZenonT(60)
    <3>5. ASSUME TotalOf(f, D) = old, a \in D => h[a] - f[a] = new - old, a \notin D => old = new
          PROVE  TotalOf(h, D) = new
      <4>1. TotalOf(f, D) \in Int /\ TotalOf(h, D) \in Int
        BY <3>1, SumRemove
      <4>2. old <= TotalOf(f, D) /\ (a \in D => new - old <= h[a] - f[a]) /\ (a \notin D => new <= old)
        BY <3>1, <3>5, <4>1
      <4>3. new <= TotalOf(h, D)
        BY <3>1, <4>2, AccountWithin, ZenonT(60)
      <4> QED
        BY <3>1, <3>4, <4>1, <4>3
    <3> QED
      BY <3>3, <3>4, <3>5 DEF f, h, old, new
  <2> QED
    BY <2>1, <2>9 DEF SessionBooks, TotalOf, MapThenSumSet, MapThenFoldSet
<1>3. ASSUME NEW g \in Grants, g \notin renewed
      PROVE  /\ TotalOf(GrantOwed', CallsOf(g)) <= spent'[g]
             /\ CallsOf(g) \cap disturbed' = {} => TotalOf(GrantOwed', CallsOf(g)) = spent'[g]
  <2> DEFINE D == CallsOf(g)
  <2>1. IsFiniteSet(D) /\ D \subseteq Actions /\ (a \in D <=> g = GrantOf[a])
    BY OwedTypes DEF CallsOf
  <2>2. spent[g] \in Int /\ spent'[g] \in Int
    BY DEF BTypeOK
  <2>3. \A b \in D : b # a => GrantOwed'[b] = GrantOwed[b]
    BY <2>1 DEF Moves
  <2>4. \A b \in D : GrantOwed[b] \in Int /\ GrantOwed'[b] \in Int
    BY <1>1, <2>1
  <2>5. /\ a \in D => GrantOwed'[a] - GrantOwed[a] = y /\ spent'[g] = grant
        /\ a \notin D => spent'[g] = spent[g]
    BY <1>1, <2>1 DEF Moves
  <2>6. /\ a \in D => GrantOwed'[a] - GrantOwed[a] <= spent'[g] - spent[g]
        /\ a \notin D => spent[g] <= spent'[g]
    BY <2>1, <2>2, <2>5
  <2>7. D \cap disturbed' = {} =>
          /\ a \in D => GrantOwed'[a] - GrantOwed[a] = spent'[g] - spent[g]
          /\ a \notin D => spent[g] = spent'[g]
          /\ D \cap disturbed = {}
    BY <1>3, <2>1, <2>5 DEF Moves
  <2>8. /\ TotalOf(GrantOwed, D) <= spent[g]
        /\ D \cap disturbed = {} => TotalOf(GrantOwed, D) = spent[g]
    BY <1>3 DEF GrantBooks
  <2>9. /\ TotalOf(GrantOwed', D) <= spent'[g]
        /\ D \cap disturbed' = {} => TotalOf(GrantOwed', D) = spent'[g]
    <3> DEFINE f == GrantOwed
               h == GrantOwed'
               old == spent[g]
               new == spent'[g]
    <3>1. IsFiniteSet(D) /\ (\A b \in D : f[b] \in Int /\ h[b] \in Int)
          /\ (\A b \in D : b # a => h[b] = f[b]) /\ old \in Int /\ new \in Int
      BY <2>1, <2>2, <2>3, <2>4
    <3>2. TotalOf(f, D) <= old /\ (a \in D => h[a] - f[a] <= new - old) /\ (a \notin D => old <= new)
      BY <2>6, <2>8
    <3>3. D \cap disturbed' = {} =>
            TotalOf(f, D) = old /\ (a \in D => h[a] - f[a] = new - old) /\ (a \notin D => old = new)
      BY <2>7, <2>8
    <3> HIDE DEF D, f, h, old, new
    <3>4. TotalOf(h, D) <= new
      BY <3>1, <3>2, AccountCovers, ZenonT(60)
    <3>5. ASSUME TotalOf(f, D) = old, a \in D => h[a] - f[a] = new - old, a \notin D => old = new
          PROVE  TotalOf(h, D) = new
      <4>1. TotalOf(f, D) \in Int /\ TotalOf(h, D) \in Int
        BY <3>1, SumRemove
      <4>2. old <= TotalOf(f, D) /\ (a \in D => new - old <= h[a] - f[a]) /\ (a \notin D => new <= old)
        BY <3>1, <3>5, <4>1
      <4>3. new <= TotalOf(h, D)
        BY <3>1, <4>2, AccountWithin, ZenonT(60)
      <4> QED
        BY <3>1, <3>4, <4>1, <4>3
    <3> QED
      BY <3>3, <3>4, <3>5 DEF f, h, old, new
  <2> QED
    BY <2>9
<1>4. ASSUME NEW g \in Grants
      PROVE  GrantBooks(g)'
  <2>1. CallsOf(g)' = CallsOf(g) /\ renewed' = renewed
    BY DEF CallsOf, Moves
  <2> QED
    BY <1>3, <2>1 DEF GrantBooks, TotalOf, MapThenSumSet, MapThenFoldSet
<1> QED
  BY <1>2, <1>4 DEF BooksKeep

\* Every step keeps what is said of each call.
LEMMA CallStep ==
  ASSUME BTypeOK, NEW a \in Actions, CallInv(a), [Next]_vars
  PROVE  CallInv(a)'
<1> USE AccountsAssumption
<1>0. confirms[a] \in Nat /\ lapsed[a] \in Nat /\ MaxConfirms \in Nat
  BY DEF BTypeOK
<1>1. ASSUME NEW b \in Actions,
             \/ MatchBudgetRule(b)
             \/ \E approved \in BOOLEAN : FallThrough(b, approved)
             \/ CheckExposure(b)
             \/ ComesToNothing(b)
      PROVE  CallInv(a)'
  <2>1. /\ pc[b] \in {"idle", "gated", "allowed"} /\ pc'[b] \in {"gated", "allowed", "refused"}
        /\ \A c \in Actions \ {b} : pc'[c] = pc[c]
        /\ UNCHANGED <<standing, undoing, confirms, disturbed, lapsed>>
    BY <1>1 DEF MatchBudgetRule, FallThrough, CheckExposure, ComesToNothing, Start, BTypeOK, history
  <2> QED
    BY <1>0, <2>1 DEF CallInv
<1>2. ASSUME NEW b \in Actions, NEW written \in BOOLEAN, ConfirmJournal(b, written)
      PROVE  CallInv(a)'
  <2>1. CASE a = b
    <3>1. /\ pc'[a] = IF written THEN "debiting" ELSE "confirmed"
          /\ a \in standing' /\ confirms'[a] = confirms[a] + 1
          /\ confirms[a] < MaxConfirms /\ undoing' = undoing
          /\ lapsed'[a] = lapsed[a] + IF written THEN 0 ELSE 1
          /\ disturbed' = IF confirms[a] > 0 \/ ~written THEN disturbed \cup {a} ELSE disturbed
      BY <1>2, <2>1 DEF ConfirmJournal, BTypeOK
    <3> QED
      BY <1>0, <3>1 DEF CallInv
  <2>2. CASE a # b
    <3>1. /\ pc'[a] = pc[a] /\ (a \in standing' <=> a \in standing) /\ confirms'[a] = confirms[a]
          /\ undoing' = undoing /\ (a \in disturbed' <=> a \in disturbed) /\ lapsed'[a] = lapsed[a]
      BY <1>2, <2>2 DEF ConfirmJournal, BTypeOK
    <3> QED
      BY <1>0, <3>1 DEF CallInv
  <2> QED
    BY <2>1, <2>2
<1>3. ASSUME NEW b \in Actions, DebitSession(b) \/ DebitExposure(b)
      PROVE  CallInv(a)'
  <2>1. /\ pc[b] \in {"debiting", "charging"} /\ pc'[b] \in {"charging", "confirmed"}
        /\ \A c \in Actions \ {b} : pc'[c] = pc[c]
        /\ UNCHANGED <<standing, undoing, confirms, disturbed, lapsed>>
    BY <1>3 DEF DebitSession, DebitExposure, BTypeOK, history
  <2> QED
    BY <1>0, <2>1 DEF CallInv
<1>4. ASSUME NEW b \in Actions, Undo(b)
      PROVE  CallInv(a)'
  <2>1. CASE a = b
    <3>1. /\ a \in standing /\ pc' = pc /\ confirms' = confirms /\ lapsed' = lapsed
          /\ disturbed' = IF pc[a] = "confirmed" THEN disturbed ELSE disturbed \cup {a}
      BY <1>4, <2>1 DEF Undo, Undoable
    <3> QED
      BY <1>0, <3>1 DEF CallInv
  <2>2. CASE a # b
    <3>1. /\ pc' = pc /\ (a \in standing' <=> a \in standing) /\ confirms' = confirms /\ lapsed' = lapsed
          /\ undoing'[a] = undoing[a] /\ (a \in disturbed' <=> a \in disturbed)
      BY <1>4, <2>2 DEF Undo, BTypeOK
    <3> QED
      BY <1>0, <3>1 DEF CallInv
  <2> QED
    BY <2>1, <2>2
<1>5. ASSUME NEW b \in Actions, Release(b) \/ Refund(b)
      PROVE  CallInv(a)'
  <2>1. /\ undoing[b] # "no" /\ (\A c \in Actions \ {b} : undoing'[c] = undoing[c])
        /\ UNCHANGED <<pc, standing, confirms, disturbed, lapsed>>
    BY <1>5 DEF Release, Refund, BTypeOK, history
  <2> QED
    BY <1>0, <2>1 DEF CallInv
<1>6. ASSUME NEW b \in Actions, CascadeUndo(b)
      PROVE  CallInv(a)'
  <2>1. /\ standing' = standing \ {b} /\ disturbed' = disturbed \cup {b}
        /\ UNCHANGED <<pc, undoing, confirms, lapsed>>
    BY <1>6 DEF CascadeUndo
  <2> QED
    BY <1>0, <2>1 DEF CallInv
<1>7. CASE (\E g \in Grants : Reset(g)) \/ UNCHANGED vars
  <2>1. UNCHANGED <<pc, standing, undoing, confirms, disturbed, lapsed>>
    BY <1>7 DEF Reset, vars, history
  <2> QED
    BY <2>1 DEF CallInv
<1> QED
  BY <1>1, <1>2, <1>3, <1>4, <1>5, <1>6, <1>7 DEF Next

\* An undisturbed account holds the price of a call whose undo has not been credited.
LEMMA Solvent ==
  ASSUME BooksInv, NEW a \in Actions
  PROVE  /\ undoing[a] = "releasing" /\ CallsIn(SessionOf[a]) \cap disturbed = {}
              => AmountIfRuled(a) <= total[SessionOf[a]]
         /\ undoing[a] # "no" /\ GrantOf[a] \notin renewed /\ CallsOf(GrantOf[a]) \cap disturbed = {}
              => Cost(a) <= spent[GrantOf[a]]
<1> USE AccountsAssumption
<1>1. BTypeOK /\ \A b \in Actions : CallInv(b)
  BY DEF BooksInv
<1>2. \A b \in Actions : AmountIfRuled(b) \in Nat /\ Cost(b) \in Nat
  BY <1>1, OwedTypes
<1>6. \A b \in Actions \ disturbed : Undebited[b] = 0 /\ Uncharged[b] = 0
  BY <1>1, OwedTypes DEF CallInv
<1>3. \A b \in Actions \ disturbed : SessionOwed[b] \in Nat /\ GrantOwed[b] \in Nat
  BY <1>1, <1>2, <1>6 DEF SessionOwed, GrantOwed, Counts, CallInv
<1>4. ASSUME undoing[a] = "releasing", CallsIn(SessionOf[a]) \cap disturbed = {}
      PROVE  AmountIfRuled(a) <= total[SessionOf[a]]
  <2> DEFINE D == CallsIn(SessionOf[a])
  <2>1. IsFiniteSet(D) /\ D \subseteq Actions /\ a \in D
    BY <1>1, OwedTypes DEF CallsIn
  <2>2. \A b \in D : SessionOwed[b] \in Nat
    BY <1>3, <1>4, <2>1
  <2>3. SessionOwed[a] <= TotalOf(SessionOwed, D)
    BY <2>1, <2>2, OneOfAll
  <2>4. TotalOf(SessionOwed, D) = total[SessionOf[a]]
    BY <1>4 DEF BooksInv, SessionBooks
  <2>5. AmountIfRuled(a) <= SessionOwed[a]
    BY <1>1, <1>2, <1>4, <1>6, <2>1 DEF SessionOwed, Counts, CallInv
  <2>6. total[SessionOf[a]] \in Int /\ SessionOwed[a] \in Int /\ AmountIfRuled(a) \in Int
    BY <1>1, <1>2, <2>1, <2>2 DEF BTypeOK
  <2> QED
    BY <2>3, <2>4, <2>5, <2>6
<1>5. ASSUME undoing[a] # "no", GrantOf[a] \notin renewed, CallsOf(GrantOf[a]) \cap disturbed = {}
      PROVE  Cost(a) <= spent[GrantOf[a]]
  <2> DEFINE D == CallsOf(GrantOf[a])
  <2>1. IsFiniteSet(D) /\ D \subseteq Actions /\ a \in D
    BY <1>1, OwedTypes DEF CallsOf
  <2>2. \A b \in D : GrantOwed[b] \in Nat
    BY <1>3, <1>5, <2>1
  <2>3. GrantOwed[a] <= TotalOf(GrantOwed, D)
    BY <2>1, <2>2, OneOfAll
  <2>4. TotalOf(GrantOwed, D) = spent[GrantOf[a]]
    BY <1>5 DEF BooksInv, GrantBooks
  <2>5. Cost(a) <= GrantOwed[a]
    BY <1>1, <1>2, <1>5, <1>6, <2>1 DEF GrantOwed, Counts, CallInv
  <2>6. spent[GrantOf[a]] \in Int /\ GrantOwed[a] \in Int /\ Cost(a) \in Int
    BY <1>1, <1>2, <2>1, <2>2 DEF BTypeOK
  <2> QED
    BY <2>3, <2>4, <2>5, <2>6
<1> QED
  BY <1>4, <1>5

\* The books are kept by every step.
LEMMA BooksStep ==
  ASSUME BooksInv, [Next]_vars
  PROVE  BooksInv'
<1> USE AccountsAssumption
<1>1. BTypeOK /\ BTypeOK'
  BY TypeStep DEF BooksInv
<1>2. \A a \in Actions : CallInv(a) /\ CallInv(a)'
  BY <1>1, CallStep DEF BooksInv
<1>3. (\A s \in Sessions : SessionBooks(s)) /\ (\A g \in Grants : GrantBooks(g))
  BY DEF BooksInv
<1>4. \A a \in Actions :
        /\ AmountIfRuled(a) \in Nat /\ Cost(a) \in Nat
        /\ SessionOf[a] \in Sessions /\ GrantOf[a] \in Grants
        /\ total[SessionOf[a]] \in Nat /\ spent[GrantOf[a]] \in Nat
  BY <1>1, OwedTypes DEF BTypeOK
<1>5. ASSUME NEW a \in Actions,
             Moves(a, 0, 0, total[SessionOf[a]], spent[GrantOf[a]])
      PROVE  BooksKeep
  <2>1. Follows(a, 0, 0, total[SessionOf[a]], spent[GrantOf[a]])
    BY <1>4, <1>5 DEF Follows
  <2> QED
    BY <1>1, <1>3, <2>1, BooksFollow
<1>6. ASSUME NEW a \in Actions,
             \/ MatchBudgetRule(a)
             \/ \E approved \in BOOLEAN : FallThrough(a, approved)
             \/ CheckExposure(a)
             \/ ComesToNothing(a)
      PROVE  BooksKeep
  BY <1>1, <1>2, <1>5, <1>6, QuietMoves
<1>7. ASSUME NEW a \in Actions, NEW written \in BOOLEAN, ConfirmJournal(a, written)
      PROVE  BooksKeep
  <2>1. PICK x, y \in Int :
          /\ Moves(a, x, y, total[SessionOf[a]], spent[GrantOf[a]])
          /\ x <= 0 /\ y <= 0
          /\ a \notin disturbed' => x = 0 /\ y = 0
    BY <1>1, <1>2, <1>7, ConfirmMoves
  <2>2. a \in CallsIn(SessionOf[a]) /\ a \in CallsOf(GrantOf[a])
    BY DEF CallsIn, CallsOf
  <2>3. /\ x <= total[SessionOf[a]] - total[SessionOf[a]]
        /\ y <= spent[GrantOf[a]] - spent[GrantOf[a]]
        /\ CallsIn(SessionOf[a]) \cap disturbed' = {} => x = total[SessionOf[a]] - total[SessionOf[a]]
        /\ CallsOf(GrantOf[a]) \cap disturbed' = {} => y = spent[GrantOf[a]] - spent[GrantOf[a]]
    BY <1>4, <2>1, <2>2
  <2>4. Follows(a, x, y, total[SessionOf[a]], spent[GrantOf[a]])
    BY <1>4, <2>1, <2>3 DEF Follows
  <2> QED
    BY <1>1, <1>3, <2>4, BooksFollow
<1>8. ASSUME NEW a \in Actions, DebitSession(a)
      PROVE  BooksKeep
  <2> DEFINE session == total[SessionOf[a]] + AmountIfRuled(a)
             grant == spent[GrantOf[a]]
  <2>1. Moves(a, AmountIfRuled(a), 0, session, grant)
    BY <1>1, <1>8, DebitSessionMoves
  <2>2. /\ session \in Nat /\ grant \in Nat /\ AmountIfRuled(a) \in Int
        /\ AmountIfRuled(a) = session - total[SessionOf[a]] /\ 0 = grant - spent[GrantOf[a]]
        /\ AmountIfRuled(a) <= session - total[SessionOf[a]] /\ 0 <= grant - spent[GrantOf[a]]
    BY <1>4
  <2>5. Follows(a, AmountIfRuled(a), 0, session, grant)
    BY <2>1, <2>2 DEF Follows
  <2> QED
    BY <1>1, <1>3, <2>5, BooksFollow
<1>9. ASSUME NEW a \in Actions, DebitExposure(a)
      PROVE  BooksKeep
  <2> DEFINE session == total[SessionOf[a]]
             grant == spent[GrantOf[a]] + Cost(a)
  <2>1. Moves(a, 0, Cost(a), session, grant)
    BY <1>1, <1>9, DebitExposureMoves
  <2>2. /\ session \in Nat /\ grant \in Nat /\ Cost(a) \in Int
        /\ 0 = session - total[SessionOf[a]] /\ Cost(a) = grant - spent[GrantOf[a]]
        /\ 0 <= session - total[SessionOf[a]] /\ Cost(a) <= grant - spent[GrantOf[a]]
    BY <1>4
  <2>5. Follows(a, 0, Cost(a), session, grant)
    BY <2>1, <2>2 DEF Follows
  <2> QED
    BY <1>1, <1>3, <2>5, BooksFollow
<1>10. ASSUME NEW a \in Actions, Undo(a)
       PROVE  BooksKeep
  BY <1>1, <1>5, <1>10, UndoMoves
<1>11. ASSUME NEW a \in Actions, Release(a)
       PROVE  BooksKeep
  <2> DEFINE x == -AmountIfRuled(a)
             session == Credited(total[SessionOf[a]], AmountIfRuled(a))
             grant == spent[GrantOf[a]]
  <2>1. Moves(a, x, 0, session, grant)
    BY <1>1, <1>11, ReleaseMoves
  <2>2. /\ x \in Int /\ session \in Nat /\ grant \in Nat
        /\ x <= session - total[SessionOf[a]] /\ 0 <= grant - spent[GrantOf[a]]
        /\ 0 = grant - spent[GrantOf[a]]
        /\ AmountIfRuled(a) <= total[SessionOf[a]] => x = session - total[SessionOf[a]]
    BY <1>4 DEF Credited
  <2>3. undoing[a] = "releasing" /\ disturbed' = disturbed
    BY <1>11 DEF Release, history
  <2>4. CallsIn(SessionOf[a]) \cap disturbed' = {} => x = session - total[SessionOf[a]]
    BY <2>2, <2>3, Solvent
  <2>5. Follows(a, x, 0, session, grant)
    BY <2>1, <2>2, <2>4 DEF Follows
  <2> QED
    BY <1>1, <1>3, <2>5, BooksFollow
<1>12. ASSUME NEW a \in Actions, Refund(a)
       PROVE  BooksKeep
  <2> DEFINE y == -Cost(a)
             session == total[SessionOf[a]]
             grant == Credited(spent[GrantOf[a]], Cost(a))
  <2>1. Moves(a, 0, y, session, grant)
    BY <1>1, <1>12, RefundMoves
  <2>2. /\ y \in Int /\ session \in Nat /\ grant \in Nat
        /\ 0 <= session - total[SessionOf[a]] /\ y <= grant - spent[GrantOf[a]]
        /\ 0 = session - total[SessionOf[a]]
        /\ Cost(a) <= spent[GrantOf[a]] => y = grant - spent[GrantOf[a]]
    BY <1>4 DEF Credited
  <2>3. undoing[a] # "no" /\ disturbed' = disturbed
    BY <1>12 DEF Refund, history
  <2>4. GrantOf[a] \notin renewed /\ CallsOf(GrantOf[a]) \cap disturbed' = {}
          => y = grant - spent[GrantOf[a]]
    BY <2>2, <2>3, Solvent
  <2>5. Follows(a, 0, y, session, grant)
    BY <2>1, <2>2, <2>4 DEF Follows
  <2> QED
    BY <1>1, <1>3, <2>5, BooksFollow
<1>13. ASSUME NEW a \in Actions, CascadeUndo(a)
       PROVE  BooksKeep
  <2> DEFINE x == -AmountIfRuled(a)
             y == -Cost(a)
             session == total[SessionOf[a]]
             grant == spent[GrantOf[a]]
  <2>1. Moves(a, x, y, session, grant) /\ a \in disturbed'
    BY <1>1, <1>13, CascadeMovesBooks
  <2>2. a \in CallsIn(SessionOf[a]) /\ a \in CallsOf(GrantOf[a])
    BY DEF CallsIn, CallsOf
  <2>3. /\ x \in Int /\ y \in Int /\ session \in Nat /\ grant \in Nat
        /\ x <= session - total[SessionOf[a]] /\ y <= grant - spent[GrantOf[a]]
    BY <1>4
  <2>4. CallsIn(SessionOf[a]) \cap disturbed' # {} /\ CallsOf(GrantOf[a]) \cap disturbed' # {}
    BY <2>1, <2>2
  <2>5. Follows(a, x, y, session, grant)
    BY <2>1, <2>3, <2>4 DEF Follows
  <2> QED
    BY <1>1, <1>3, <2>5, BooksFollow
<1>14. ASSUME NEW h \in Grants, Reset(h)
       PROVE  BooksKeep
  <2>1. /\ UNCHANGED <<pc, ruled, total, standing, undoing, disturbed, lapsed>>
        /\ renewed' = renewed \cup {h}
        /\ \A g \in Grants \ {h} : spent'[g] = spent[g]
    BY <1>1, <1>14 DEF Reset, BTypeOK
  <2>2. SessionOwed' = SessionOwed /\ GrantOwed' = GrantOwed
    BY <2>1 DEF SessionOwed, GrantOwed, AmountIfRuled, Undebited, Uncharged, Cost
  <2>3. \A s \in Sessions : SessionBooks(s)'
    BY <1>3, <2>1, <2>2 DEF SessionBooks, CallsIn
  <2>4. \A g \in Grants : GrantBooks(g)'
    BY <1>3, <2>1, <2>2 DEF GrantBooks, CallsOf
  <2> QED
    BY <2>3, <2>4 DEF BooksKeep
<1>15. ASSUME UNCHANGED vars
       PROVE  BooksKeep
  <2>1. UNCHANGED <<pc, ruled, total, spent, standing, undoing, disturbed, lapsed, renewed>>
    BY <1>15 DEF vars, accounts, history
  <2>2. SessionOwed' = SessionOwed /\ GrantOwed' = GrantOwed
    BY <2>1 DEF SessionOwed, GrantOwed, AmountIfRuled, Undebited, Uncharged, Cost
  <2> QED
    BY <1>3, <2>1, <2>2 DEF BooksKeep, SessionBooks, GrantBooks, CallsIn, CallsOf
<1>16. BooksKeep
  BY <1>6, <1>7, <1>8, <1>9, <1>10, <1>11, <1>12, <1>13, <1>14, <1>15 DEF Next
<1> QED
  BY <1>1, <1>2, <1>16 DEF BooksInv, BooksKeep

\* The sum of differences is the difference of the sums.
LEMMA SumMinus ==
  ASSUME NEW D, IsFiniteSet(D), NEW f, NEW g, NEW h,
         \A x \in D : f[x] \in Int /\ g[x] \in Int /\ h[x] = f[x] - g[x]
  PROVE  /\ TotalOf(h, D) = TotalOf(f, D) - TotalOf(g, D)
         /\ TotalOf(f, D) \in Int /\ TotalOf(g, D) \in Int
<1> DEFINE G == {S \in SUBSET D : TotalOf(h, S) = TotalOf(f, S) - TotalOf(g, S)}
<1>1. {} \in G
  <2>1. TotalOf(h, {}) = 0 /\ TotalOf(f, {}) = 0 /\ TotalOf(g, {}) = 0
    BY SumPick, FS_EmptySet
  <2> QED
    BY <2>1
<1>2. ASSUME NEW S \in G, NEW x \in D \ S
      PROVE  S \cup {x} \in G
  <2>1. IsFiniteSet(S) /\ TotalOf(h, S) = TotalOf(f, S) - TotalOf(g, S)
    BY FS_Subset
  <2>2. \A y \in D : h[y] \in Int
    OBVIOUS
  <2>3. TotalOf(f, S \cup {x}) = f[x] + TotalOf(f, S)
    BY <2>1, SumInsert
  <2>4. TotalOf(g, S \cup {x}) = g[x] + TotalOf(g, S)
    BY <2>1, SumInsert
  <2>5. TotalOf(h, S \cup {x}) = h[x] + TotalOf(h, S)
    BY <2>1, <2>2, SumInsert
  <2>6. TotalOf(f, S) \in Int /\ TotalOf(g, S) \in Int
    BY <2>1, SumRemove
  <2>7. h[x] = f[x] - g[x] /\ f[x] \in Int /\ g[x] \in Int
    OBVIOUS
  <2>8. TotalOf(h, S \cup {x}) = TotalOf(f, S \cup {x}) - TotalOf(g, S \cup {x})
    BY <2>1, <2>3, <2>4, <2>5, <2>6, <2>7
  <2> QED
    BY <2>8
<1> HIDE DEF G
<1>3. D \in G
  BY <1>1, <1>2, FiniteSetsInduct
<1>4. TotalOf(f, D) \in Int /\ TotalOf(g, D) \in Int
  BY SumRemove
<1> QED
  BY <1>3, <1>4 DEF G

\* Where nothing is under way, what is owed is what stands less what was lost.
LEMMA OwedStands ==
  ASSUME BTypeOK
  PROVE  /\ \A s : Settled(CallsIn(s)) =>
              /\ TotalOf(SessionOwed, CallsIn(s)) =
                   TotalOf(AmountOf, CallsIn(s) \cap standing \cap ruled) - TotalOf(Undebited, CallsIn(s))
              /\ TotalOf(AmountOf, CallsIn(s) \cap standing \cap ruled) \in Int
              /\ TotalOf(Undebited, CallsIn(s)) \in Int
         /\ \A g : Settled(CallsOf(g)) =>
              /\ TotalOf(GrantOwed, CallsOf(g)) =
                   TotalOf(CostOf, CallsOf(g) \cap standing) - TotalOf(Uncharged, CallsOf(g))
              /\ TotalOf(CostOf, CallsOf(g) \cap standing) \in Int
              /\ TotalOf(Uncharged, CallsOf(g)) \in Int
<1> USE AccountsAssumption
<1>1. \A a \in Actions : /\ AmountIfRuled(a) \in Nat /\ Cost(a) \in Nat /\ AmountOf[a] \in Nat
                         /\ Undebited[a] \in Nat /\ Uncharged[a] \in Nat
  BY OwedTypes
<1>2. ASSUME NEW s, Settled(CallsIn(s))
      PROVE  /\ TotalOf(SessionOwed, CallsIn(s)) =
                  TotalOf(AmountOf, CallsIn(s) \cap standing \cap ruled) - TotalOf(Undebited, CallsIn(s))
             /\ TotalOf(AmountOf, CallsIn(s) \cap standing \cap ruled) \in Int
             /\ TotalOf(Undebited, CallsIn(s)) \in Int
  <2> DEFINE D == CallsIn(s)
             T == D \cap standing \cap ruled
             f == [x \in Actions |-> Counts(x \in standing, AmountIfRuled(x))]
  <2>1. IsFiniteSet(D) /\ D \subseteq Actions /\ IsFiniteSet(T) /\ T \subseteq D
    BY OwedTypes, FS_Subset
  <2>2. /\ \A x \in D : f[x] \in Int /\ Undebited[x] \in Int /\ SessionOwed[x] = f[x] - Undebited[x]
        /\ \A x \in D \ T : f[x] = 0
        /\ \A x \in T : f[x] = AmountOf[x]
    BY <1>1, <1>2, <2>1 DEF Settled, SessionOwed, AmountIfRuled, Counts
  <2> HIDE DEF D, T, f
  <2>3. /\ TotalOf(SessionOwed, D) = TotalOf(f, D) - TotalOf(Undebited, D)
        /\ TotalOf(f, D) \in Int /\ TotalOf(Undebited, D) \in Int
    BY <2>1, <2>2, SumMinus
  <2>4. TotalOf(f, D) = TotalOf(f, T)
    BY <2>1, <2>2, SumFilter
  <2>5. TotalOf(f, T) = TotalOf(AmountOf, T)
    BY <2>1, <2>2, SumSame
  <2> QED
    BY <2>3, <2>4, <2>5 DEF D, T
<1>3. ASSUME NEW g, Settled(CallsOf(g))
      PROVE  /\ TotalOf(GrantOwed, CallsOf(g)) =
                  TotalOf(CostOf, CallsOf(g) \cap standing) - TotalOf(Uncharged, CallsOf(g))
             /\ TotalOf(CostOf, CallsOf(g) \cap standing) \in Int
             /\ TotalOf(Uncharged, CallsOf(g)) \in Int
  <2> DEFINE D == CallsOf(g)
             T == D \cap standing
             f == [x \in Actions |-> Counts(x \in standing, Cost(x))]
  <2>1. IsFiniteSet(D) /\ D \subseteq Actions /\ IsFiniteSet(T) /\ T \subseteq D
    BY OwedTypes, FS_Subset
  <2>2. /\ \A x \in D : f[x] \in Int /\ Uncharged[x] \in Int /\ GrantOwed[x] = f[x] - Uncharged[x]
        /\ \A x \in D \ T : f[x] = 0
        /\ \A x \in T : f[x] = CostOf[x]
    BY <1>1, <1>3, <2>1 DEF Settled, GrantOwed, CostOf, Counts
  <2> HIDE DEF D, T, f
  <2>3. /\ TotalOf(GrantOwed, D) = TotalOf(f, D) - TotalOf(Uncharged, D)
        /\ TotalOf(f, D) \in Int /\ TotalOf(Uncharged, D) \in Int
    <3> DEFINE lost == Uncharged
               owed == GrantOwed
    <3>1. IsFiniteSet(D) /\ \A x \in D : f[x] \in Int /\ lost[x] \in Int /\ owed[x] = f[x] - lost[x]
      BY <2>1, <2>2
    <3> HIDE DEF lost, owed
    <3>2. /\ TotalOf(owed, D) = TotalOf(f, D) - TotalOf(lost, D)
          /\ TotalOf(f, D) \in Int /\ TotalOf(lost, D) \in Int
      BY <3>1, SumMinus
    <3> QED
      BY <3>2 DEF lost, owed
  <2>4. TotalOf(f, D) = TotalOf(f, T)
    BY <2>1, <2>2, SumFilter
  <2>5. TotalOf(f, T) = TotalOf(CostOf, T)
    BY <2>1, <2>2, SumSame
  <2> QED
    BY <2>3, <2>4, <2>5 DEF D, T
<1> QED
  BY <1>2, <1>3

\* What is owed is kept in every reachable state.
THEOREM BooksKept == Spec => []BooksInv
<1>1. Init => BooksInv
  <2> SUFFICES ASSUME Init PROVE BooksInv
    OBVIOUS
  <2> USE AccountsAssumption
  <2>1. BTypeOK
    BY DEF Init, BTypeOK, Stages
  <2>2. \A a \in Actions : CallInv(a)
    BY DEF Init, CallInv
  <2>3. \A a \in Actions : SessionOwed[a] = 0 /\ GrantOwed[a] = 0
    <3>1. \A a \in Actions : Undebited[a] = 0 /\ Uncharged[a] = 0
      BY <2>1, OwedTypes DEF Init
    <3> QED
      BY <3>1 DEF Init, SessionOwed, GrantOwed, Counts
  <2>4. \A D \in SUBSET Actions : TotalOf(SessionOwed, D) = 0 /\ TotalOf(GrantOwed, D) = 0
    <3> SUFFICES ASSUME NEW D \in SUBSET Actions
                 PROVE  TotalOf(SessionOwed, D) = 0 /\ TotalOf(GrantOwed, D) = 0
      OBVIOUS
    <3>1. IsFiniteSet(D)
      BY FS_Subset
    <3>2. TotalOf(SessionOwed, D) = TotalOf(SessionOwed, {}) /\ TotalOf(GrantOwed, D) = TotalOf(GrantOwed, {})
      BY <2>3, <3>1, SumFilter
    <3>3. TotalOf(SessionOwed, {}) = 0 /\ TotalOf(GrantOwed, {}) = 0
      BY <3>1, SumPick
    <3> QED
      BY <3>2, <3>3
  <2>5. \A s \in Sessions : SessionBooks(s)
    BY <2>4 DEF SessionBooks, CallsIn, Init
  <2>6. \A g \in Grants : GrantBooks(g)
    BY <2>4 DEF GrantBooks, CallsOf, Init
  <2> QED
    BY <2>1, <2>2, <2>5, <2>6 DEF BooksInv
<1>2. BooksInv /\ [Next]_vars => BooksInv'
  BY BooksStep
<1> QED
  BY <1>1, <1>2, PTL DEF Spec

\* For any calls, prices, and interleaving of confirms, undos, cascades and renewals:
\* no credit frees headroom that a standing effect occupies, but for one charge where
\* the ledger failed a confirm before its debits; and a caller that only undoes what
\* it did, one step after the other and with a ledger that can be written, gets all
\* of it back.
THEOREM BooksAlwaysBalance == Spec => []BooksBalance
<1>1. BooksInv => BooksBalance
  <2> SUFFICES ASSUME BooksInv PROVE BooksBalance
    OBVIOUS
  <2> USE AccountsAssumption
  <2>1. BTypeOK /\ \A a \in Actions : CallInv(a)
    BY DEF BooksInv
  <2>2. \A a \in Actions \ disturbed : Undebited[a] = 0 /\ Uncharged[a] = 0
    BY <2>1, OwedTypes DEF CallInv
  <2>3. \A s \in Sessions : CallsIn(s) \cap disturbed = {} => TotalOf(Undebited, CallsIn(s)) = 0
    <3> SUFFICES ASSUME NEW s \in Sessions, CallsIn(s) \cap disturbed = {}
                 PROVE  TotalOf(Undebited, CallsIn(s)) = 0
      OBVIOUS
    <3>1. IsFiniteSet(CallsIn(s)) /\ \A x \in CallsIn(s) : Undebited[x] = 0
      BY <2>1, <2>2, OwedTypes
    <3>2. TotalOf(Undebited, CallsIn(s)) = TotalOf(Undebited, {})
      BY <3>1, SumFilter
    <3>3. TotalOf(Undebited, {}) = 0
      BY <3>1, SumPick
    <3> QED
      BY <3>2, <3>3
  <2>4. \A g \in Grants : CallsOf(g) \cap disturbed = {} => TotalOf(Uncharged, CallsOf(g)) = 0
    <3> SUFFICES ASSUME NEW g \in Grants, CallsOf(g) \cap disturbed = {}
                 PROVE  TotalOf(Uncharged, CallsOf(g)) = 0
      OBVIOUS
    <3>1. IsFiniteSet(CallsOf(g)) /\ \A x \in CallsOf(g) : Uncharged[x] = 0
      BY <2>1, <2>2, OwedTypes
    <3>2. TotalOf(Uncharged, CallsOf(g)) = TotalOf(Uncharged, {})
      BY <3>1, SumFilter
    <3>3. TotalOf(Uncharged, {}) = 0
      BY <3>1, SumPick
    <3> QED
      BY <3>2, <3>3
  <2>5. (\A s \in Sessions : total[s] \in Nat) /\ (\A g \in Grants : spent[g] \in Nat)
    BY <2>1 DEF BTypeOK
  <2>6. ASSUME NEW s \in Sessions, Settled(CallsIn(s))
        PROVE  /\ TotalOf(AmountOf, CallsIn(s) \cap standing \cap ruled)
                    <= total[s] + TotalOf(Undebited, CallsIn(s))
               /\ CallsIn(s) \cap disturbed = {} =>
                    total[s] = TotalOf(AmountOf, CallsIn(s) \cap standing \cap ruled)
    <3>1. /\ TotalOf(SessionOwed, CallsIn(s)) <= total[s]
          /\ CallsIn(s) \cap disturbed = {} => TotalOf(SessionOwed, CallsIn(s)) = total[s]
      BY DEF BooksInv, SessionBooks
    <3>2. /\ TotalOf(SessionOwed, CallsIn(s)) =
               TotalOf(AmountOf, CallsIn(s) \cap standing \cap ruled) - TotalOf(Undebited, CallsIn(s))
          /\ TotalOf(AmountOf, CallsIn(s) \cap standing \cap ruled) \in Int
          /\ TotalOf(Undebited, CallsIn(s)) \in Int
      BY <2>1, <2>6, OwedStands
    <3> QED
      BY <2>3, <2>5, <3>1, <3>2
  <2>7. ASSUME NEW g \in Grants \ renewed, Settled(CallsOf(g))
        PROVE  /\ TotalOf(CostOf, CallsOf(g) \cap standing) <= spent[g] + TotalOf(Uncharged, CallsOf(g))
               /\ CallsOf(g) \cap disturbed = {} =>
                    spent[g] = TotalOf(CostOf, CallsOf(g) \cap standing)
    <3>1. /\ TotalOf(GrantOwed, CallsOf(g)) <= spent[g]
          /\ CallsOf(g) \cap disturbed = {} => TotalOf(GrantOwed, CallsOf(g)) = spent[g]
      BY DEF BooksInv, GrantBooks
    <3>2. /\ TotalOf(GrantOwed, CallsOf(g)) =
               TotalOf(CostOf, CallsOf(g) \cap standing) - TotalOf(Uncharged, CallsOf(g))
          /\ TotalOf(CostOf, CallsOf(g) \cap standing) \in Int
          /\ TotalOf(Uncharged, CallsOf(g)) \in Int
      BY <2>1, <2>7, OwedStands
    <3> QED
      BY <2>4, <2>5, <3>1, <3>2
  <2> QED
    BY <2>1, <2>6, <2>7 DEF BooksBalance, BooksCoverStanding, RepairReturnsHeadroom
<1> QED
  BY <1>1, BooksKept, PTL

-----------------------------------------------------------------------------
(* The overshoot.                                                          *)

MaxCost(g) == Max({0} \cup {Cost(a) : a \in CallsOf(g)})

\* First confirms are bounded by the callers, later ones are paid for one by one.
FirstTime(g) == {a \in InFlight(g) : confirms[a] <= 1}
PassedCalls(g) == {a \in CallsOf(g) : Passed(a)}
Again(g) == {a \in PassedCalls(g) : confirms[a] > 1}

\* The first confirms under way are as many as the callers; the calls confirmed again
\* are paid for by the repeats; and what has passed fits, with the overshoot.
Held(g, callers, first, again, passed, repeats, balance) ==
  /\ Cardinality(first) <= callers
  /\ TotalOf(CostOf, again) <= TotalOf(CostOfConfirm, repeats)
  /\ balance + TotalOf(CostOf, passed) <=
       Ceiling + (callers - 1) * MaxCost(g) + TotalOf(CostOfConfirm, repeats)

OvershootInv(g) ==
  Held(g, inFlight[g], FirstTime(g), Again(g), PassedCalls(g), Repeated(g), spent[g])

\* A sum is the sum over a part and the sum over the rest, and a part sums up to no more.
LEMMA SumSplit ==
  ASSUME NEW f, NEW D, IsFiniteSet(D), \A x \in D : f[x] \in Int, NEW T \in SUBSET D
  PROVE  TotalOf(f, D) = TotalOf(f, T) + TotalOf(f, D \ T)
<1> DEFINE G == {S \in SUBSET D : TotalOf(f, S) = TotalOf(f, S \cap T) + TotalOf(f, S \ T)}
<1>1. {} \in G
  <2>1. {} \cap T = {} /\ {} \ T = {}
    OBVIOUS
  <2>2. TotalOf(f, {}) = 0
    BY SumPick
  <2> QED
    BY <2>1, <2>2
<1>2. ASSUME NEW S \in G, NEW x \in D \ S
      PROVE  S \cup {x} \in G
  <2>1. /\ IsFiniteSet(S) /\ IsFiniteSet(S \cap T) /\ IsFiniteSet(S \ T)
        /\ TotalOf(f, S) = TotalOf(f, S \cap T) + TotalOf(f, S \ T)
    BY FS_Subset
  <2>2. TotalOf(f, S \cup {x}) = f[x] + TotalOf(f, S)
    BY <2>1, SumInsert
  <2>3. TotalOf(f, S) \in Int /\ TotalOf(f, S \cap T) \in Int /\ TotalOf(f, S \ T) \in Int
    BY <2>1, SumRemove
  <2>4. CASE x \in T
    <3>1. (S \cup {x}) \cap T = (S \cap T) \cup {x} /\ (S \cup {x}) \ T = S \ T
      BY <2>4
    <3>2. TotalOf(f, (S \cap T) \cup {x}) = f[x] + TotalOf(f, S \cap T)
      BY <2>1, SumInsert
    <3>3. f[x] \in Int
      OBVIOUS
    <3>4. TotalOf(f, S \cup {x}) = TotalOf(f, (S \cap T) \cup {x}) + TotalOf(f, S \ T)
      BY <2>1, <2>2, <2>3, <3>2, <3>3
    <3> QED
      BY <3>1, <3>4
  <2>5. CASE x \notin T
    <3>1. (S \cup {x}) \cap T = S \cap T /\ (S \cup {x}) \ T = (S \ T) \cup {x}
      BY <2>5
    <3>2. TotalOf(f, (S \ T) \cup {x}) = f[x] + TotalOf(f, S \ T)
      BY <2>1, SumInsert
    <3>3. f[x] \in Int
      OBVIOUS
    <3>4. TotalOf(f, S \cup {x}) = TotalOf(f, S \cap T) + TotalOf(f, (S \ T) \cup {x})
      BY <2>1, <2>2, <2>3, <3>2, <3>3
    <3> QED
      BY <3>1, <3>4
  <2> QED
    BY <2>4, <2>5
<1> HIDE DEF G
<1>3. D \in G
  BY <1>1, <1>2, FiniteSetsInduct
<1>4. D \cap T = T
  OBVIOUS
<1> QED
  BY <1>3, <1>4 DEF G

LEMMA SumOfPart ==
  ASSUME NEW f, NEW D, IsFiniteSet(D), \A x \in D : f[x] \in Nat, NEW T \in SUBSET D
  PROVE  TotalOf(f, T) <= TotalOf(f, D) /\ TotalOf(f, T) \in Nat
<1> DEFINE zero == [x \in D |-> 0]
<1>1. IsFiniteSet(D \ T) /\ IsFiniteSet(T)
  BY FS_Subset
<1>2. \A S \in SUBSET D : IsFiniteSet(S) => TotalOf(f, S) \in Int /\ TotalOf(f, S) >= 0
  <2> SUFFICES ASSUME NEW S \in SUBSET D, IsFiniteSet(S)
               PROVE  TotalOf(f, S) \in Int /\ TotalOf(f, S) >= 0
    OBVIOUS
  <2>1. TotalOf(zero, S) <= TotalOf(f, S)
    BY SumLess
  <2>2. TotalOf(zero, S) = TotalOf(zero, {})
    BY SumFilter
  <2>3. TotalOf(zero, {}) = 0
    BY SumPick
  <2>4. TotalOf(f, S) \in Int
    BY SumRemove
  <2> QED
    BY <2>1, <2>2, <2>3, <2>4
<1>3. TotalOf(f, D) = TotalOf(f, T) + TotalOf(f, D \ T)
  BY SumSplit
<1>4. TotalOf(f, T) \in Int /\ TotalOf(f, T) >= 0 /\ TotalOf(f, D \ T) \in Int /\ TotalOf(f, D \ T) >= 0
  BY <1>1, <1>2
<1> QED
  BY <1>3, <1>4

\* No call of a grant costs more than its dearest.
LEMMA MaxCostBounds ==
  ASSUME NEW g
  PROVE  MaxCost(g) \in Nat /\ \A a \in CallsOf(g) : Cost(a) <= MaxCost(g)
<1> USE AccountsAssumption
<1> DEFINE Dearest(S, m) == /\ m = 0 \/ \E a \in S : m = Cost(a)
                            /\ \A a \in S : Cost(a) <= m
           Bounded == {S \in SUBSET CallsOf(g) : \E m \in Nat : Dearest(S, m)}
<1>1. IsFiniteSet(CallsOf(g)) /\ \A a \in CallsOf(g) : Cost(a) \in Nat
  BY CostType, FS_Subset DEF CallsOf
<1>2. {} \in Bounded
  <2>1. Dearest({}, 0)
    OBVIOUS
  <2> QED
    BY <2>1
<1>3. ASSUME NEW S \in Bounded, NEW x \in CallsOf(g) \ S
      PROVE  S \cup {x} \in Bounded
  <2>1. PICK m \in Nat : Dearest(S, m)
    OBVIOUS
  <2>2. Cost(x) \in Nat /\ \A a \in S : Cost(a) \in Nat
    BY <1>1
  <2>3. CASE Cost(x) <= m
    <3>1. Dearest(S \cup {x}, m)
      BY <2>1, <2>3
    <3> HIDE DEF Dearest
    <3> QED
      BY <3>1
  <2>4. CASE ~(Cost(x) <= m)
    <3>1. \A a \in S \cup {x} : Cost(a) <= Cost(x)
      BY <2>1, <2>2, <2>4
    <3>2. Dearest(S \cup {x}, Cost(x))
      BY <3>1
    <3> HIDE DEF Dearest
    <3> QED
      BY <2>2, <3>2
  <2> QED
    BY <2>3, <2>4
<1> HIDE DEF Bounded
<1>4. CallsOf(g) \in Bounded
  BY <1>1, <1>2, <1>3, FiniteSetsInduct
<1> DEFINE Costs == {0} \cup {Cost(a) : a \in CallsOf(g)}
<1>5. \E m \in Costs : \A c \in Costs : m >= c
  <2>1. PICK m \in Nat : Dearest(CallsOf(g), m)
    BY <1>4 DEF Bounded
  <2>2. m \in Costs
    BY <2>1
  <2>3. \A c \in Costs : m >= c
    BY <1>1, <2>1
  <2> QED
    BY <2>2, <2>3
<1>6. MaxCost(g) \in Costs /\ \A c \in Costs : MaxCost(g) >= c
  BY <1>5 DEF MaxCost, Max
<1> QED
  BY <1>1, <1>6

\* The sets of calls are finite, and their sums natural numbers.
LEMMA OverTypes ==
  ASSUME NEW g
  PROVE  /\ \A S \in SUBSET Actions : IsFiniteSet(S) /\ TotalOf(CostOf, S) \in Nat
         /\ IsFiniteSet(Confirms) /\ IsFiniteSet(Repeated(g)) /\ Repeated(g) \subseteq Confirms
         /\ \A S \in SUBSET Confirms : IsFiniteSet(S) /\ TotalOf(CostOfConfirm, S) \in Nat
         /\ \A a \in Actions : CostOf[a] = Cost(a) /\ Cost(a) \in Nat
         /\ \A x \in Confirms : CostOfConfirm[x] = Cost(x[1]) /\ Cost(x[1]) \in Nat
         /\ CallsOf(g) \subseteq Actions /\ InFlight(g) \subseteq CallsOf(g)
         /\ FirstTime(g) \subseteq InFlight(g) /\ PassedCalls(g) \subseteq InFlight(g)
         /\ Again(g) \subseteq PassedCalls(g)
<1> USE AccountsAssumption
<1>1. \A a \in Actions : CostOf[a] = Cost(a) /\ Cost(a) \in Nat
  BY CostType DEF CostOf
<1>2. \A x \in Confirms : x[1] \in Actions
  BY DEF Confirms
<1>3. \A x \in Confirms : CostOfConfirm[x] = Cost(x[1]) /\ Cost(x[1]) \in Nat
  BY <1>1, <1>2 DEF CostOfConfirm
<1>4. IsFiniteSet(2 .. MaxConfirms)
  BY FS_Interval
<1>5. IsFiniteSet(Confirms)
  BY <1>4, FS_Product DEF Confirms
<1>6. Repeated(g) \subseteq Confirms
  BY DEF Repeated
<1>7. \A S \in SUBSET Actions : IsFiniteSet(S) /\ TotalOf(CostOf, S) \in Nat
  <2> SUFFICES ASSUME NEW S \in SUBSET Actions
               PROVE  IsFiniteSet(S) /\ TotalOf(CostOf, S) \in Nat
    OBVIOUS
  <2>1. IsFiniteSet(S)
    BY FS_Subset
  <2>2. \A x \in Actions : CostOf[x] \in Nat
    BY <1>1
  <2> QED
    BY <2>1, <2>2, SumOfPart
<1>8. \A S \in SUBSET Confirms : IsFiniteSet(S) /\ TotalOf(CostOfConfirm, S) \in Nat
  <2> SUFFICES ASSUME NEW S \in SUBSET Confirms
               PROVE  IsFiniteSet(S) /\ TotalOf(CostOfConfirm, S) \in Nat
    OBVIOUS
  <2>1. IsFiniteSet(S)
    BY <1>5, FS_Subset
  <2>2. \A x \in Confirms : CostOfConfirm[x] \in Nat
    BY <1>3
  <2> QED
    BY <1>5, <2>1, <2>2, SumOfPart
<1>9. /\ CallsOf(g) \subseteq Actions /\ InFlight(g) \subseteq CallsOf(g)
      /\ FirstTime(g) \subseteq InFlight(g) /\ PassedCalls(g) \subseteq InFlight(g)
      /\ Again(g) \subseteq PassedCalls(g)
  BY DEF CallsOf, InFlight, FirstTime, PassedCalls, Again
<1> QED
  BY <1>1, <1>3, <1>5, <1>6, <1>7, <1>8, <1>9

\* The prices do not change.
LEMMA PricesStay ==
  ASSUME NEW g
  PROVE  CostOf' = CostOf /\ CostOfConfirm' = CostOfConfirm /\ MaxCost(g)' = MaxCost(g)
         /\ CallsOf(g)' = CallsOf(g)
BY DEF CostOf, CostOfConfirm, Confirms, MaxCost, CallsOf, Cost, Price

\* Steps that let no call in keep the bound when balance and passed calls together
\* grow by no more than nothing.
LEMMA HeldShrinks ==
  ASSUME NEW g, NEW callers \in Nat \ {0},
         NEW first \in SUBSET Actions, NEW again \in SUBSET Actions, NEW passed \in SUBSET Actions,
         NEW repeats \in SUBSET Confirms, NEW balance \in Nat,
         Held(g, callers, first, again, passed, repeats, balance),
         NEW first2 \in SUBSET first, NEW again2 \in SUBSET again, NEW passed2 \in SUBSET Actions,
         NEW balance2 \in Nat,
         balance2 + TotalOf(CostOf, passed2) <= balance + TotalOf(CostOf, passed)
  PROVE  Held(g, callers, first2, again2, passed2, repeats, balance2)
<1>1. /\ \A S \in SUBSET Actions : IsFiniteSet(S) /\ TotalOf(CostOf, S) \in Nat
      /\ \A a \in Actions : CostOf[a] \in Nat
      /\ TotalOf(CostOfConfirm, repeats) \in Nat
  BY OverTypes
<1>2. Cardinality(first2) <= Cardinality(first) /\ Cardinality(first) \in Nat /\ Cardinality(first2) \in Nat
  BY <1>1, FS_Subset, FS_CardinalityType
<1>3. TotalOf(CostOf, again2) <= TotalOf(CostOf, again)
  <2>1. IsFiniteSet(again) /\ \A a \in again : CostOf[a] \in Nat
    BY <1>1
  <2> QED
    BY <2>1, SumOfPart
<1>4. (callers - 1) * MaxCost(g) \in Int
  <2>1. callers - 1 \in Int /\ MaxCost(g) \in Int
    BY MaxCostBounds
  <2> QED
    BY <2>1
<1>5. /\ TotalOf(CostOf, passed) \in Nat /\ TotalOf(CostOf, passed2) \in Nat
      /\ TotalOf(CostOf, again) \in Nat /\ TotalOf(CostOf, again2) \in Nat
  BY <1>1
<1>6. Cardinality(first2) <= callers
  BY <1>2 DEF Held
<1>7. TotalOf(CostOf, again2) <= TotalOf(CostOfConfirm, repeats)
  BY <1>1, <1>3, <1>5 DEF Held
<1>8. balance2 + TotalOf(CostOf, passed2) <=
        Ceiling + (callers - 1) * MaxCost(g) + TotalOf(CostOfConfirm, repeats)
  <2> DEFINE excess == (callers - 1) * MaxCost(g)
  <2>1. excess \in Int /\ Ceiling \in Nat
    BY <1>4, AccountsAssumption
  <2>2. balance + TotalOf(CostOf, passed) <= Ceiling + excess + TotalOf(CostOfConfirm, repeats)
    BY DEF Held
  <2> HIDE DEF excess
  <2>3. balance2 + TotalOf(CostOf, passed2) <= Ceiling + excess + TotalOf(CostOfConfirm, repeats)
    BY <1>1, <1>5, <2>1, <2>2
  <2> QED
    BY <2>3 DEF excess
<1> QED
  BY <1>6, <1>7, <1>8 DEF Held

\* A call that passes the check fits, or is free: those that passed for the first time
\* before it are fewer than the callers.
LEMMA HeldPasses ==
  ASSUME NEW g, NEW callers \in Nat \ {0},
         NEW first \in SUBSET Actions, NEW again \in SUBSET Actions,
         NEW passed \in SUBSET CallsOf(g), NEW repeats \in SUBSET Confirms, NEW balance \in Nat,
         Held(g, callers, first, again, passed, repeats, balance),
         again \subseteq passed, passed \ again \subseteq first,
         NEW a \in first, a \notin passed,
         Cost(a) = 0 \/ balance + Cost(a) <= Ceiling
  PROVE  Held(g, callers, first, again, passed \cup {a}, repeats, balance)
<1> DEFINE excess == (callers - 1) * MaxCost(g)
           paid == TotalOf(CostOfConfirm, repeats)
<1>1. /\ \A S \in SUBSET Actions : IsFiniteSet(S) /\ TotalOf(CostOf, S) \in Nat
      /\ \A b \in Actions : CostOf[b] = Cost(b) /\ Cost(b) \in Nat
      /\ paid \in Nat /\ CallsOf(g) \subseteq Actions
  BY OverTypes
<1>2. MaxCost(g) \in Nat /\ \A b \in CallsOf(g) : Cost(b) <= MaxCost(g)
  BY MaxCostBounds
<1>3. excess \in Int /\ Ceiling \in Nat
  <2>1. callers - 1 \in Int
    OBVIOUS
  <2> QED
    BY <1>2, <2>1, AccountsAssumption
<1>4. /\ Cardinality(first) <= callers
      /\ TotalOf(CostOf, again) <= paid
      /\ balance + TotalOf(CostOf, passed) <= Ceiling + excess + paid
  BY DEF Held
<1>5. TotalOf(CostOf, passed \cup {a}) = Cost(a) + TotalOf(CostOf, passed)
  <2>1. IsFiniteSet(passed) /\ CostOf[a] = Cost(a) /\ \A b \in passed : CostOf[b] \in Int
    BY <1>1
  <2>2. CostOf[a] \in Int
    BY <1>1
  <2> QED
    BY <2>1, <2>2, SumInsert
<1>6. TotalOf(CostOf, passed \ again) <= excess
  <2> DEFINE rest == passed \ again
  <2>1. rest \subseteq first \ {a} /\ rest \subseteq CallsOf(g) /\ rest \subseteq Actions
    BY <1>1
  <2>2. IsFiniteSet(first) /\ IsFiniteSet(rest)
    BY <1>1, <2>1
  <2>3. IsFiniteSet(first \ {a}) /\ Cardinality(first \ {a}) = Cardinality(first) - 1
    BY <2>2, FS_RemoveElement
  <2>4. Cardinality(rest) <= Cardinality(first \ {a})
    BY <2>1, <2>3, FS_Subset
  <2>5. Cardinality(rest) \in Nat /\ Cardinality(first) \in Nat
    BY <2>2, FS_CardinalityType
  <2>6. Cardinality(rest) <= callers - 1
    BY <1>4, <2>3, <2>4, <2>5
  <2>7. TotalOf(CostOf, rest) <= Cardinality(rest) * MaxCost(g)
    <3>1. \A b \in rest : CostOf[b] \in Int /\ CostOf[b] <= MaxCost(g)
      BY <1>1, <1>2, <2>1
    <3> HIDE DEF rest
    <3> QED
      BY <1>2, <2>2, <3>1, SumBounded
  <2>8. \A m, n, k \in Nat : n <= k => n * m <= k * m
    OBVIOUS
  <2>9. callers - 1 \in Nat
    OBVIOUS
  <2>10. Cardinality(rest) * MaxCost(g) <= (callers - 1) * MaxCost(g)
    BY <1>2, <2>5, <2>6, <2>8, <2>9
  <2>11. TotalOf(CostOf, rest) \in Int /\ Cardinality(rest) * MaxCost(g) \in Int
    BY <1>1, <1>2, <2>1, <2>5
  <2> HIDE DEF rest
  <2>12. TotalOf(CostOf, rest) <= (callers - 1) * MaxCost(g)
    BY <1>3, <2>7, <2>10, <2>11
  <2> QED
    BY <2>12 DEF rest
<1>7. TotalOf(CostOf, passed) = TotalOf(CostOf, again) + TotalOf(CostOf, passed \ again)
  <2>1. IsFiniteSet(passed) /\ \A b \in passed : CostOf[b] \in Int
    BY <1>1
  <2> QED
    BY <2>1, SumSplit
<1>8. /\ TotalOf(CostOf, passed) \in Nat /\ TotalOf(CostOf, again) \in Nat
      /\ TotalOf(CostOf, passed \ again) \in Nat /\ Cost(a) \in Nat
  BY <1>1
<1> HIDE DEF excess, paid
<1>9. balance + (Cost(a) + TotalOf(CostOf, passed)) <= Ceiling + excess + paid
  <2>1. CASE Cost(a) = 0
    BY <1>3, <1>4, <1>8, <2>1
  <2>2. CASE balance + Cost(a) <= Ceiling
    <3>1. \A b, c, p, q, e, m, t \in Int :
            b + c <= t /\ p <= m /\ q <= e => b + (c + (p + q)) <= t + e + m
      OBVIOUS
    <3>2. balance + (Cost(a) + (TotalOf(CostOf, again) + TotalOf(CostOf, passed \ again)))
            <= Ceiling + excess + paid
      BY <1>1, <1>3, <1>4, <1>6, <1>8, <2>2, <3>1
    <3> QED
      BY <1>7, <3>2
  <2> QED
    BY <2>1, <2>2
<1>10. balance + TotalOf(CostOf, passed \cup {a}) <= Ceiling + excess + paid
  BY <1>5, <1>9
<1> QED
  BY <1>4, <1>10 DEF Held, excess, paid

\* A repeated confirm is paid for by its own repeat.
LEMMA HeldRepeats ==
  ASSUME NEW g, NEW callers \in Nat \ {0},
         NEW first \in SUBSET Actions, NEW again \in SUBSET Actions, NEW passed \in SUBSET Actions,
         NEW repeats \in SUBSET Confirms, NEW balance \in Nat,
         Held(g, callers, first, again, passed, repeats, balance),
         again \subseteq passed,
         NEW a \in Actions, a \notin passed, NEW x \in Confirms \ repeats, x[1] = a
  PROVE  Held(g, callers, first, again \cup {a}, passed \cup {a}, repeats \cup {x}, balance)
<1> DEFINE excess == (callers - 1) * MaxCost(g)
<1>1. /\ \A S \in SUBSET Actions : IsFiniteSet(S) /\ TotalOf(CostOf, S) \in Nat
      /\ \A b \in Actions : CostOf[b] = Cost(b) /\ Cost(b) \in Nat
      /\ \A S \in SUBSET Confirms : IsFiniteSet(S) /\ TotalOf(CostOfConfirm, S) \in Nat
      /\ \A y \in Confirms : CostOfConfirm[y] = Cost(y[1]) /\ Cost(y[1]) \in Nat
  BY OverTypes
<1>2. excess \in Int /\ Ceiling \in Nat
  <2>1. callers - 1 \in Int /\ MaxCost(g) \in Int
    BY MaxCostBounds
  <2> QED
    BY <2>1, AccountsAssumption
<1>3. TotalOf(CostOf, passed \cup {a}) = Cost(a) + TotalOf(CostOf, passed)
  <2>1. IsFiniteSet(passed) /\ CostOf[a] = Cost(a) /\ \A b \in passed : CostOf[b] \in Int
    BY <1>1
  <2>2. CostOf[a] \in Int
    BY <1>1
  <2> QED
    BY <2>1, <2>2, SumInsert
<1>4. TotalOf(CostOf, again \cup {a}) = Cost(a) + TotalOf(CostOf, again)
  <2>1. IsFiniteSet(again) /\ CostOf[a] = Cost(a) /\ a \notin again /\ \A b \in again : CostOf[b] \in Int
    BY <1>1
  <2>2. CostOf[a] \in Int
    BY <1>1
  <2> QED
    BY <2>1, <2>2, SumInsert
<1>5. TotalOf(CostOfConfirm, repeats \cup {x}) = Cost(a) + TotalOf(CostOfConfirm, repeats)
  <2>1. IsFiniteSet(repeats) /\ CostOfConfirm[x] = Cost(a) /\ x \notin repeats
        /\ \A y \in repeats : CostOfConfirm[y] \in Int
    BY <1>1
  <2>2. CostOfConfirm[x] \in Int
    BY <1>1
  <2> QED
    BY <2>1, <2>2, SumInsert
<1>6. /\ Cardinality(first) <= callers
      /\ TotalOf(CostOf, again) <= TotalOf(CostOfConfirm, repeats)
      /\ balance + TotalOf(CostOf, passed) <= Ceiling + excess + TotalOf(CostOfConfirm, repeats)
  BY DEF Held
<1>7. /\ TotalOf(CostOf, passed) \in Nat /\ TotalOf(CostOf, again) \in Nat
      /\ TotalOf(CostOfConfirm, repeats) \in Nat /\ Cost(a) \in Nat
  BY <1>1
<1> HIDE DEF excess
<1>8. Cost(a) + TotalOf(CostOf, again) <= Cost(a) + TotalOf(CostOfConfirm, repeats)
  BY <1>6, <1>7
<1>9. balance + (Cost(a) + TotalOf(CostOf, passed))
        <= Ceiling + excess + (Cost(a) + TotalOf(CostOfConfirm, repeats))
  BY <1>2, <1>6, <1>7
<1>10. TotalOf(CostOf, again \cup {a}) <= TotalOf(CostOfConfirm, repeats \cup {x})
  BY <1>4, <1>5, <1>8
<1>11. balance + TotalOf(CostOf, passed \cup {a})
         <= Ceiling + excess + TotalOf(CostOfConfirm, repeats \cup {x})
  BY <1>3, <1>5, <1>9
<1> QED
  BY <1>6, <1>10, <1>11 DEF Held, excess

\* What is held after a step.
LEMMA HeldNext ==
  ASSUME NEW g,
         Held(g, inFlight'[g], FirstTime(g)', Again(g)', PassedCalls(g)', Repeated(g)', spent'[g])
  PROVE  OvershootInv(g)'
BY PricesStay DEF OvershootInv, Held

\* Every step keeps the bound on the overshoot.
LEMMA OvershootStep ==
  ASSUME BTypeOK, \A a \in Actions : CallInv(a), NEW g \in Grants, OvershootInv(g), [Next]_vars
  PROVE  OvershootInv(g)'
<1> USE AccountsAssumption
<1> DEFINE H(first, again, passed, repeats, balance) ==
             Held(g, inFlight[g], first, again, passed, repeats, balance)
<1>1. /\ \A S \in SUBSET Actions : IsFiniteSet(S) /\ TotalOf(CostOf, S) \in Nat
      /\ \A a \in Actions : CostOf[a] = Cost(a) /\ Cost(a) \in Nat
      /\ Repeated(g) \subseteq Confirms
      /\ CallsOf(g) \subseteq Actions /\ InFlight(g) \subseteq CallsOf(g)
      /\ FirstTime(g) \subseteq InFlight(g) /\ PassedCalls(g) \subseteq InFlight(g)
      /\ Again(g) \subseteq PassedCalls(g)
  BY OverTypes
<1>2. H(FirstTime(g), Again(g), PassedCalls(g), Repeated(g), spent[g])
  BY DEF OvershootInv
<1>3. /\ inFlight[g] \in Nat \ {0} /\ inFlight' = inFlight
      /\ spent[g] \in Nat /\ spent'[g] \in Nat
      /\ \A a \in Actions : confirms[a] \in Nat
      /\ pc \in [Actions -> Stages]
  <2>1. inFlight' = inFlight
    BY DEF Next, vars, MatchBudgetRule, FallThrough, CheckExposure, ComesToNothing,
           ConfirmJournal, DebitSession, DebitExposure, Undo, Release, Refund,
           CascadeUndo, Reset
  <2> QED
    BY <2>1, TypeStep DEF BTypeOK
<1>4. SUFFICES H(FirstTime(g)', Again(g)', PassedCalls(g)', Repeated(g)', spent'[g])
  BY <1>3, HeldNext
<1>5. ASSUME confirms' = confirms
      PROVE  Repeated(g)' = Repeated(g)
  BY <1>5 DEF Repeated, Confirms, CallsOf
<1>6. ASSUME FirstTime(g)' \subseteq FirstTime(g), Again(g)' \subseteq Again(g),
             PassedCalls(g)' \subseteq Actions, Repeated(g)' = Repeated(g),
             spent'[g] + TotalOf(CostOf, PassedCalls(g)') <= spent[g] + TotalOf(CostOf, PassedCalls(g))
      PROVE  H(FirstTime(g)', Again(g)', PassedCalls(g)', Repeated(g)', spent'[g])
  <2>1. /\ FirstTime(g) \in SUBSET Actions /\ Again(g) \in SUBSET Actions
        /\ PassedCalls(g) \in SUBSET Actions /\ Repeated(g) \in SUBSET Confirms
    BY <1>1
  <2> QED
    BY <1>2, <1>3, <1>6, <2>1, HeldShrinks
<1>7. ASSUME PassedCalls(g)' \subseteq PassedCalls(g), spent'[g] <= spent[g]
      PROVE  spent'[g] + TotalOf(CostOf, PassedCalls(g)') <= spent[g] + TotalOf(CostOf, PassedCalls(g))
  <2>1. IsFiniteSet(PassedCalls(g)) /\ \A a \in PassedCalls(g) : CostOf[a] \in Nat
    BY <1>1
  <2>2. TotalOf(CostOf, PassedCalls(g)') <= TotalOf(CostOf, PassedCalls(g))
    BY <1>7, <2>1, SumOfPart
  <2>3. TotalOf(CostOf, PassedCalls(g)') \in Nat /\ TotalOf(CostOf, PassedCalls(g)) \in Nat
    BY <1>1, <1>7
  <2> QED
    BY <1>3, <1>7, <2>2, <2>3
<1>8. ASSUME NEW a \in Actions,
             MatchBudgetRule(a) \/ \E approved \in BOOLEAN : FallThrough(a, approved)
      PROVE  H(FirstTime(g)', Again(g)', PassedCalls(g)', Repeated(g)', spent'[g])
  <2>1. /\ Start(a) /\ pc'[a] \in {"gated", "refused"} /\ \A b \in Actions \ {a} : pc'[b] = pc[b]
        /\ UNCHANGED <<spent, confirms>>
    BY <1>8 DEF MatchBudgetRule, FallThrough, accounts, history, BTypeOK
  <2>2. /\ Again(g)' = Again(g) /\ PassedCalls(g)' = PassedCalls(g) /\ Repeated(g)' = Repeated(g)
    <3>1. pc[a] = "idle"
      BY <2>1 DEF Start
    <3> QED
      BY <1>5, <2>1, <3>1 DEF Again, PassedCalls, Passed, CallsOf
  <2>3. Cardinality(FirstTime(g)') <= inFlight[g]
    <3>1. CASE GrantOf[a] # g
      <4>1. FirstTime(g)' = FirstTime(g)
        BY <2>1, <3>1 DEF FirstTime, InFlight, Passed
      <4> QED
        BY <1>2, <4>1 DEF Held
    <3>2. CASE GrantOf[a] = g
      <4>1. FirstTime(g)' \subseteq InFlight(g) \cup {a}
        BY <2>1, <3>2 DEF FirstTime, InFlight, Passed
      <4>2. a \notin InFlight(g)
        BY <2>1 DEF Start, InFlight, Passed
      <4>3. IsFiniteSet(InFlight(g)) /\ Cardinality(InFlight(g)) < inFlight[g]
        BY <1>1, <2>1, <3>2 DEF Start
      <4>4. IsFiniteSet(InFlight(g) \cup {a})
            /\ Cardinality(InFlight(g) \cup {a}) = Cardinality(InFlight(g)) + 1
        BY <4>2, <4>3, FS_AddElement
      <4>5. IsFiniteSet(FirstTime(g)') /\ Cardinality(FirstTime(g)') <= Cardinality(InFlight(g) \cup {a})
        BY <4>1, <4>4, FS_Subset
      <4>6. Cardinality(InFlight(g)) \in Nat /\ Cardinality(FirstTime(g)') \in Nat
        BY <4>3, <4>5, FS_CardinalityType
      <4> QED
        BY <1>3, <4>3, <4>4, <4>5, <4>6
    <3> QED
      BY <3>1, <3>2
  <2> QED
    BY <1>2, <2>1, <2>2, <2>3 DEF Held
<1>9. ASSUME NEW a \in Actions, CheckExposure(a)
      PROVE  H(FirstTime(g)', Again(g)', PassedCalls(g)', Repeated(g)', spent'[g])
  <2>1. /\ pc[a] = "gated" /\ pc'[a] \in {"allowed", "refused"} /\ \A b \in Actions \ {a} : pc'[b] = pc[b]
        /\ pc'[a] = "allowed" => Cost(a) = 0 \/ Fits(spent[GrantOf[a]], Cost(a), Ceiling)
        /\ UNCHANGED <<spent, confirms>>
    BY <1>9 DEF CheckExposure, accounts, history, BTypeOK
  <2>2. confirms[a] = 0
    BY <2>1 DEF CallInv
  <2>3. FirstTime(g)' \subseteq FirstTime(g) /\ Again(g)' = Again(g) /\ Repeated(g)' = Repeated(g)
    BY <1>5, <2>1, <2>2 DEF FirstTime, InFlight, Again, PassedCalls, Passed, CallsOf
  <2>4. CASE a \in CallsOf(g) /\ pc'[a] = "allowed"
    <3>1. PassedCalls(g)' = PassedCalls(g) \cup {a} /\ a \notin PassedCalls(g) /\ FirstTime(g)' = FirstTime(g)
      BY <2>1, <2>2, <2>4 DEF PassedCalls, Passed, CallsOf, FirstTime, InFlight
    <3>2. a \in FirstTime(g)
      BY <2>1, <2>2, <2>4 DEF FirstTime, InFlight, CallsOf
    <3>3. PassedCalls(g) \ Again(g) \subseteq FirstTime(g)
      BY <1>1, <1>3 DEF Again, FirstTime
    <3>4. Cost(a) = 0 \/ spent[g] + Cost(a) <= Ceiling
      BY <2>1, <2>4 DEF Fits, CallsOf
    <3>5. /\ FirstTime(g) \in SUBSET Actions /\ Again(g) \in SUBSET Actions
          /\ PassedCalls(g) \in SUBSET CallsOf(g) /\ Repeated(g) \in SUBSET Confirms
          /\ Again(g) \subseteq PassedCalls(g)
      BY <1>1
    <3>6. H(FirstTime(g), Again(g), PassedCalls(g) \cup {a}, Repeated(g), spent[g])
      BY <1>2, <1>3, <3>1, <3>2, <3>3, <3>4, <3>5, HeldPasses
    <3> QED
      BY <2>1, <2>3, <3>1, <3>6
  <2>5. CASE ~(a \in CallsOf(g) /\ pc'[a] = "allowed")
    <3>1. PassedCalls(g)' = PassedCalls(g)
      BY <2>1, <2>5 DEF PassedCalls, Passed, CallsOf
    <3>2. spent'[g] <= spent[g]
      BY <1>3, <2>1
    <3> QED
      BY <1>1, <1>6, <1>7, <2>3, <3>1, <3>2
  <2> QED
    BY <2>4, <2>5
<1>10. ASSUME NEW a \in Actions, ComesToNothing(a) \/ DebitSession(a)
       PROVE  H(FirstTime(g)', Again(g)', PassedCalls(g)', Repeated(g)', spent'[g])
  <2>1. /\ Passed(a) /\ \A b \in Actions \ {a} : pc'[b] = pc[b]
        /\ UNCHANGED <<spent, confirms>>
    BY <1>10 DEF ComesToNothing, DebitSession, Passed, accounts, history, BTypeOK
  <2>2. /\ FirstTime(g)' \subseteq FirstTime(g) /\ Again(g)' \subseteq Again(g)
        /\ PassedCalls(g)' \subseteq PassedCalls(g) /\ Repeated(g)' = Repeated(g)
    BY <1>5, <2>1 DEF FirstTime, InFlight, Again, PassedCalls, Passed, CallsOf
  <2>3. spent'[g] <= spent[g]
    BY <1>3, <2>1
  <2> QED
    BY <1>1, <1>6, <1>7, <2>2, <2>3
<1>11. ASSUME NEW a \in Actions, NEW written \in BOOLEAN, ConfirmJournal(a, written)
       PROVE  H(FirstTime(g)', Again(g)', PassedCalls(g)', Repeated(g)', spent'[g])
  <2>1. /\ pc[a] \in {"allowed", "confirmed"}
        /\ pc'[a] = IF written THEN "debiting" ELSE "confirmed"
        /\ \A b \in Actions \ {a} : pc'[b] = pc[b] /\ confirms'[b] = confirms[b]
        /\ confirms'[a] = confirms[a] + 1 /\ spent' = spent /\ confirms[a] < MaxConfirms
    BY <1>11 DEF ConfirmJournal, accounts, BTypeOK
  <2>2. CASE a \notin CallsOf(g)
    <3>1. /\ FirstTime(g)' = FirstTime(g) /\ Again(g)' = Again(g)
          /\ PassedCalls(g)' = PassedCalls(g) /\ Repeated(g)' = Repeated(g)
      BY <1>1, <2>1, <2>2 DEF FirstTime, InFlight, Again, PassedCalls, Passed, CallsOf, Repeated, Confirms
    <3> QED
      BY <1>2, <2>1, <3>1
  <2>3. CASE a \in CallsOf(g) /\ pc[a] = "allowed"
    <3>1. confirms[a] = 0 /\ confirms'[a] = 1
      BY <2>1, <2>3 DEF CallInv
    <3>2. /\ FirstTime(g)' \subseteq FirstTime(g) /\ Again(g)' \subseteq Again(g)
          /\ PassedCalls(g)' \subseteq PassedCalls(g)
      BY <2>1, <2>3, <3>1 DEF FirstTime, InFlight, Again, PassedCalls, Passed, CallsOf
    <3>3. Repeated(g)' = Repeated(g)
      BY <1>3, <2>1, <3>1 DEF Repeated, Confirms, CallsOf
    <3>4. PassedCalls(g)' \subseteq Actions /\ spent'[g] <= spent[g]
      BY <1>1, <1>3, <2>1, <3>2
    <3> QED
      BY <1>6, <1>7, <3>2, <3>3, <3>4
  <2>4. CASE a \in CallsOf(g) /\ pc[a] = "confirmed"
    <3> DEFINE x == <<a, confirms'[a]>>
    <3>1. confirms[a] \in Nat \ {0} /\ MaxConfirms \in Nat
      BY <1>3, <2>4 DEF CallInv
    <3>2. confirms'[a] \in 2 .. MaxConfirms
      BY <2>1, <3>1
    <3>3. /\ FirstTime(g)' = FirstTime(g) /\ a \notin PassedCalls(g)
          /\ Again(g)' = IF written THEN Again(g) \cup {a} ELSE Again(g)
          /\ PassedCalls(g)' = IF written THEN PassedCalls(g) \cup {a} ELSE PassedCalls(g)
      BY <2>1, <2>4, <3>1 DEF FirstTime, InFlight, Again, PassedCalls, Passed, CallsOf
    <3>4. x \in Confirms /\ x \notin Repeated(g) /\ x[1] = a
      BY <2>1, <3>1, <3>2 DEF Repeated, Confirms
    <3>5. Repeated(g)' = Repeated(g) \cup {x}
      <4>1. ASSUME NEW y \in Confirms
            PROVE  y \in Repeated(g)' <=> y \in Repeated(g) \cup {x}
        <5>1. y = <<y[1], y[2]>> /\ y[1] \in Actions /\ y[2] \in 2 .. MaxConfirms /\ y[2] \in Nat
          BY <3>1 DEF Confirms
        <5>2. y \in Repeated(g)' <=> y[1] \in CallsOf(g) /\ confirms'[y[1]] >= y[2]
          BY DEF Repeated, Confirms, CallsOf
        <5>3. y \in Repeated(g) <=> y[1] \in CallsOf(g) /\ confirms[y[1]] >= y[2]
          BY DEF Repeated
        <5>4. CASE y[1] = a
          <6>1. confirms'[a] >= y[2] <=> confirms[a] >= y[2] \/ y[2] = confirms'[a]
            BY <2>1, <3>1, <5>1
          <6>2. y = x <=> y[2] = confirms'[a]
            BY <5>1, <5>4
          <6> QED
            BY <2>4, <5>2, <5>3, <5>4, <6>1, <6>2
        <5>5. CASE y[1] # a
          BY <2>1, <5>1, <5>2, <5>3, <5>5
        <5> QED
          BY <5>4, <5>5
      <4>2. Repeated(g) \subseteq Confirms /\ Repeated(g)' \subseteq Confirms
        BY DEF Repeated, Confirms
      <4> HIDE DEF x
      <4> QED
        BY <3>4, <4>1, <4>2
    <3>6. /\ FirstTime(g) \in SUBSET Actions /\ Again(g) \in SUBSET Actions
          /\ PassedCalls(g) \in SUBSET Actions /\ Repeated(g) \in SUBSET Confirms
          /\ Again(g) \subseteq PassedCalls(g)
      BY <1>1
    <3> HIDE DEF x
    <3>7. H(FirstTime(g), Again(g) \cup {a}, PassedCalls(g) \cup {a}, Repeated(g) \cup {x}, spent[g])
      BY <1>2, <1>3, <3>3, <3>4, <3>6, HeldRepeats
    <3>8. CASE written
      BY <2>1, <3>3, <3>5, <3>7, <3>8
    <3>9. CASE ~written
      <4>1. /\ FirstTime(g) \in SUBSET Actions /\ Again(g) \cup {a} \in SUBSET Actions
            /\ PassedCalls(g) \cup {a} \in SUBSET Actions /\ Repeated(g) \cup {x} \in SUBSET Confirms
            /\ Again(g) \in SUBSET (Again(g) \cup {a})
        BY <3>4, <3>6
      <4>2. spent[g] + TotalOf(CostOf, PassedCalls(g)) <= spent[g] + TotalOf(CostOf, PassedCalls(g) \cup {a})
        <5>1. /\ IsFiniteSet(PassedCalls(g) \cup {a})
              /\ \A b \in PassedCalls(g) \cup {a} : CostOf[b] \in Nat
          BY <1>1, <4>1
        <5>2. TotalOf(CostOf, PassedCalls(g)) <= TotalOf(CostOf, PassedCalls(g) \cup {a})
          BY <5>1, SumOfPart
        <5> QED
          BY <1>1, <1>3, <3>6, <4>1, <5>2
      <4>3. H(FirstTime(g), Again(g), PassedCalls(g), Repeated(g) \cup {x}, spent[g])
        BY <1>3, <3>6, <3>7, <4>1, <4>2, HeldShrinks
      <4> QED
        BY <2>1, <3>3, <3>5, <3>9, <4>3
    <3> QED
      BY <3>8, <3>9
  <2> QED
    BY <2>1, <2>2, <2>3, <2>4
<1>12. ASSUME NEW a \in Actions, DebitExposure(a)
       PROVE  H(FirstTime(g)', Again(g)', PassedCalls(g)', Repeated(g)', spent'[g])
  <2>1. /\ Passed(a) /\ pc'[a] = "confirmed" /\ \A b \in Actions \ {a} : pc'[b] = pc[b]
        /\ confirms' = confirms
        /\ spent'[g] = IF g = GrantOf[a] THEN spent[g] + Cost(a) ELSE spent[g]
    BY <1>12 DEF DebitExposure, Passed, BTypeOK, history
  <2>2. /\ FirstTime(g)' \subseteq FirstTime(g) /\ Again(g)' \subseteq Again(g)
        /\ PassedCalls(g)' = PassedCalls(g) \ {a} /\ Repeated(g)' = Repeated(g)
    BY <1>5, <2>1 DEF FirstTime, InFlight, Again, PassedCalls, Passed, CallsOf
  <2>3. CASE g = GrantOf[a]
    <3>1. a \in PassedCalls(g)
      BY <2>1, <2>3 DEF PassedCalls, CallsOf
    <3>2. TotalOf(CostOf, PassedCalls(g)) = Cost(a) + TotalOf(CostOf, PassedCalls(g) \ {a})
      <4>1. IsFiniteSet(PassedCalls(g)) /\ CostOf[a] = Cost(a) /\ \A b \in PassedCalls(g) : CostOf[b] \in Int
        BY <1>1
      <4> QED
        BY <3>1, <4>1, SumRemove
    <3>3. TotalOf(CostOf, PassedCalls(g) \ {a}) \in Nat /\ Cost(a) \in Nat
      BY <1>1
    <3>4. spent'[g] + TotalOf(CostOf, PassedCalls(g)') <= spent[g] + TotalOf(CostOf, PassedCalls(g))
      BY <1>3, <2>1, <2>2, <2>3, <3>2, <3>3
    <3> QED
      BY <1>1, <1>6, <2>2, <3>4
  <2>4. CASE g # GrantOf[a]
    <3>1. spent'[g] <= spent[g] /\ PassedCalls(g)' \subseteq PassedCalls(g)
      BY <1>3, <2>1, <2>2, <2>4
    <3> QED
      BY <1>1, <1>6, <1>7, <2>2, <3>1
  <2> QED
    BY <2>3, <2>4
<1>13. ASSUME \/ \E a \in Actions : Undo(a) \/ Release(a) \/ Refund(a) \/ CascadeUndo(a)
              \/ \E h \in Grants : Reset(h)
              \/ UNCHANGED vars
       PROVE  H(FirstTime(g)', Again(g)', PassedCalls(g)', Repeated(g)', spent'[g])
  <2>1. pc' = pc /\ confirms' = confirms
    BY <1>13 DEF Undo, Release, Refund, CascadeUndo, Reset, vars, history
  <2>2. spent'[g] <= spent[g]
    <3>1. ASSUME NEW a \in Actions, Refund(a)
          PROVE  spent'[g] <= spent[g]
      <4>1. spent'[g] = spent[g] \/ spent'[g] = Credited(spent[g], Cost(a))
        BY <3>1 DEF Refund, BTypeOK
      <4>2. Credited(spent[g], Cost(a)) <= spent[g]
        BY <1>1, <1>3, CreditedType
      <4> QED
        BY <1>3, <4>1, <4>2
    <3>2. ASSUME NEW h \in Grants, Reset(h)
          PROVE  spent'[g] <= spent[g]
      BY <1>3, <3>2 DEF Reset, BTypeOK
    <3>3. ASSUME (\E a \in Actions : Undo(a) \/ Release(a) \/ CascadeUndo(a)) \/ UNCHANGED vars
          PROVE  spent'[g] <= spent[g]
      <4>1. spent' = spent
        BY <3>3 DEF Undo, Release, CascadeUndo, vars, accounts
      <4> QED
        BY <1>3, <4>1
    <3> QED
      BY <1>13, <3>1, <3>2, <3>3
  <2>3. /\ FirstTime(g)' = FirstTime(g) /\ Again(g)' = Again(g)
        /\ PassedCalls(g)' = PassedCalls(g) /\ Repeated(g)' = Repeated(g)
    BY <1>5, <2>1 DEF FirstTime, InFlight, Again, PassedCalls, Passed, CallsOf
  <2> QED
    BY <1>1, <1>6, <1>7, <2>2, <2>3
<1> HIDE DEF H
<1> QED
  BY <1>8, <1>9, <1>10, <1>11, <1>12, <1>13 DEF Next

\* For any number of callers per grant: checking at authorize and debiting at confirm
\* overdraws a grant by no more than one dearest charge for each further call in flight
\* and one charge for each repeated confirm.
THEOREM OvershootIsBounded == Spec => []OvershootBounded
<1> USE AccountsAssumption
<1>1. Init => \A g \in Grants : OvershootInv(g)
  <2> SUFFICES ASSUME Init, NEW g \in Grants PROVE OvershootInv(g)
    OBVIOUS
  <2>1. FirstTime(g) = {} /\ Again(g) = {} /\ PassedCalls(g) = {} /\ Repeated(g) = {}
    BY DEF Init, FirstTime, InFlight, Again, PassedCalls, Passed, Repeated, Confirms, CallsOf
  <2>2. TotalOf(CostOf, {}) = 0 /\ TotalOf(CostOfConfirm, {}) = 0
    BY SumPick
  <2>3. spent[g] = 0 /\ inFlight[g] \in Nat /\ inFlight[g] - 1 \in Nat /\ MaxCost(g) \in Nat
    BY MaxCostBounds DEF Init
  <2>4. (inFlight[g] - 1) * MaxCost(g) \in Nat
    BY <2>3
  <2>5. Cardinality({}) = 0
    BY FS_EmptySet
  <2> QED
    BY <2>1, <2>2, <2>3, <2>4, <2>5 DEF OvershootInv, Held
<1>2. BooksInv /\ (\A g \in Grants : OvershootInv(g)) /\ [Next]_vars => (\A g \in Grants : OvershootInv(g))'
  BY OvershootStep DEF BooksInv
<1>3. BooksInv /\ (\A g \in Grants : OvershootInv(g)) => OvershootBounded
  <2> SUFFICES ASSUME BooksInv, NEW g \in Grants, OvershootInv(g)
               PROVE  spent[g] + TotalOf(CostOf, {a \in CallsOf(g) : Passed(a) /\ confirms[a] <= 1}) <=
                        Ceiling + (inFlight[g] - 1) * MaxCost(g) + TotalOf(CostOfConfirm, Repeated(g))
    BY DEF OvershootBounded, MaxCost
  <2> DEFINE once == {a \in CallsOf(g) : Passed(a) /\ confirms[a] <= 1}
  <2>1. /\ IsFiniteSet(PassedCalls(g)) /\ \A a \in PassedCalls(g) : CostOf[a] \in Nat
        /\ TotalOf(CostOf, PassedCalls(g)) \in Nat
    BY OverTypes
  <2>2. once \in SUBSET PassedCalls(g)
    BY DEF PassedCalls
  <2> HIDE DEF once
  <2>3. TotalOf(CostOf, once) <= TotalOf(CostOf, PassedCalls(g)) /\ TotalOf(CostOf, once) \in Nat
    BY <2>1, <2>2, SumOfPart
  <2> DEFINE bound == Ceiling + (inFlight[g] - 1) * MaxCost(g) + TotalOf(CostOfConfirm, Repeated(g))
  <2>4. bound \in Int
    <3>1. /\ inFlight[g] - 1 \in Int /\ MaxCost(g) \in Int /\ Ceiling \in Int
          /\ TotalOf(CostOfConfirm, Repeated(g)) \in Int
      BY OverTypes, MaxCostBounds DEF BooksInv, BTypeOK
    <3> QED
      BY <3>1
  <2>5. spent[g] + TotalOf(CostOf, PassedCalls(g)) <= bound
    BY DEF OvershootInv, Held
  <2>6. spent[g] \in Nat
    BY DEF BooksInv, BTypeOK
  <2> HIDE DEF bound
  <2>7. spent[g] + TotalOf(CostOf, once) <= bound
    BY <2>1, <2>3, <2>4, <2>5, <2>6
  <2> QED
    BY <2>7 DEF once, bound
<1> QED
  BY <1>1, <1>2, <1>3, BooksKept, PTL DEF Spec
=============================================================================
