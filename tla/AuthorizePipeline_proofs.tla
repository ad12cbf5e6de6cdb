---------------------- MODULE AuthorizePipeline_proofs ----------------------
(***************************************************************************)
(* Proofs about AuthorizePipeline: a quarantine holds and is earned, the   *)
(* journal agrees with what the caller was told, and the detectors that    *)
(* count past actions and committed effects see every call they should.    *)
(*                                                                         *)
(* Each stage of a call leaves it in one of a few combinations of stage,   *)
(* verdict and journal entry (PhaseOK).  What other calls change of it is  *)
(* nothing; what they share with it are the strikes of its actor, which    *)
(* only grow.                                                              *)
(***************************************************************************)
EXTENDS AuthorizePipeline, FiniteSetTheorems, TLAPS

CallRecords ==
  [pc : Running \cup {"idle", "returned", "raised", "done"},
   req : Requests \cup {NoCall.req}, at : Nat, effect : Effects, blocked : BOOLEAN,
   verdict : Verdicts, entry : {"none", "planned", "committed", "abandoned"},
   answer : {"none", "allowed", "refused", "raised"}]

\* What a verdict that was reached in the stages left in the journal.
Concluded(x) ==
  \/ x.verdict = "enforce" /\ x.entry = "none" /\ x.effect # "allow"
  \/ x.verdict \in {"authority", "detect"} /\ x.entry = "abandoned" /\ x.effect = "deny"
  \/ x.verdict = "allowed" /\ x.entry = "planned"

Failed(x) == x.verdict = "engine_failure" /\ x.entry # "committed"

\* The combinations a call can be in.
PhaseOK(x) ==
  /\ x.pc # "idle" => x.req \in Requests
  /\ x.pc \in {"idle", "record", "examine", "count"} => x.entry = "none"
  /\ x.pc = "record" =>
       x.verdict = "none" \/ (x.verdict = "enforce" /\ x.effect # "allow")
  /\ x.pc \in {"idle", "examine", "count"} => x.verdict = "none"
  /\ x.pc = "finalize" => Concluded(x)
  /\ x.pc = "failed" => x.entry # "committed"
  /\ x.pc = "returned" => Concluded(x) \/ Failed(x)
  /\ x.pc = "done" => (x.verdict = "allowed" /\ x.entry # "planned") \/ Failed(x)
  /\ x.pc = "raised" => x.verdict = "engine_failure"
  /\ x.pc \in {"returned", "done"} <=> x.answer \in {"allowed", "refused"}
  /\ x.answer = "allowed" => x.verdict \in {"allowed", "engine_failure"}

\* A call that began in quarantine stays refused.
BarredOK(c) ==
  c \in barred =>
    /\ call[c].pc # "idle"
    /\ strikes[call[c].req.actor] >= RogueStrikes
    /\ call[c].verdict # "allowed"
    /\ call[c].pc = "count" => call[c].blocked
    /\ failClosed => call[c].answer # "allowed"

Undecided == {"idle", "record", "examine", "count", "finalize"}

\* The refusals that have been counted, or need not be.
Struck(a) ==
  {c \in Calls : call[c].pc \notin Undecided /\ call[c].req.actor = a
                 /\ call[c].effect = "deny"}

SharedOK ==
  /\ failClosed \in BOOLEAN /\ now \in Nat /\ troubles \in 0 .. MaxTroubles
  /\ recorded \in Seq(Calls)
  /\ strikes \in [Actors -> Nat]
  /\ barred \subseteq Calls
  /\ peak \in [Grants -> Nat]

CallsOK ==
  /\ call \in [Calls -> CallRecords]
  /\ \A c \in Calls : PhaseOK(call[c]) /\ call[c].at <= now

RecordedOK ==
  \A c \in Calls : call[c].pc \in {"examine", "count", "finalize"} =>
    \E i \in DOMAIN recorded : recorded[i] = c

Earned == \A a \in Actors : strikes[a] <= Cardinality(Struck(a))

PipelineInv ==
  SharedOK /\ CallsOK /\ RecordedOK /\ (\A c \in Calls : BarredOK(c)) /\ Earned

-----------------------------------------------------------------------------

LEMMA RequestTypes ==
  ASSUME NEW q \in Requests
  PROVE  q.actor \in Actors /\ q.grant \in Grants
BY PipelineAssumption

LEMMA SomeCallsFinite ==
  ASSUME NEW S \in SUBSET Calls
  PROVE  IsFiniteSet(S) /\ Cardinality(S) \in Nat
BY PipelineAssumption, FS_Subset, FS_CardinalityType

\* A call moves on and nothing is struck: what was counted stays counted.
LEMMA CallMoves ==
  ASSUME CallsOK, NEW c \in Calls, NEW y \in CallRecords, Set(c, y), PhaseOK(y),
         now' \in Nat, now <= now', now \in Nat, y.at <= now',
         \/ call[c].pc \in Undecided
         \/ y.pc \notin Undecided /\ y.req = call[c].req /\ y.effect = call[c].effect
  PROVE  /\ CallsOK'
         /\ call'[c] = y
         /\ \A d \in Calls \ {c} : call'[d] = call[d]
         /\ \A a \in Actors : /\ Struck(a) \subseteq Struck(a)'
                              /\ Cardinality(Struck(a)) <= Cardinality(Struck(a)')
<1>1. /\ call' \in [Calls -> CallRecords]
      /\ call'[c] = y
      /\ \A d \in Calls \ {c} : call'[d] = call[d]
  BY DEF Set, CallsOK
<1>2. \A d \in Calls : call[d].at \in Nat /\ call'[d].at \in Nat
  BY <1>1 DEF CallsOK, CallRecords
<1>3. CallsOK'
  BY <1>1, <1>2 DEF CallsOK
<1>4. ASSUME NEW a \in Actors
      PROVE  /\ Struck(a) \subseteq Struck(a)'
             /\ Cardinality(Struck(a)) <= Cardinality(Struck(a)')
  <2>1. Struck(a) \subseteq Struck(a)'
    BY <1>1 DEF Struck
  <2>2. IsFiniteSet(Struck(a)')
    BY SomeCallsFinite DEF Struck
  <2> QED
    BY <2>1, <2>2, FS_Subset
<1> QED
  BY <1>1, <1>3, <1>4

\* With the strikes as they are, counting stays right.
LEMMA EarnedStays ==
  ASSUME SharedOK, Earned, strikes' = strikes,
         \A a \in Actors : Cardinality(Struck(a)) <= Cardinality(Struck(a)')
  PROVE  Earned'
<1>1. ASSUME NEW a \in Actors
      PROVE  strikes[a] <= Cardinality(Struck(a)')
  <2>1. Cardinality(Struck(a)) \in Nat /\ Cardinality(Struck(a)') \in Nat
    BY SomeCallsFinite DEF Struck
  <2>2. strikes[a] \in Nat
    BY DEF SharedOK
  <2> QED
    BY <2>1, <2>2 DEF Earned
<1> QED
  BY <1>1 DEF Earned

-----------------------------------------------------------------------------
(* One lemma per action.                                                   *)

LEMMA BeginKeeps ==
  ASSUME PipelineInv, NEW c \in Calls, NEW q \in Requests, NEW effect \in Effects,
         Begin(c, q, effect)
  PROVE  PipelineInv'
<1>0. SharedOK /\ CallsOK /\ RecordedOK /\ (\A d \in Calls : BarredOK(d)) /\ Earned
  BY DEF PipelineInv
<1>1. PICK t \in Nat : t = now
  BY <1>0 DEF SharedOK
<1> DEFINE y == [pc |-> "record", req |-> q, at |-> t, effect |-> effect, blocked |-> FALSE,
                 verdict |-> IF effect = "allow" THEN "none" ELSE "enforce", entry |-> "none",
                 answer |-> "none"]
<1>2. Set(c, y) /\ call[c].pc = "idle" /\ UNCHANGED <<recorded, strikes, troubles, peak, failClosed, now>>
      /\ barred' = IF strikes[q.actor] >= RogueStrikes THEN barred \cup {c} ELSE barred
  BY <1>1 DEF Begin, Elsewhere
<1>3. y.pc = "record" /\ y.req = q /\ y.at = t /\ y.verdict # "allowed" /\ y.answer = "none"
  OBVIOUS
<1>4. y \in CallRecords /\ PhaseOK(y)
  BY DEF CallRecords, PhaseOK, Running, Verdicts, Effects, Concluded, Failed
<1> HIDE DEF y
<1>5. /\ CallsOK' /\ call'[c] = y
      /\ \A d \in Calls \ {c} : call'[d] = call[d]
      /\ \A a \in Actors : Cardinality(Struck(a)) <= Cardinality(Struck(a)')
  BY <1>0, <1>1, <1>2, <1>3, <1>4, CallMoves DEF Undecided, SharedOK
<1>6. SharedOK'
  BY <1>0, <1>2 DEF SharedOK
<1>11. RecordedOK'
  BY <1>0, <1>2, <1>3, <1>5 DEF RecordedOK
<1>7. Earned'
  BY <1>0, <1>2, <1>5, EarnedStays
<1>8. c \notin barred
  BY <1>0, <1>2 DEF BarredOK
<1>9. BarredOK(c)'
  BY <1>2, <1>3, <1>5, <1>8 DEF BarredOK
<1>10. ASSUME NEW d \in Calls, d # c
       PROVE  BarredOK(d)'
  BY <1>0, <1>2, <1>5, <1>10 DEF BarredOK
<1> QED
  BY <1>5, <1>6, <1>7, <1>9, <1>10, <1>11 DEF PipelineInv

\* A step of one call that leaves the strikes and the history of others alone.
LEMMA QuietStep ==
  ASSUME PipelineInv, NEW c \in Calls, NEW y \in CallRecords, Set(c, y), PhaseOK(y),
         UNCHANGED <<failClosed, now, strikes, barred>>,
         call[c].pc # "idle", y.req = call[c].req, y.at = call[c].at,
         \/ call[c].pc \in Undecided
         \/ y.pc \notin Undecided /\ y.effect = call[c].effect,
         y.pc \in {"examine", "count", "finalize"} =>
           \E i \in DOMAIN recorded' : recorded'[i] = c,
         \A d \in Calls : (\E i \in DOMAIN recorded : recorded[i] = d) =>
           (\E i \in DOMAIN recorded' : recorded'[i] = d),
         recorded' \in Seq(Calls), troubles' \in 0 .. MaxTroubles, peak' \in [Grants -> Nat],
         c \in barred =>
           /\ y.pc # "idle" /\ y.verdict # "allowed"
           /\ y.pc = "count" => y.blocked
           /\ failClosed => y.answer # "allowed"
  PROVE  PipelineInv'
<1>0. SharedOK /\ CallsOK /\ RecordedOK /\ (\A d \in Calls : BarredOK(d)) /\ Earned
  BY DEF PipelineInv
<1>1. now \in Nat /\ now' = now /\ y.at <= now
  BY <1>0 DEF SharedOK, CallsOK
<1>2. now <= now' /\ now' \in Nat /\ y.at <= now'
  BY <1>1
<1>3. /\ CallsOK' /\ call'[c] = y
      /\ \A d \in Calls \ {c} : call'[d] = call[d]
      /\ \A a \in Actors : Cardinality(Struck(a)) <= Cardinality(Struck(a)')
  BY <1>0, <1>1, <1>2, CallMoves
<1>4. SharedOK'
  BY <1>0 DEF SharedOK
<1>5. RecordedOK'
  BY <1>0, <1>3 DEF RecordedOK
<1>6. Earned'
  BY <1>0, <1>3, EarnedStays
<1>7. BarredOK(c)'
  BY <1>0, <1>3 DEF BarredOK
<1>8. ASSUME NEW d \in Calls, d # c
      PROVE  BarredOK(d)'
  BY <1>0, <1>3, <1>8 DEF BarredOK
<1> QED
  BY <1>3, <1>4, <1>5, <1>6, <1>7, <1>8 DEF PipelineInv

LEMMA RecordKeeps ==
  ASSUME PipelineInv, NEW c \in Calls, Record(c)
  PROVE  PipelineInv'
<1>0. SharedOK /\ CallsOK /\ RecordedOK /\ BarredOK(c)
  BY DEF PipelineInv
<1>1. PICK x : x = call[c]
  OBVIOUS
<1>2. x \in CallRecords /\ PhaseOK(x) /\ x.pc = "record"
  BY <1>0, <1>1 DEF CallsOK, Record
<1> DEFINE y == [x EXCEPT !.pc = IF x.verdict = "none" THEN "examine" ELSE "finalize"]
<1>3. Set(c, y) /\ recorded' = Append(recorded, c)
      /\ UNCHANGED <<failClosed, now, strikes, barred, troubles, peak>>
  BY <1>1 DEF Record, WithAction, Elsewhere, History
<1>4. y \in CallRecords /\ PhaseOK(y) /\ y.req = x.req /\ y.at = x.at /\ y.verdict = x.verdict
      /\ y.pc \in {"examine", "finalize"} /\ y.answer = x.answer
  BY <1>2 DEF CallRecords, PhaseOK, Running, Concluded, Failed
<1>5. /\ recorded' \in Seq(Calls)
      /\ \E i \in DOMAIN recorded' : recorded'[i] = c
      /\ \A i \in DOMAIN recorded : i \in DOMAIN recorded' /\ recorded'[i] = recorded[i]
  BY <1>0, <1>3 DEF SharedOK
<1> HIDE DEF y
<1> QED
  BY <1>0, <1>1, <1>2, <1>3, <1>4, <1>5, QuietStep DEF BarredOK, SharedOK, Undecided

LEMMA ExamineKeeps ==
  ASSUME PipelineInv, NEW c \in Calls, Examine(c)
  PROVE  PipelineInv'
<1>0. SharedOK /\ CallsOK /\ RecordedOK /\ BarredOK(c)
  BY DEF PipelineInv
<1>1. PICK x : x = call[c]
  OBVIOUS
<1>2. x \in CallRecords /\ PhaseOK(x) /\ x.pc = "examine"
  BY <1>0, <1>1 DEF CallsOK, Examine
<1>3. x.req.flawed \in BOOLEAN
  BY <1>2, PipelineAssumption DEF PhaseOK
<1>4. PICK b \in BOOLEAN : b = (x.req.flawed \/ ConsentFatigue(c) \/ Rogue(c))
  BY <1>3 DEF ConsentFatigue, Rogue
<1> DEFINE y == [x EXCEPT !.pc = "count", !.blocked = b]
<1>5. Set(c, y) /\ UNCHANGED <<recorded, failClosed, now, strikes, barred, troubles, peak>>
  BY <1>1, <1>4 DEF Examine, Elsewhere, History
<1>6. y \in CallRecords /\ PhaseOK(y) /\ y.req = x.req /\ y.at = x.at /\ y.verdict = x.verdict
      /\ y.pc = "count" /\ y.answer = x.answer /\ y.blocked = b
  BY <1>2 DEF CallRecords, PhaseOK, Running, Concluded, Failed
<1>7. c \in barred => b
  BY <1>0, <1>1, <1>4 DEF BarredOK, Rogue
<1> HIDE DEF y
<1>8. \E i \in DOMAIN recorded : recorded[i] = c
  BY <1>0, <1>1, <1>2 DEF RecordedOK
<1> QED
  BY <1>0, <1>1, <1>2, <1>5, <1>6, <1>7, <1>8, QuietStep DEF BarredOK, SharedOK, Undecided

LEMMA ConcludeKeeps ==
  ASSUME PipelineInv, NEW c \in Calls, NEW opened \in BOOLEAN, NEW ok \in BOOLEAN,
         Conclude(c, opened, ok)
  PROVE  PipelineInv'
<1>0. SharedOK /\ CallsOK /\ RecordedOK /\ BarredOK(c)
  BY DEF PipelineInv
<1>1. PICK x : x = call[c]
  OBVIOUS
<1>2. x \in CallRecords /\ PhaseOK(x) /\ x.pc = "count"
  BY <1>0, <1>1 DEF CallsOK, Conclude
<1>3. PICK v \in {"authority", "detect", "allowed"} :
        v = Combine(call[c], call[c].blocked \/ Unrecoverable(c) \/ call[c].req.broken)
  BY DEF Combine
<1> DEFINE y == [x EXCEPT !.verdict = v,
                   !.effect = IF v = "allowed" THEN @ ELSE "deny",
                   !.entry = IF opened THEN PlanAfter(v) ELSE "planned",
                   !.pc = IF opened /\ ok THEN "finalize" ELSE "failed"]
<1>4. /\ Set(c, y) /\ UNCHANGED <<recorded, failClosed, now, strikes, barred>>
      /\ troubles' = IF opened /\ ok THEN troubles ELSE troubles + 1
      /\ ~(opened /\ ok) => troubles < MaxTroubles
  BY <1>1, <1>3 DEF Conclude, Elsewhere, Trouble
<1>5. y.req = x.req /\ y.at = x.at /\ y.verdict = v /\ y.answer = x.answer
      /\ y.entry = (IF opened THEN PlanAfter(v) ELSE "planned")
      /\ y.effect = (IF v = "allowed" THEN x.effect ELSE "deny")
      /\ y.pc = (IF opened /\ ok THEN "finalize" ELSE "failed")
  BY <1>2 DEF CallRecords
<1>6. y \in CallRecords
  BY <1>2 DEF CallRecords, PlanAfter, Running, Verdicts, Effects
<1> HIDE DEF y
<1>7. PhaseOK(y)
  BY <1>2, <1>3, <1>5 DEF PhaseOK, Concluded, Failed, PlanAfter
<1>8. troubles' \in 0 .. MaxTroubles
  BY <1>0, <1>4, PipelineAssumption DEF SharedOK
<1>9. peak' \in [Grants -> Nat]
  <2>1. x.req.grant \in Grants
    BY <1>2, RequestTypes DEF PhaseOK
  <2>2. IsFiniteSet(InFlight(x.req.grant)) /\ Cardinality(InFlight(x.req.grant)) \in Nat
    BY SomeCallsFinite DEF InFlight
  <2>3. PICK n \in Nat : n = Cardinality(InFlight(x.req.grant)) + 1
    BY <2>2
  <2>4. peak' = [peak EXCEPT ![x.req.grant] = n] \/ peak' = peak
    BY <1>1, <2>3 DEF Conclude
  <2> QED
    BY <1>0, <2>1, <2>4 DEF SharedOK
<1>10. c \in barred => y.pc # "idle" /\ y.pc # "count" /\ y.verdict # "allowed" /\ (failClosed => y.answer # "allowed")
  BY <1>0, <1>1, <1>2, <1>3, <1>5 DEF BarredOK, Combine
<1>11. \E i \in DOMAIN recorded : recorded[i] = c
  BY <1>0, <1>1, <1>2 DEF RecordedOK
<1> QED
  BY <1>0, <1>1, <1>2, <1>4, <1>5, <1>6, <1>7, <1>8, <1>9, <1>10, <1>11, QuietStep
  DEF SharedOK, Undecided

\* A failed call, a failing stage, the caller's confirm or its failed action.
LEMMA LaterKeeps ==
  ASSUME PipelineInv, NEW c \in Calls,
         Raise(c) \/ (\E ok \in BOOLEAN : EngineFailure(c, ok)) \/ Confirm(c) \/ ForwardFails(c)
  PROVE  PipelineInv'
<1>0. SharedOK /\ CallsOK /\ RecordedOK /\ BarredOK(c)
  BY DEF PipelineInv
<1>1. PICK x : x = call[c]
  OBVIOUS
<1>2. x \in CallRecords /\ PhaseOK(x)
  BY <1>0, <1>1 DEF CallsOK
<1>3. UNCHANGED <<recorded, failClosed, now, strikes, barred, peak>> /\ troubles' \in 0 .. MaxTroubles
  <2>1. UNCHANGED <<recorded, failClosed, now, strikes, barred, peak>>
    BY DEF Raise, EngineFailure, Confirm, ForwardFails, Elsewhere, History
  <2>2. \/ troubles' = troubles
        \/ troubles < MaxTroubles /\ troubles' = troubles + 1
    BY DEF Raise, EngineFailure, Confirm, ForwardFails, History, Trouble
  <2>3. troubles \in 0 .. MaxTroubles /\ MaxTroubles \in Nat
    BY <1>0, PipelineAssumption DEF SharedOK
  <2> QED
    BY <2>1, <2>2, <2>3
<1>4. CASE Raise(c)
  <2> DEFINE y == [x EXCEPT !.pc = "failed"]
  <2>1. Set(c, y) /\ x.pc \in {"record", "examine", "count"}
    BY <1>1, <1>4 DEF Raise
  <2>2. y \in CallRecords /\ PhaseOK(y) /\ y.req = x.req /\ y.at = x.at /\ y.verdict = x.verdict
        /\ y.pc = "failed" /\ y.answer = x.answer /\ y.effect = x.effect
    BY <1>2, <2>1 DEF CallRecords, PhaseOK, Running, Concluded, Failed
  <2> HIDE DEF y
  <2> QED
    BY <1>0, <1>1, <1>3, <2>1, <2>2, QuietStep DEF BarredOK, SharedOK, Undecided
<1>5. ASSUME NEW ok \in BOOLEAN, EngineFailure(c, ok)
      PROVE  PipelineInv'
  <2>1. PICK answer \in {"allowed", "refused", "raised"} :
          answer = IF ok THEN FailureAnswer ELSE "raised"
    BY DEF FailureAnswer
  <2> DEFINE y == [x EXCEPT !.pc = IF ok THEN "returned" ELSE "raised",
                     !.verdict = "engine_failure", !.answer = answer]
  <2>2. Set(c, y) /\ x.pc = "failed"
    BY <1>1, <1>5, <2>1 DEF EngineFailure
  <2>3. y.req = x.req /\ y.at = x.at /\ y.verdict = "engine_failure" /\ y.entry = x.entry
        /\ y.pc = (IF ok THEN "returned" ELSE "raised") /\ y.answer = answer /\ y.effect = x.effect
    BY <1>2 DEF CallRecords
  <2>4. y \in CallRecords
    BY <1>2 DEF CallRecords, Verdicts
  <2> HIDE DEF y
  <2>5. PhaseOK(y)
    BY <1>2, <2>1, <2>2, <2>3 DEF PhaseOK, Failed, FailureAnswer
  <2>6. failClosed => y.answer # "allowed"
    BY <2>1, <2>3 DEF FailureAnswer
  <2> QED
    BY <1>0, <1>1, <1>3, <2>2, <2>3, <2>4, <2>5, <2>6, QuietStep DEF BarredOK, SharedOK, Undecided
<1>6. ASSUME NEW e \in {"committed", "abandoned"}, x.pc = "returned", x.answer = "allowed",
             Set(c, [x EXCEPT !.pc = "done", !.entry = IF x.verdict = "allowed" THEN e ELSE @])
      PROVE  PipelineInv'
  <2> DEFINE y == [x EXCEPT !.pc = "done", !.entry = IF x.verdict = "allowed" THEN e ELSE @]
  <2>1. y.req = x.req /\ y.at = x.at /\ y.verdict = x.verdict /\ y.answer = x.answer
        /\ y.entry = (IF x.verdict = "allowed" THEN e ELSE x.entry)
        /\ y.pc = "done" /\ y.effect = x.effect
    BY <1>2 DEF CallRecords
  <2>2. y \in CallRecords
    BY <1>2 DEF CallRecords
  <2>3. Set(c, y)
    BY <1>6
  <2> HIDE DEF y
  <2>4. PhaseOK(y)
    BY <1>2, <1>6, <2>1 DEF PhaseOK, Concluded, Failed
  <2> QED
    BY <1>0, <1>1, <1>3, <1>6, <2>1, <2>2, <2>3, <2>4, QuietStep DEF BarredOK, SharedOK, Undecided
<1>7. CASE Confirm(c)
  BY <1>1, <1>6, <1>7 DEF Confirm
<1>8. CASE ForwardFails(c)
  BY <1>1, <1>6, <1>8 DEF ForwardFails
<1> QED
  BY <1>4, <1>5, <1>7, <1>8

\* A call that is refused on its merits strikes its actor and is counted.
LEMMA FinalizeKeeps ==
  ASSUME PipelineInv, NEW c \in Calls, NEW ok \in BOOLEAN, Finalize(c, ok)
  PROVE  PipelineInv'
<1>0. SharedOK /\ CallsOK /\ RecordedOK /\ (\A d \in Calls : BarredOK(d)) /\ Earned
  BY DEF PipelineInv
<1>1. PICK x : x = call[c]
  OBVIOUS
<1>2. x \in CallRecords /\ PhaseOK(x) /\ x.pc = "finalize" /\ Concluded(x) /\ x.req \in Requests
  BY <1>0, <1>1 DEF CallsOK, Finalize, PhaseOK
<1>3. PICK answer \in {"none", "allowed", "refused", "raised"} :
        answer = IF ok THEN (IF x.verdict = "allowed" THEN "allowed" ELSE "refused") ELSE x.answer
  BY <1>2 DEF PhaseOK, CallRecords
<1> DEFINE y == [x EXCEPT !.pc = IF ok THEN "returned" ELSE "failed", !.answer = answer]
           actor == x.req.actor
<1>4. y.req = x.req /\ y.at = x.at /\ y.verdict = x.verdict /\ y.entry = x.entry
      /\ y.pc = (IF ok THEN "returned" ELSE "failed") /\ y.answer = answer /\ y.effect = x.effect
  BY <1>2 DEF CallRecords
<1>5. y \in CallRecords
  BY <1>2 DEF CallRecords, Running
<1>6. Set(c, y)
  <2>1. CASE ok
    BY <1>1, <1>3, <2>1 DEF Finalize
  <2>2. CASE ~ok
    <3>1. [x EXCEPT !.pc = "failed"] = y
      BY <1>2, <1>3, <2>2 DEF CallRecords
    <3> QED
      BY <1>1, <2>2, <3>1 DEF Finalize
  <2> QED
    BY <2>1, <2>2
<1> HIDE DEF y
<1>7. PhaseOK(y)
  BY <1>2, <1>3, <1>4 DEF PhaseOK, Concluded, Failed
<1>8. /\ UNCHANGED <<recorded, failClosed, now, barred, peak>>
      /\ strikes' = IF Strikes(x) THEN [strikes EXCEPT ![actor] = @ + 1] ELSE strikes
  BY <1>1 DEF Finalize, Elsewhere
<1>9. troubles' \in 0 .. MaxTroubles
  <2>1. \/ troubles' = troubles
        \/ troubles < MaxTroubles /\ troubles' = troubles + 1
    BY DEF Finalize, Trouble
  <2>2. troubles \in 0 .. MaxTroubles /\ MaxTroubles \in Nat
    BY <1>0, PipelineAssumption DEF SharedOK
  <2> QED
    BY <2>1, <2>2
<1>10. actor \in Actors
  BY <1>2, RequestTypes
<1>11. /\ strikes' \in [Actors -> Nat]
       /\ \A a \in Actors : strikes[a] \in Nat /\ strikes'[a] \in Nat /\ strikes[a] <= strikes'[a]
       /\ strikes'[actor] = strikes[actor] + (IF Strikes(x) THEN 1 ELSE 0)
       /\ \A a \in Actors \ {actor} : strikes'[a] = strikes[a]
  BY <1>0, <1>8, <1>10 DEF SharedOK
<1>12. now \in Nat /\ now' = now /\ y.at <= now
  BY <1>0, <1>1, <1>4, <1>8 DEF SharedOK, CallsOK
<1>13. now <= now' /\ now' \in Nat /\ y.at <= now'
  BY <1>12
<1>14. /\ CallsOK' /\ call'[c] = y
       /\ \A d \in Calls \ {c} : call'[d] = call[d]
       /\ \A a \in Actors : /\ Struck(a) \subseteq Struck(a)'
                            /\ Cardinality(Struck(a)) <= Cardinality(Struck(a)')
  BY <1>0, <1>1, <1>2, <1>5, <1>6, <1>7, <1>12, <1>13, CallMoves DEF Undecided
<1>15. SharedOK'
  BY <1>0, <1>8, <1>9, <1>11 DEF SharedOK
<1>16. RecordedOK'
  BY <1>0, <1>4, <1>8, <1>14 DEF RecordedOK
<1>17. Earned'
  <2>1. ASSUME NEW a \in Actors
        PROVE  strikes'[a] <= Cardinality(Struck(a)')
    <3>1. IsFiniteSet(Struck(a)) /\ Cardinality(Struck(a)) \in Nat
          /\ IsFiniteSet(Struck(a)') /\ Cardinality(Struck(a)') \in Nat
      BY SomeCallsFinite DEF Struck
    <3>2. strikes[a] <= Cardinality(Struck(a))
      BY <1>0 DEF Earned
    <3>3. CASE a = actor /\ Strikes(x)
      <4>1. c \notin Struck(a)
        BY <1>1, <1>2 DEF Struck, Undecided
      <4>2. x.effect = "deny"
        BY <1>2, <3>3 DEF Strikes, Concluded, CallRecords, Effects
      <4>3. c \in Struck(a)'
        BY <1>4, <1>14, <3>3, <4>2 DEF Struck, Undecided
      <4>4. Struck(a) \cup {c} \subseteq Struck(a)'
        BY <1>14, <4>3
      <4>5. Cardinality(Struck(a) \cup {c}) = Cardinality(Struck(a)) + 1
        BY <3>1, <4>1, FS_AddElement
      <4>6. Cardinality(Struck(a) \cup {c}) <= Cardinality(Struck(a)')
        BY <3>1, <4>4, FS_Subset
      <4> QED
        BY <1>11, <3>1, <3>2, <3>3, <4>5, <4>6
    <3>4. CASE ~(a = actor /\ Strikes(x))
      <4>1. strikes'[a] = strikes[a] /\ strikes[a] \in Nat
        BY <1>11, <3>4
      <4> QED
        BY <1>14, <3>1, <3>2, <4>1
    <3> QED
      BY <3>3, <3>4
  <2> QED
    BY <2>1 DEF Earned
<1>18. ASSUME NEW d \in Calls
       PROVE  BarredOK(d)'
  <2>1. RogueStrikes \in Nat
    BY PipelineAssumption
  <2>2. CASE d = c
    <3>1. BarredOK(c)
      BY <1>0
    <3>2. c \in barred => strikes'[actor] >= RogueStrikes
      BY <1>1, <1>10, <1>11, <2>1, <3>1 DEF BarredOK
    <3>3. c \in barred => x.verdict # "allowed" /\ (failClosed => x.answer # "allowed")
      BY <1>1, <3>1 DEF BarredOK
    <3>4. c \in barred => (failClosed => answer # "allowed")
      BY <1>3, <3>3
    <3>5. y.pc \notin {"idle", "count"}
      BY <1>4
    <3> QED
      BY <1>4, <1>8, <1>14, <2>2, <3>2, <3>3, <3>4, <3>5 DEF BarredOK
  <2>3. CASE d # c
    <3>1. BarredOK(d) /\ call'[d] = call[d]
      BY <1>0, <1>14, <2>3
    <3>2. call[d].pc # "idle" => call[d].req.actor \in Actors
      BY <1>0, RequestTypes DEF CallsOK, PhaseOK
    <3>3. d \in barred => strikes'[call[d].req.actor] >= RogueStrikes
      BY <1>11, <2>1, <3>1, <3>2 DEF BarredOK
    <3> QED
      BY <1>8, <3>1, <3>3 DEF BarredOK
  <2> QED
    BY <2>2, <2>3
<1> QED
  BY <1>14, <1>15, <1>16, <1>17, <1>18 DEF PipelineInv

\* Time passes, or nothing happens.
LEMMA FrameKeeps ==
  ASSUME PipelineInv, Tick \/ UNCHANGED pvars
  PROVE  PipelineInv'
<1>0. SharedOK /\ CallsOK /\ RecordedOK /\ (\A d \in Calls : BarredOK(d)) /\ Earned
  BY DEF PipelineInv
<1>1. UNCHANGED <<failClosed, call, recorded, strikes, troubles, barred, peak>>
  BY DEF Tick, History, pvars
<1>2. now \in Nat /\ (now' = now + 1 \/ now' = now)
  BY <1>0 DEF Tick, pvars, SharedOK
<1>3. CallsOK'
  BY <1>0, <1>1, <1>2 DEF CallsOK, CallRecords
<1>4. SharedOK' /\ RecordedOK'
  BY <1>0, <1>1, <1>2 DEF SharedOK, RecordedOK
<1>5. \A d \in Calls : BarredOK(d)'
  BY <1>0, <1>1 DEF BarredOK
<1>6. Earned'
  BY <1>0, <1>1 DEF Earned, Struck
<1> QED
  BY <1>3, <1>4, <1>5, <1>6 DEF PipelineInv

LEMMA PipelineInit == Init => PipelineInv
<1> SUFFICES ASSUME Init PROVE PipelineInv
  OBVIOUS
<1>1. NoCall \in CallRecords /\ PhaseOK(NoCall) /\ NoCall.pc = "idle" /\ NoCall.at = 0
  BY DEF NoCall, CallRecords, PhaseOK, Running, Effects, Verdicts, Concluded, Failed
<1>2. CallsOK
  BY <1>1 DEF Init, CallsOK
<1>3. SharedOK
  BY PipelineAssumption DEF Init, SharedOK
<1>4. RecordedOK /\ \A c \in Calls : BarredOK(c)
  BY <1>1 DEF Init, RecordedOK, BarredOK
<1>5. Earned
  <2>1. ASSUME NEW a \in Actors
        PROVE  strikes[a] <= Cardinality(Struck(a))
    <3>1. Cardinality(Struck(a)) \in Nat
      BY SomeCallsFinite DEF Struck
    <3> QED
      BY <3>1 DEF Init
  <2> QED
    BY <2>1 DEF Earned
<1> QED
  BY <1>2, <1>3, <1>4, <1>5 DEF PipelineInv

\* Whatever stages of other calls run in between, and whatever raises.
THEOREM PipelineInvariant == Spec => []PipelineInv
<1>1. PipelineInv /\ [Next]_pvars => PipelineInv'
  <2> SUFFICES ASSUME PipelineInv, [Next]_pvars
               PROVE  PipelineInv'
    OBVIOUS
  <2>1. ASSUME NEW c \in Calls, NEW q \in Requests, NEW effect \in Effects, Begin(c, q, effect)
        PROVE  PipelineInv'
    BY <2>1, BeginKeeps
  <2>2. ASSUME NEW c \in Calls, Step(c)
        PROVE  PipelineInv'
    BY <2>2, RecordKeeps, ExamineKeeps, LaterKeeps, ConcludeKeeps, FinalizeKeeps DEF Step
  <2>3. ASSUME NEW c \in Calls, Confirm(c) \/ ForwardFails(c)
        PROVE  PipelineInv'
    BY <2>3, LaterKeeps
  <2>4. CASE Tick \/ UNCHANGED pvars
    BY <2>4, FrameKeeps
  <2> QED
    BY <2>1, <2>2, <2>3, <2>4 DEF Next
<1> QED
  BY <1>1, PipelineInit, PTL DEF Spec

\* For any calls, requests, thresholds and exceptions: a call begun in quarantine is
\* never answered "allowed" by a control plane that fails closed, and strikes are
\* earned by refusals that were no person's choice.
THEOREM QuarantineStaysSound == Spec => []QuarantineIsSound
<1>1. ASSUME PipelineInv
      PROVE  QuarantineIsSound
  <2>0. SharedOK /\ CallsOK /\ RecordedOK /\ (\A d \in Calls : BarredOK(d)) /\ Earned
    BY <1>1 DEF PipelineInv
  <2>1. TypeOK
    <3>1. ASSUME NEW c \in Calls
          PROVE  LET x == call[c]
                 IN /\ DOMAIN x = DOMAIN NoCall
                    /\ x.pc \in Running \cup {"idle", "returned", "raised", "done"}
                    /\ x.req \in Requests \cup {NoCall.req}
                    /\ x.at \in 0 .. now
                    /\ x.effect \in Effects /\ x.blocked \in BOOLEAN
                    /\ x.verdict \in Verdicts
                    /\ x.entry \in {"none", "planned", "committed", "abandoned"}
                    /\ x.answer \in {"none", "allowed", "refused", "raised"}
                    /\ x.pc \in {"returned", "done"} <=> x.answer \in {"allowed", "refused"}
      <4>1. PICK x \in CallRecords : x = call[c] /\ PhaseOK(x) /\ x.at <= now
        BY <2>0 DEF CallsOK
      <4>2. DOMAIN x = DOMAIN NoCall
        BY DEF CallRecords, NoCall
      <4>3. x.at \in 0 .. now
        <5>1. x.at \in Nat /\ now \in Nat /\ x.at <= now
          BY <2>0, <4>1 DEF CallRecords, SharedOK
        <5> QED
          BY <5>1
      <4>4. x.pc \in {"returned", "done"} <=> x.answer \in {"allowed", "refused"}
        BY <4>1 DEF PhaseOK
      <4> QED
        BY <4>1, <4>2, <4>3, <4>4 DEF CallRecords
    <3>2. /\ failClosed \in BOOLEAN
          /\ now \in Nat /\ troubles \in 0 .. MaxTroubles
          /\ recorded \in Seq(Calls) /\ strikes \in [Actors -> Nat]
          /\ barred \subseteq Calls /\ peak \in [Grants -> Nat]
      BY <2>0 DEF SharedOK
    <3>3. \A c \in Calls : call[c].pc \in {"examine", "count", "finalize"} =>
            \E i \in DOMAIN recorded : recorded[i] = c
      BY <2>0 DEF RecordedOK
    <3> QED
      BY <3>1, <3>2, <3>3 DEF TypeOK
  <2>2. QuarantineHolds
    BY <2>0 DEF QuarantineHolds, BarredOK, SharedOK
  <2>3. QuarantineIsEarned
    <3>1. ASSUME NEW a \in Actors
          PROVE  strikes[a] <= Cardinality(Refusals(a))
      <4>1. Struck(a) \subseteq Refusals(a)
        BY DEF Struck, Refusals, Undecided
      <4>2. IsFiniteSet(Refusals(a)) /\ Cardinality(Refusals(a)) \in Nat
        BY SomeCallsFinite DEF Refusals
      <4>3. Cardinality(Struck(a)) <= Cardinality(Refusals(a)) /\ Cardinality(Struck(a)) \in Nat
        <5>1. Cardinality(Struck(a)) <= Cardinality(Refusals(a))
          BY <4>1, <4>2, FS_Subset
        <5>2. Cardinality(Struck(a)) \in Nat
          BY SomeCallsFinite DEF Struck
        <5> QED
          BY <5>1, <5>2
      <4>4. strikes[a] <= Cardinality(Struck(a)) /\ strikes[a] \in Nat
        BY <2>0 DEF Earned, SharedOK
      <4> QED
        BY <4>2, <4>3, <4>4
    <3> QED
      BY <3>1 DEF QuarantineIsEarned
  <2> QED
    BY <2>1, <2>2, <2>3 DEF QuarantineIsSound
<1> QED
  BY <1>1, PipelineInvariant, PTL

\* What authorize answered and what it left in the journal agree, also where the plan,
\* the abandonment or the append of the verdict raised.
THEOREM JournalKeepsMatching == Spec => []JournalMatchesAnswer
<1>1. ASSUME PipelineInv
      PROVE  JournalMatchesAnswer
  <2>1. ASSUME NEW c \in Calls, call[c].pc \in {"returned", "done"}
        PROVE  CASE call[c].verdict = "allowed" -> call[c].entry = "planned" <=> call[c].pc = "returned"
                 [] call[c].verdict = "enforce" -> call[c].entry = "none"
                 [] call[c].verdict \in {"authority", "detect"} -> call[c].entry = "abandoned"
                 [] call[c].verdict = "engine_failure" -> call[c].entry # "committed"
    <3>1. PhaseOK(call[c])
      BY <1>1 DEF PipelineInv, CallsOK
    <3>2. CASE call[c].pc = "returned"
      BY <3>1, <3>2 DEF PhaseOK, Concluded, Failed
    <3>3. CASE call[c].pc = "done"
      BY <3>1, <3>3 DEF PhaseOK, Failed
    <3> QED
      BY <2>1, <3>2, <3>3
  <2> QED
    BY <2>1 DEF JournalMatchesAnswer
<1> QED
  BY <1>1, PipelineInvariant, PTL

-----------------------------------------------------------------------------
(* The detectors that count.                                               *)

FanOK(g) ==
  LET n == Cardinality(CommittedOneWay(g)) + Cardinality(InFlight(g))
  IN n > 0 => n + 2 <= FanoutLimit + peak[g]

\* A call is recorded once, and after it began.
RecordedOnce ==
  /\ \A i, j \in DOMAIN recorded : recorded[i] = recorded[j] => i = j
  /\ \A i \in DOMAIN recorded : call[recorded[i]].pc \notin {"idle", "record"}

Burst(c) ==
  {d \in Before(c) :
     /\ call[d].req.actor = call[c].req.actor
     /\ call[d].req.risk <= LowRisk
     /\ call[d].at \in (call[c].at - FatigueWindow) .. (call[c].at - 1)}

\* What was examined and passed was not preceded by a burst.
BurstOK(c) ==
  /\ (call[c].pc = "count" /\ ~call[c].blocked) \/ call[c].verdict = "allowed"
  /\ call[c].req.risk >= HighRisk
  => Cardinality(Burst(c)) < BurstCount

DetectorInv ==
  /\ \A g \in Grants : FanOK(g)
  /\ RecordedOnce
  /\ \A c \in Calls : BurstOK(c)

\* What a step of one call may do to that call's record; all others keep theirs.
Progress(c) ==
  /\ \A d \in Calls \ {c} : call'[d] = call[d]
  /\ call[c].pc # "idle" => call'[c].req = call[c].req /\ call'[c].at = call[c].at

\* The steps that neither let a one-way call through nor confirm one.
LEMMA FanStays ==
  ASSUME DetectorInv, NEW c \in Calls, NEW g \in Grants, Progress(c), peak' = peak,
         peak \in [Grants -> Nat],
         c \in CommittedOneWay(g)' => c \in CommittedOneWay(g),
         c \in InFlight(g)' => c \in InFlight(g)
  PROVE  FanOK(g)'
<1>1. CommittedOneWay(g)' \subseteq CommittedOneWay(g) /\ InFlight(g)' \subseteq InFlight(g)
  BY DEF Progress, CommittedOneWay, InFlight, OneWay, IsOneWay
<1>2. /\ IsFiniteSet(CommittedOneWay(g)) /\ IsFiniteSet(InFlight(g))
      /\ Cardinality(CommittedOneWay(g)) \in Nat /\ Cardinality(InFlight(g)) \in Nat
      /\ Cardinality(CommittedOneWay(g)') \in Nat /\ Cardinality(InFlight(g)') \in Nat
  BY SomeCallsFinite DEF CommittedOneWay, InFlight
<1>3. /\ Cardinality(CommittedOneWay(g)') <= Cardinality(CommittedOneWay(g))
      /\ Cardinality(InFlight(g)') <= Cardinality(InFlight(g))
  BY <1>1, <1>2, FS_Subset
<1>4. peak[g] \in Nat /\ FanoutLimit \in Nat
  BY PipelineAssumption
<1> DEFINE n == Cardinality(CommittedOneWay(g)) + Cardinality(InFlight(g))
           m == Cardinality(CommittedOneWay(g)') + Cardinality(InFlight(g)')
<1>5. n > 0 => n + 2 <= FanoutLimit + peak[g]
  BY DEF DetectorInv, FanOK
<1>6. n \in Nat /\ m \in Nat /\ m <= n
  BY <1>2, <1>3
<1> HIDE DEF n, m
<1>7. m > 0 => m + 2 <= FanoutLimit + peak'[g]
  BY <1>4, <1>5, <1>6
<1> QED
  BY <1>7 DEF FanOK, m

\* The burst before a call is settled once the call is recorded.
LEMMA BurstStays ==
  ASSUME PipelineInv, DetectorInv, NEW c \in Calls, NEW d \in Calls, Progress(c),
         recorded' = recorded, d = c => call[c].pc # "idle"
  PROVE  Burst(d)' = Burst(d)
<1>1. Before(d)' = Before(d)
  BY DEF Before
<1>2. \A e \in Before(d) : call[e].pc # "idle"
  BY DEF Before, DetectorInv, RecordedOnce
<1>3. \A e \in Before(d) \cup {d} : call'[e].req = call[e].req /\ call'[e].at = call[e].at
  BY <1>2 DEF Progress, Before
<1> QED
  BY <1>1, <1>3 DEF Burst

\* Steps that record nothing and let no new call past the detectors.
LEMMA BurstOKStays ==
  ASSUME PipelineInv, DetectorInv, NEW c \in Calls, Progress(c), recorded' = recorded,
         call[c].pc # "idle",
         call[c].pc # "record" => call'[c].pc \notin {"idle", "record"},
         call'[c].pc # "count",
         call'[c].verdict = "allowed" =>
           call[c].verdict = "allowed" \/ (call[c].pc = "count" /\ ~call[c].blocked)
  PROVE  RecordedOnce' /\ \A d \in Calls : BurstOK(d)'
<1>1. RecordedOnce'
  BY DEF DetectorInv, RecordedOnce, Progress, PipelineInv, SharedOK
<1>2. ASSUME NEW d \in Calls
      PROVE  BurstOK(d)'
  <2>1. Burst(d)' = Burst(d)
    BY BurstStays
  <2>2. BurstOK(d)
    BY DEF DetectorInv
  <2>3. CASE d = c
    BY <2>1, <2>2, <2>3 DEF BurstOK, Progress
  <2>4. CASE d # c
    BY <2>1, <2>2, <2>4 DEF BurstOK, Progress
  <2> QED
    BY <2>3, <2>4
<1> QED
  BY <1>1, <1>2

LEMMA BeginDetects ==
  ASSUME PipelineInv, DetectorInv, NEW c \in Calls, NEW q \in Requests, NEW effect \in Effects,
         Begin(c, q, effect)
  PROVE  DetectorInv'
<1>0. /\ call \in [Calls -> CallRecords] /\ PhaseOK(call[c]) /\ recorded \in Seq(Calls)
      /\ peak \in [Grants -> Nat]
  BY DEF PipelineInv, CallsOK, SharedOK
<1>1. /\ Progress(c) /\ call[c].pc = "idle" /\ UNCHANGED <<recorded, peak>>
      /\ call'[c].pc = "record" /\ call'[c].entry = "none" /\ call'[c].verdict # "allowed"
  BY <1>0 DEF Begin, Set, Progress, Elsewhere
<1>2. \A g \in Grants : c \notin CommittedOneWay(g)' /\ c \notin InFlight(g)'
  BY <1>1 DEF CommittedOneWay, InFlight
<1>3. \A g \in Grants : FanOK(g)'
  BY <1>0, <1>1, <1>2, FanStays
<1>4. RecordedOnce'
  <2>1. \A i \in DOMAIN recorded : recorded[i] \in Calls \ {c}
    BY <1>0, <1>1 DEF DetectorInv, RecordedOnce
  <2> QED
    BY <1>1, <2>1 DEF DetectorInv, RecordedOnce, Progress
<1>5. ASSUME NEW d \in Calls
      PROVE  BurstOK(d)'
  <2>1. CASE d = c
    BY <1>1, <2>1 DEF BurstOK
  <2>2. CASE d # c
    <3>1. Burst(d)' = Burst(d)
      BY <1>1, <2>2, BurstStays
    <3> QED
      BY <1>1, <2>2, <3>1 DEF BurstOK, DetectorInv, Progress
  <2> QED
    BY <2>1, <2>2
<1> QED
  BY <1>3, <1>4, <1>5 DEF DetectorInv

LEMMA RecordDetects ==
  ASSUME PipelineInv, DetectorInv, NEW c \in Calls, Record(c)
  PROVE  DetectorInv'
<1>0. /\ call \in [Calls -> CallRecords] /\ PhaseOK(call[c]) /\ recorded \in Seq(Calls)
      /\ peak \in [Grants -> Nat]
  BY DEF PipelineInv, CallsOK, SharedOK
<1>1. /\ Progress(c) /\ call[c].pc = "record" /\ recorded' = Append(recorded, c) /\ peak' = peak
      /\ call'[c].pc \in {"examine", "finalize"} /\ call'[c].entry = "none"
      /\ call'[c].verdict # "allowed"
  BY <1>0 DEF Record, Set, Progress, History, WithAction, PhaseOK, CallRecords
<1>2. \A g \in Grants : c \notin CommittedOneWay(g)' /\ c \notin InFlight(g)'
  BY <1>1 DEF CommittedOneWay, InFlight
<1>3. \A g \in Grants : FanOK(g)'
  BY <1>0, <1>1, <1>2, FanStays
<1>4. \A i \in DOMAIN recorded : recorded[i] \in Calls \ {c}
  BY <1>0, <1>1 DEF DetectorInv, RecordedOnce
<1>5. /\ DOMAIN recorded = 1 .. Len(recorded) /\ Len(recorded) \in Nat
      /\ DOMAIN recorded' = 1 .. Len(recorded) + 1
      /\ \A i \in 1 .. Len(recorded) : recorded'[i] = recorded[i]
      /\ recorded'[Len(recorded) + 1] = c
  BY <1>0, <1>1
<1>6. RecordedOnce'
  <2>1. \A i, j \in DOMAIN recorded' : recorded'[i] = recorded'[j] => i = j
    BY <1>4, <1>5 DEF DetectorInv, RecordedOnce
  <2>2. \A i \in DOMAIN recorded' : call'[recorded'[i]].pc \notin {"idle", "record"}
    BY <1>1, <1>4, <1>5 DEF DetectorInv, RecordedOnce, Progress
  <2> QED
    BY <2>1, <2>2 DEF RecordedOnce
<1>7. ASSUME NEW d \in Calls
      PROVE  BurstOK(d)'
  <2>1. CASE d = c
    BY <1>1, <2>1 DEF BurstOK
  <2>2. CASE d # c
    <3>1. Before(d)' = Before(d)
      <4>1. ASSUME NEW e \in Calls
            PROVE  (\E i, j \in DOMAIN recorded' : i < j /\ recorded'[i] = e /\ recorded'[j] = d)
                   <=> \E i, j \in DOMAIN recorded : i < j /\ recorded[i] = e /\ recorded[j] = d
        BY <1>5, <2>2
      <4> QED
        BY <4>1 DEF Before
    <3>2. \A e \in Before(d) \cup {d} : call'[e].req = call[e].req /\ call'[e].at = call[e].at
      BY <1>1 DEF Progress, Before
    <3>3. Burst(d)' = Burst(d)
      BY <3>1, <3>2 DEF Burst
    <3> QED
      BY <1>1, <2>2, <3>3 DEF BurstOK, DetectorInv, Progress
  <2> QED
    BY <2>1, <2>2
<1> QED
  BY <1>3, <1>6, <1>7 DEF DetectorInv

LEMMA ExamineDetects ==
  ASSUME PipelineInv, DetectorInv, NEW c \in Calls, Examine(c)
  PROVE  DetectorInv'
<1>0. /\ call \in [Calls -> CallRecords] /\ PhaseOK(call[c]) /\ recorded \in Seq(Calls)
      /\ peak \in [Grants -> Nat]
  BY DEF PipelineInv, CallsOK, SharedOK
<1>1. /\ Progress(c) /\ call[c].pc = "examine" /\ UNCHANGED <<recorded, peak>>
      /\ call'[c].pc = "count" /\ call'[c].entry = "none" /\ call'[c].verdict # "allowed"
      /\ ~call'[c].blocked => ~ConsentFatigue(c)
  BY <1>0 DEF Examine, Set, Progress, Elsewhere, History, PhaseOK, CallRecords
<1>2. \A g \in Grants : c \notin CommittedOneWay(g)' /\ c \notin InFlight(g)'
  BY <1>1 DEF CommittedOneWay, InFlight
<1>3. \A g \in Grants : FanOK(g)'
  BY <1>0, <1>1, <1>2, FanStays
<1>4. RecordedOnce'
  <2>1. \A i \in DOMAIN recorded : recorded[i] \in Calls
    BY <1>0
  <2>2. \A d \in Calls : call[d].pc \notin {"idle", "record"} => call'[d].pc \notin {"idle", "record"}
    BY <1>1 DEF Progress
  <2> QED
    BY <1>1, <2>1, <2>2 DEF DetectorInv, RecordedOnce
<1>5. ASSUME NEW d \in Calls
      PROVE  BurstOK(d)'
  <2>1. Burst(d)' = Burst(d)
    BY <1>1, BurstStays
  <2>2. CASE d = c
    <3>1. Burst(c) \subseteq LowRiskBurst(c)
      <4>1. \A e \in Before(c) : e \in ByActor(c) \/ call[e].req.actor # call[c].req.actor
        BY <1>0 DEF Before, ByActor, DetectorInv, RecordedOnce
      <4>2. \A e \in Before(c) : e \in Calls /\ call[e].at \in Nat /\ call[c].at \in Nat
        BY <1>0 DEF Before, CallRecords
      <4>3. FatigueWindow \in Nat
        BY PipelineAssumption
      <4> QED
        BY <4>1, <4>2, <4>3 DEF Burst, LowRiskBurst
    <3>2. IsFiniteSet(LowRiskBurst(c)) /\ Cardinality(LowRiskBurst(c)) \in Nat
      BY SomeCallsFinite DEF LowRiskBurst, ByActor
    <3>3. Cardinality(Burst(c)) <= Cardinality(LowRiskBurst(c)) /\ Cardinality(Burst(c)) \in Nat
      BY <3>1, <3>2, FS_Subset, FS_CardinalityType
    <3>4. BurstCount \in Nat
      BY PipelineAssumption
    <3>5. ~call'[c].blocked /\ call[c].req.risk >= HighRisk => Cardinality(Burst(c)) < BurstCount
      BY <1>1, <3>2, <3>3, <3>4 DEF ConsentFatigue
    <3> QED
      BY <1>1, <2>1, <2>2, <3>5 DEF BurstOK, Progress
  <2>3. CASE d # c
    BY <1>1, <2>1, <2>3 DEF BurstOK, DetectorInv, Progress
  <2> QED
    BY <2>2, <2>3
<1> QED
  BY <1>3, <1>4, <1>5 DEF DetectorInv

\* The stages after the detectors, and the caller, where no one-way call is let through
\* or confirmed.
LEMMA QuietDetects ==
  ASSUME PipelineInv, DetectorInv, NEW c \in Calls,
         \/ Raise(c)
         \/ \E ok \in BOOLEAN : Finalize(c, ok) \/ EngineFailure(c, ok)
         \/ ForwardFails(c)
  PROVE  DetectorInv'
<1>0. /\ call \in [Calls -> CallRecords] /\ PhaseOK(call[c]) /\ recorded \in Seq(Calls)
      /\ peak \in [Grants -> Nat]
  BY DEF PipelineInv, CallsOK, SharedOK
<1>1. /\ Progress(c) /\ call[c].pc \notin {"idle", "done"} /\ UNCHANGED <<recorded, peak>>
      /\ call'[c].pc \notin {"idle", "record", "examine", "count", "finalize"}
      /\ call'[c].verdict = "allowed" => call[c].verdict = "allowed"
      /\ call'[c].entry = "committed" => call[c].entry = "committed"
      /\ call'[c].pc = "returned" /\ call'[c].verdict = "allowed" => call[c].pc = "finalize"
  <2>1. CASE Raise(c)
    BY <1>0, <2>1 DEF Raise, Set, Progress, CallRecords
  <2>2. ASSUME NEW ok \in BOOLEAN, Finalize(c, ok)
        PROVE  <1>1!:
    BY <1>0, <2>2 DEF Finalize, Set, Progress, CallRecords
  <2>3. ASSUME NEW ok \in BOOLEAN, EngineFailure(c, ok)
        PROVE  <1>1!:
    BY <1>0, <2>3 DEF EngineFailure, Set, Progress, CallRecords
  <2>4. CASE ForwardFails(c)
    BY <1>0, <2>4 DEF ForwardFails, Set, Progress, CallRecords, History
  <2> QED
    BY <2>1, <2>2, <2>3, <2>4
<1>2. ASSUME NEW g \in Grants
      PROVE  FanOK(g)'
  <2>1. OneWay(c)' = OneWay(c) /\ call'[c].req = call[c].req
    BY <1>1 DEF Progress, OneWay, IsOneWay
  <2>2. c \in CommittedOneWay(g)' => c \in CommittedOneWay(g)
    BY <1>1, <2>1 DEF CommittedOneWay
  <2>3. c \in InFlight(g)' => c \in InFlight(g)
    BY <1>1, <2>1 DEF InFlight
  <2> QED
    BY <1>0, <1>1, <2>2, <2>3, FanStays
<1>3. RecordedOnce' /\ \A d \in Calls : BurstOK(d)'
  BY <1>1, BurstOKStays
<1> QED
  BY <1>2, <1>3 DEF DetectorInv

LEMMA OneMore ==
  ASSUME NEW S \in SUBSET Calls, NEW c \in Calls
  PROVE  /\ IsFiniteSet(S \cup {c}) /\ Cardinality(S \cup {c}) \in Nat
         /\ Cardinality(S \cup {c}) <= Cardinality(S) + 1
<1>1. IsFiniteSet(S) /\ Cardinality(S) \in Nat /\ IsFiniteSet(S \cup {c}) /\ Cardinality(S \cup {c}) \in Nat
  BY SomeCallsFinite
<1>2. CASE c \in S
  <2>1. S \cup {c} = S
    BY <1>2
  <2> QED
    BY <1>1, <2>1
<1>3. CASE c \notin S
  BY <1>1, <1>3, FS_AddElement
<1> QED
  BY <1>2, <1>3

\* A confirm turns a one-way call in flight into a committed one.
LEMMA ConfirmDetects ==
  ASSUME PipelineInv, DetectorInv, NEW c \in Calls, Confirm(c)
  PROVE  DetectorInv'
<1>0. /\ call \in [Calls -> CallRecords] /\ PhaseOK(call[c]) /\ recorded \in Seq(Calls)
      /\ peak \in [Grants -> Nat]
  BY DEF PipelineInv, CallsOK, SharedOK
<1>1. /\ Progress(c) /\ call[c].pc = "returned" /\ call'[c].pc = "done" /\ UNCHANGED <<recorded, peak>>
      /\ call'[c].verdict = call[c].verdict
      /\ call'[c].entry = IF call[c].verdict = "allowed" THEN "committed" ELSE call[c].entry
  BY <1>0 DEF Confirm, Set, Progress, CallRecords, History
<1>2. ASSUME NEW g \in Grants
      PROVE  FanOK(g)'
  <2>1. OneWay(c)' = OneWay(c) /\ call'[c].req = call[c].req
    BY <1>1 DEF Progress, OneWay, IsOneWay
  <2>2. CASE c \notin InFlight(g)
    <3>1. c \in CommittedOneWay(g)' => c \in CommittedOneWay(g)
      BY <1>1, <2>1, <2>2 DEF CommittedOneWay, InFlight
    <3>2. c \notin InFlight(g)'
      BY <1>1 DEF InFlight
    <3> QED
      BY <1>0, <1>1, <3>1, <3>2, FanStays
  <2>3. CASE c \in InFlight(g)
    <3>1. /\ CommittedOneWay(g)' \subseteq CommittedOneWay(g) \cup {c}
          /\ InFlight(g)' = InFlight(g) \ {c}
      BY <1>1, <2>1, <2>3 DEF CommittedOneWay, InFlight, Progress, OneWay, IsOneWay
    <3>2. /\ IsFiniteSet(CommittedOneWay(g)) /\ IsFiniteSet(InFlight(g))
          /\ Cardinality(CommittedOneWay(g)) \in Nat /\ Cardinality(InFlight(g)) \in Nat
      BY SomeCallsFinite DEF CommittedOneWay, InFlight
    <3>3. /\ IsFiniteSet(CommittedOneWay(g) \cup {c})
          /\ Cardinality(CommittedOneWay(g) \cup {c}) <= Cardinality(CommittedOneWay(g)) + 1
          /\ Cardinality(CommittedOneWay(g) \cup {c}) \in Nat
      BY OneMore DEF CommittedOneWay
    <3>4. Cardinality(CommittedOneWay(g)') <= Cardinality(CommittedOneWay(g) \cup {c})
          /\ Cardinality(CommittedOneWay(g)') \in Nat
      BY <3>1, <3>3, FS_Subset, FS_CardinalityType
    <3>5. Cardinality(InFlight(g)') = Cardinality(InFlight(g)) - 1
      BY <2>3, <3>1, <3>2, FS_RemoveElement
    <3>6. Cardinality(InFlight(g)) > 0
      <4>1. Cardinality(InFlight(g)) # 0
        BY <2>3, <3>2, FS_EmptySet
      <4> QED
        BY <3>2, <4>1
    <3>7. peak[g] \in Nat /\ FanoutLimit \in Nat /\ peak' = peak
      BY <1>0, <1>1, PipelineAssumption
    <3>8. Cardinality(CommittedOneWay(g)) + Cardinality(InFlight(g)) + 2 <= FanoutLimit + peak[g]
      BY <3>2, <3>6 DEF DetectorInv, FanOK
    <3>9. Cardinality(CommittedOneWay(g)') + Cardinality(InFlight(g)') + 2 <= FanoutLimit + peak'[g]
      BY <3>2, <3>3, <3>4, <3>5, <3>6, <3>7, <3>8
    <3> QED
      BY <3>9 DEF FanOK
  <2> QED
    BY <2>2, <2>3
<1>3. RecordedOnce' /\ \A d \in Calls : BurstOK(d)'
  BY <1>1, BurstOKStays
<1> QED
  BY <1>2, <1>3 DEF DetectorInv

\* The only step that lets a call through counts what is committed, and the peak counts
\* what is in flight.
LEMMA ConcludeDetects ==
  ASSUME PipelineInv, DetectorInv, NEW c \in Calls, NEW opened \in BOOLEAN, NEW ok \in BOOLEAN,
         Conclude(c, opened, ok)
  PROVE  DetectorInv'
<1>0. /\ call \in [Calls -> CallRecords] /\ PhaseOK(call[c]) /\ recorded \in Seq(Calls)
      /\ peak \in [Grants -> Nat]
  BY DEF PipelineInv, CallsOK, SharedOK
<1> DEFINE v == Combine(call[c], call[c].blocked \/ Unrecoverable(c) \/ call[c].req.broken)
           h == call[c].req.grant
           counted == v = "allowed" /\ opened /\ ok /\ OneWay(c)
           n(g) == Cardinality(InFlight(g)) + 1
<1>1. /\ Progress(c) /\ call[c].pc = "count" /\ recorded' = recorded
      /\ call'[c].pc \in {"finalize", "failed"} /\ (call'[c].pc = "finalize" => opened /\ ok)
      /\ call'[c].verdict = v /\ call'[c].entry # "committed"
      /\ peak' = IF counted /\ n(h) > peak[h] THEN [peak EXCEPT ![h] = n(h)] ELSE peak
  BY <1>0 DEF Conclude, Set, Progress, CallRecords, PlanAfter, Elsewhere
<1>2. v = "allowed" => ~call[c].blocked /\ ~Unrecoverable(c)
  BY DEF Combine
<1>3. \A g \in Grants : IsFiniteSet(InFlight(g)) /\ Cardinality(InFlight(g)) \in Nat
  BY SomeCallsFinite DEF InFlight
<1>4. h \in Grants
  BY <1>0, <1>1, RequestTypes DEF PhaseOK
<1> HIDE DEF v
<1>5. ASSUME NEW g \in Grants
      PROVE  FanOK(g)'
  <2>1. OneWay(c)' = OneWay(c) /\ call'[c].req = call[c].req
    BY <1>1 DEF Progress, OneWay, IsOneWay
  <2>2. c \notin CommittedOneWay(g)'
    BY <1>1 DEF CommittedOneWay
  <2>3. CASE ~(counted /\ g = h)
    <3>1. c \notin InFlight(g)'
      BY <1>1, <2>1, <2>3 DEF InFlight
    <3>2. peak'[g] = peak[g]
      BY <1>0, <1>1, <1>3, <1>4, <2>3
    <3>3. CommittedOneWay(g)' \subseteq CommittedOneWay(g) /\ InFlight(g)' \subseteq InFlight(g)
      BY <1>1, <2>2, <3>1 DEF CommittedOneWay, InFlight, Progress, OneWay, IsOneWay
    <3>4. /\ IsFiniteSet(CommittedOneWay(g)) /\ IsFiniteSet(InFlight(g))
          /\ Cardinality(CommittedOneWay(g)) \in Nat /\ Cardinality(InFlight(g)) \in Nat
          /\ Cardinality(CommittedOneWay(g)') \in Nat /\ Cardinality(InFlight(g)') \in Nat
      BY SomeCallsFinite DEF CommittedOneWay, InFlight
    <3>5. /\ Cardinality(CommittedOneWay(g)') <= Cardinality(CommittedOneWay(g))
          /\ Cardinality(InFlight(g)') <= Cardinality(InFlight(g))
      BY <3>3, <3>4, FS_Subset
    <3>6. peak[g] \in Nat /\ FanoutLimit \in Nat
      BY <1>0, PipelineAssumption
    <3> DEFINE old == Cardinality(CommittedOneWay(g)) + Cardinality(InFlight(g))
               new == Cardinality(CommittedOneWay(g)') + Cardinality(InFlight(g)')
    <3>7. old > 0 => old + 2 <= FanoutLimit + peak[g]
      BY DEF DetectorInv, FanOK
    <3>8. old \in Nat /\ new \in Nat /\ new <= old
      BY <3>4, <3>5
    <3> HIDE DEF old, new
    <3>9. new > 0 => new + 2 <= FanoutLimit + peak'[g]
      BY <3>2, <3>6, <3>7, <3>8
    <3> QED
      BY <3>9 DEF FanOK, new
  <2>4. CASE counted /\ g = h
    <3>1. InFlight(g)' \subseteq InFlight(g) \cup {c}
      BY <1>1 DEF InFlight, Progress, OneWay, IsOneWay
    <3>2. CommittedOneWay(g)' \subseteq CommittedOneWay(g)
      BY <1>1, <2>2 DEF CommittedOneWay, Progress, OneWay, IsOneWay
    <3>3. /\ IsFiniteSet(CommittedOneWay(g)) /\ IsFiniteSet(InFlight(g))
          /\ Cardinality(CommittedOneWay(g)) \in Nat /\ Cardinality(InFlight(g)) \in Nat
          /\ Cardinality(CommittedOneWay(g)') \in Nat /\ Cardinality(InFlight(g)') \in Nat
      BY SomeCallsFinite DEF CommittedOneWay, InFlight
    <3>4. /\ IsFiniteSet(InFlight(g) \cup {c})
          /\ Cardinality(InFlight(g) \cup {c}) <= Cardinality(InFlight(g)) + 1
          /\ Cardinality(InFlight(g) \cup {c}) \in Nat
      BY OneMore DEF InFlight
    <3>5. /\ Cardinality(InFlight(g)') <= Cardinality(InFlight(g) \cup {c})
          /\ Cardinality(CommittedOneWay(g)') <= Cardinality(CommittedOneWay(g))
      BY <3>1, <3>2, <3>3, <3>4, FS_Subset
    <3>6. ~(Cardinality(CommittedOneWay(g)) + 1 >= FanoutLimit)
      BY <1>2, <2>4 DEF Unrecoverable
    <3>7. peak'[g] \in Nat /\ peak'[g] >= Cardinality(InFlight(g)) + 1 /\ FanoutLimit \in Nat
      BY <1>0, <1>1, <1>3, <1>4, <2>4, PipelineAssumption
    <3>8. Cardinality(CommittedOneWay(g)') + Cardinality(InFlight(g)') + 2 <= FanoutLimit + peak'[g]
      BY <3>3, <3>4, <3>5, <3>6, <3>7
    <3> QED
      BY <3>8 DEF FanOK
  <2> QED
    BY <2>3, <2>4
<1>6. RecordedOnce' /\ \A d \in Calls : BurstOK(d)'
  BY <1>1, <1>2, BurstOKStays
<1> QED
  BY <1>5, <1>6 DEF DetectorInv

\* Time passes, or nothing happens.
LEMMA FrameDetects ==
  ASSUME DetectorInv, Tick \/ UNCHANGED pvars
  PROVE  DetectorInv'
<1>1. UNCHANGED <<call, recorded, peak>>
  BY DEF Tick, History, pvars
<1>2. \A g \in Grants : FanOK(g)'
  BY <1>1 DEF DetectorInv, FanOK, CommittedOneWay, InFlight, OneWay
<1>3. RecordedOnce'
  BY <1>1 DEF DetectorInv, RecordedOnce
<1>4. \A c \in Calls : BurstOK(c)'
  BY <1>1 DEF DetectorInv, BurstOK, Burst, Before
<1> QED
  BY <1>2, <1>3, <1>4 DEF DetectorInv

LEMMA DetectorInit == Init => DetectorInv
<1> SUFFICES ASSUME Init PROVE DetectorInv
  OBVIOUS
<1>1. /\ recorded = <<>>
      /\ \A c \in Calls : call[c].pc = "idle" /\ call[c].entry = "none" /\ call[c].verdict = "none"
  BY DEF Init, NoCall
<1>2. ASSUME NEW g \in Grants
      PROVE  FanOK(g)
  <2>1. CommittedOneWay(g) = {} /\ InFlight(g) = {}
    BY <1>1 DEF CommittedOneWay, InFlight
  <2>2. Cardinality({}) = 0
    BY FS_EmptySet
  <2> QED
    BY <2>1, <2>2 DEF FanOK
<1>3. RecordedOnce
  BY <1>1 DEF RecordedOnce
<1>4. \A c \in Calls : BurstOK(c)
  BY <1>1 DEF BurstOK
<1> QED
  BY <1>2, <1>3, <1>4 DEF DetectorInv

\* For any calls, thresholds and interleaving of their stages: one-way effects under a
\* grant exceed the limit only by calls that were in flight together, and no high-risk
\* action is allowed right after a recorded burst of low-risk ones.
THEOREM DetectorsAlwaysCount == Spec => []DetectorsCount
<1>1. PipelineInv /\ DetectorInv /\ [Next]_pvars => DetectorInv'
  <2> SUFFICES ASSUME PipelineInv, DetectorInv, [Next]_pvars
               PROVE  DetectorInv'
    OBVIOUS
  <2>1. ASSUME NEW c \in Calls, NEW q \in Requests, NEW effect \in Effects, Begin(c, q, effect)
        PROVE  DetectorInv'
    BY <2>1, BeginDetects
  <2>2. ASSUME NEW c \in Calls, Step(c)
        PROVE  DetectorInv'
    BY <2>2, RecordDetects, ExamineDetects, QuietDetects, ConcludeDetects DEF Step
  <2>3. ASSUME NEW c \in Calls, Confirm(c) \/ ForwardFails(c)
        PROVE  DetectorInv'
    BY <2>3, ConfirmDetects, QuietDetects
  <2>4. CASE Tick \/ UNCHANGED pvars
    BY <2>4, FrameDetects
  <2> QED
    BY <2>1, <2>2, <2>3, <2>4 DEF Next
<1>2. DetectorInv => DetectorsCount
  BY DEF DetectorInv, FanOK, BurstOK, Burst, DetectorsCount, FanoutBounded, BurstsAreSeen
<1> QED
  BY <1>1, <1>2, PipelineInvariant, DetectorInit, PTL DEF Spec
=============================================================================
