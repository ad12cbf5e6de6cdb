-------------------------- MODULE AuthorizePipeline --------------------------
(***************************************************************************)
(* The stages of ControlPlane.authorize and what they read while other     *)
(* calls run: src/src/revoco/controlplane.py (_authorize_inner,            *)
(* _run_detectors, _finalize, the failure handling of authorize) and the   *)
(* detectors of src/src/revoco/detect.py.                                  *)
(*                                                                         *)
(* No lock spans the stages of a call: each stage that reads or changes    *)
(* shared state is an action.  The gate, the budget and the chain walk     *)
(* answer freely here (their own modules say how); detectors over the      *)
(* call itself are one flag of the request; those that count past actions, *)
(* strikes and committed effects are modelled in full.                     *)
(***************************************************************************)
EXTENDS Reversibility, FiniteSets

CONSTANTS
  Actors, Grants,
  Calls,          \* calls of authorize
  Requests,       \* what a call may ask for
  RogueStrikes,   \* rogue_strike_threshold
  FanoutLimit,    \* irreversible_fanout_threshold
  BurstCount,     \* fatigue_burst_count
  FatigueWindow,  \* fatigue_window_seconds
  LowRisk,        \* fatigue_low_risk_max
  HighRisk,       \* fatigue_high_risk_min
  MaxTime,        \* bound of the clock
  MaxTroubles     \* bound of the exceptions

\* kind is what classify answers, plan the posture of the undo plan made later.
\* chain: the authority chain verifies.  flawed: the call itself has a blocking
\* finding (scope, expiry, cap, floor).  broken: its undo plan cannot be executed.
ASSUME PipelineAssumption ==
  /\ IsFiniteSet(Calls)
  /\ \A q \in Requests :
       /\ q.actor \in Actors /\ q.grant \in Grants
       /\ q.kind \in Kinds /\ q.plan \in Kinds
       /\ q.risk \in Nat
       /\ {q.chain, q.flawed, q.broken} \subseteq BOOLEAN
  /\ {RogueStrikes, FanoutLimit, BurstCount} \subseteq Nat \ {0}
  /\ {FatigueWindow, LowRisk, HighRisk, MaxTime, MaxTroubles} \subseteq Nat

VARIABLES
  failClosed,  \* ControlPlane.fail_closed, fixed by the deployment
  now,         \* the clock
  call,        \* each call of authorize
  recorded,    \* AuthorityEngine._actions, in order of recording
  strikes,     \* ControlPlane._actor_strikes
  troubles,    \* exceptions so far
  barred,      \* history: calls begun when their actor was quarantined
  peak         \* history: per grant, the most one-way calls in flight at once

pvars == <<failClosed, now, call, recorded, strikes, troubles, barred, peak>>

Running == {"record", "examine", "count", "finalize", "failed"}

\* pc: the stage a call is in.  verdict: what the stages decided, by the stage that
\* did.  effect: the verdict's effect.  answer: what authorize returned.
NoCall ==
  [pc |-> "idle", req |-> [actor |-> "none"], at |-> 0, effect |-> "allow",
   blocked |-> FALSE, verdict |-> "none", entry |-> "none", answer |-> "none"]

Init ==
  /\ failClosed \in BOOLEAN
  /\ now = 0
  /\ call = [c \in Calls |-> NoCall]
  /\ recorded = <<>>
  /\ strikes = [a \in Actors |-> 0]
  /\ troubles = 0
  /\ barred = {}
  /\ peak = [g \in Grants |-> 0]

Set(c, x) == call' = [call EXCEPT ![c] = x]

Elsewhere == UNCHANGED <<failClosed, now>>
History == UNCHANGED <<troubles, barred, peak>>

-----------------------------------------------------------------------------
(* Detectors.                                                              *)

ByActor(c) == {d \in Calls : \E i \in DOMAIN recorded : recorded[i] = d /\ d # c
                              /\ call[d].req.actor = call[c].req.actor}

\* Fault: low-risk actions of the same instant, and later ones, are left out and
\* so is the first instant of the window.
LateBurst(c) ==
  {d \in ByActor(c) : /\ call[d].req.risk <= LowRisk
                      /\ call[c].at - FatigueWindow < call[d].at
                      /\ call[d].at < call[c].at}

\* The low-risk actions shortly before this one; refused ones count too.
LowRiskBurst(c) ==
  {d \in ByActor(c) : /\ call[d].req.risk <= LowRisk
                      /\ call[c].at - FatigueWindow <= call[d].at
                      /\ call[d].at < call[c].at}

\* evaluate_action, ASI09.
ConsentFatigue(c) ==
  call[c].req.risk >= HighRisk /\ Cardinality(LowRiskBurst(c)) >= BurstCount

\* Fault: one strike more.
RogueLate(c) == strikes[call[c].req.actor] > RogueStrikes

\* evaluate_chain, ASI10; the strikes are read without the lock.
Rogue(c) == strikes[call[c].req.actor] >= RogueStrikes

OneWay(c) == IsOneWay(call[c].req.plan)

CommittedOneWay(g) ==
  {d \in Calls : call[d].entry = "committed" /\ call[d].req.grant = g /\ OneWay(d)}

\* evaluate_reversibility, PRA01: committed ones count, those in flight do not.
Unrecoverable(c) ==
  OneWay(c) /\ Cardinality(CommittedOneWay(call[c].req.grant)) + 1 >= FanoutLimit

-----------------------------------------------------------------------------
(* The stages.                                                             *)

\* authorize up to the plan: classify, look up the principal, ask the gate, a person
\* if it says so, then the budget.  All this reads nothing another call of this
\* model writes, so it is one step; the call waits in "record".  The effect is "deny"
\* if the gate denies or the budget has no room, "require_approval" if a person was
\* asked and declined.  REDACT goes on like ALLOW, with other arguments.
Begin(c, q, effect) ==
  /\ call[c].pc = "idle"
  /\ Set(c, [pc |-> "record", req |-> q, at |-> now, effect |-> effect, blocked |-> FALSE,
             verdict |-> IF effect = "allow" THEN "none" ELSE "enforce",
             entry |-> "none", answer |-> "none"])
  /\ barred' = IF strikes[q.actor] >= RogueStrikes THEN barred \cup {c} ELSE barred
  /\ UNCHANGED <<recorded, strikes, troubles, peak>> /\ Elsewhere

WithAction(c) == Append(recorded, c)

\* record_action, for refused calls too.
Record(c) ==
  /\ call[c].pc = "record"
  /\ recorded' = WithAction(c)
  /\ Set(c, [call[c] EXCEPT !.pc = IF call[c].verdict = "none" THEN "examine" ELSE "finalize"])
  /\ UNCHANGED strikes /\ Elsewhere /\ History

\* evaluate_action, evaluate_chain, evaluate_constraints.
Examine(c) ==
  /\ call[c].pc = "examine"
  /\ Set(c, [call[c] EXCEPT !.pc = "count",
               !.blocked = call[c].req.flawed \/ ConsentFatigue(c) \/ Rogue(c)])
  /\ UNCHANGED <<recorded, strikes>> /\ Elsewhere /\ History

\* Authority comes before detection.
Combine(x, blocked) ==
  IF ~x.req.chain THEN "authority" ELSE IF blocked THEN "detect" ELSE "allowed"

InFlight(g) ==
  {d \in Calls : /\ call[d].pc \in {"finalize", "returned"}
                 /\ call[d].verdict = "allowed" /\ call[d].req.grant = g /\ OneWay(d)}

\* An exception changes nothing but the course of this call.
Trouble(ok) ==
  /\ ~ok => troubles < MaxTroubles
  /\ troubles' = IF ok THEN troubles ELSE troubles + 1

\* Fault: a call that is not allowed keeps its plan.
KeptPlan(v) == "planned"

\* The entry after open_journal, and abandon unless the call is allowed.
PlanAfter(v) == IF v = "allowed" THEN "planned" ELSE "abandoned"

\* evaluate_reversibility, the verdict, open_journal, abandon.  The entry changes
\* before its event is appended; an append that raises ends the stage there.
Conclude(c, opened, ok) ==
  LET v == Combine(call[c], call[c].blocked \/ Unrecoverable(c) \/ call[c].req.broken)
      g == call[c].req.grant
      n == Cardinality(InFlight(g)) + 1
  IN /\ call[c].pc = "count"
     /\ Trouble(opened /\ ok)
     /\ Set(c, [call[c] EXCEPT !.verdict = v,
                  !.effect = IF v = "allowed" THEN @ ELSE "deny",
                  !.entry = IF opened THEN PlanAfter(v) ELSE "planned",
                  !.pc = IF opened /\ ok THEN "finalize" ELSE "failed"])
     /\ peak' = IF v = "allowed" /\ opened /\ ok /\ OneWay(c) /\ n > peak[g]
                THEN [peak EXCEPT ![g] = n] ELSE peak
     /\ UNCHANGED <<recorded, strikes, barred>> /\ Elsewhere

Strikes(x) == x.verdict # "allowed" /\ x.effect # "require_approval"

\* _finalize: strikes under the lock, then the append of the verdict, which may raise.
Finalize(c, ok) ==
  /\ call[c].pc = "finalize"
  /\ Trouble(ok)
  /\ strikes' = IF Strikes(call[c]) THEN [strikes EXCEPT ![call[c].req.actor] = @ + 1]
                ELSE strikes
  /\ Set(c, IF ok THEN [call[c] EXCEPT !.pc = "returned",
                          !.answer = IF call[c].verdict = "allowed" THEN "allowed" ELSE "refused"]
            ELSE [call[c] EXCEPT !.pc = "failed"])
  /\ UNCHANGED <<recorded, barred, peak>> /\ Elsewhere

\* A stage raises: a hook, the gate's conditions, a look-up, a detector.
Raise(c) ==
  /\ call[c].pc \in {"record", "examine", "count"}
  /\ Trouble(FALSE)
  /\ Set(c, [call[c] EXCEPT !.pc = "failed"])
  /\ UNCHANGED <<recorded, strikes, barred, peak>> /\ Elsewhere

FailureAnswer == IF failClosed THEN "refused" ELSE "allowed"

\* authorize catches, appends a verdict without an action and answers by fail_closed;
\* if that append raises too, the caller gets the exception.
EngineFailure(c, ok) ==
  /\ call[c].pc = "failed"
  /\ Trouble(ok)
  /\ Set(c, [call[c] EXCEPT !.pc = IF ok THEN "returned" ELSE "raised",
                            !.verdict = "engine_failure",
                            !.answer = IF ok THEN FailureAnswer ELSE "raised"])
  /\ UNCHANGED <<recorded, strikes, barred, peak>> /\ Elsewhere

-----------------------------------------------------------------------------
(* The caller, after authorize returned.                                   *)

\* The action ran, then confirm; a verdict without a journal entry confirms nothing.
Confirm(c) ==
  /\ call[c].pc = "returned" /\ call[c].answer = "allowed"
  /\ Set(c, [call[c] EXCEPT !.pc = "done",
               !.entry = IF call[c].verdict = "allowed" THEN "committed" ELSE @])
  /\ UNCHANGED <<recorded, strikes>> /\ Elsewhere /\ History

\* The action failed and the caller abandons the plan.
ForwardFails(c) ==
  /\ call[c].pc = "returned" /\ call[c].answer = "allowed"
  /\ Set(c, [call[c] EXCEPT !.pc = "done",
               !.entry = IF call[c].verdict = "allowed" THEN "abandoned" ELSE @])
  /\ UNCHANGED <<recorded, strikes>> /\ Elsewhere /\ History

Tick ==
  /\ now < MaxTime
  /\ now' = now + 1
  /\ UNCHANGED <<failClosed, call, recorded, strikes>> /\ History

Effects == {"allow", "deny", "require_approval"}

Step(c) ==
  \/ Record(c) \/ Examine(c) \/ Raise(c)
  \/ \E ok \in BOOLEAN :
       \/ \E opened \in BOOLEAN : Conclude(c, opened, ok)
       \/ Finalize(c, ok)
       \/ EngineFailure(c, ok)

Next ==
  \/ \E c \in Calls :
       \/ \E q \in Requests, effect \in Effects : Begin(c, q, effect)
       \/ Step(c)
       \/ Confirm(c) \/ ForwardFails(c)
  \/ Tick

Spec == Init /\ [][Next]_pvars

-----------------------------------------------------------------------------
(* Properties.                                                             *)

Verdicts == {"none", "enforce", "authority", "detect", "allowed", "engine_failure"}

TypeOK ==
  /\ failClosed \in BOOLEAN
  /\ now \in Nat /\ troubles \in 0 .. MaxTroubles
  /\ \A c \in Calls :
       LET x == call[c]
       IN /\ DOMAIN x = DOMAIN NoCall
          /\ x.pc \in Running \cup {"idle", "returned", "raised", "done"}
          /\ x.req \in Requests \cup {NoCall.req}
          /\ x.at \in 0 .. now
          /\ x.effect \in Effects /\ x.blocked \in BOOLEAN
          /\ x.verdict \in Verdicts
          /\ x.entry \in {"none", "planned", "committed", "abandoned"}
          /\ x.answer \in {"none", "allowed", "refused", "raised"}
          /\ x.pc \in {"returned", "done"} <=> x.answer \in {"allowed", "refused"}
  /\ recorded \in Seq(Calls)
  /\ \A c \in Calls : call[c].pc \in {"examine", "count", "finalize"} =>
       \E i \in DOMAIN recorded : recorded[i] = c
  /\ strikes \in [Actors -> Nat]
  /\ barred \subseteq Calls
  /\ peak \in [Grants -> Nat]

\* Quarantine holds: a call that begins when its actor has all its strikes is never
\* answered "allowed" by a control plane that fails closed, whatever fails, and
\* whatever other calls of the actor are in flight.
QuarantineHolds ==
  failClosed => \A c \in barred : call[c].answer # "allowed"

\* The actor's own refused calls, other than those a person declined.
Refusals(a) ==
  {c \in Calls : call[c].req.actor = a /\ call[c].pc # "idle"
                 /\ call[c].effect = "deny"}

\* Quarantine is earned: an actor has no more strikes than calls the control plane
\* itself refused.  A person who declines is exercising judgement, also when
\* several calls of the actor are being decided at once.
QuarantineIsEarned ==
  \A a \in Actors : strikes[a] <= Cardinality(Refusals(a))

\* The fan-out limit under concurrency: one-way effects committed or allowed under a
\* grant stay below the limit, exceeding it only by calls that were in flight
\* together.  A caller that confirms before it asks again (peak 1) never reaches it.
FanoutBounded ==
  \A g \in Grants :
    LET n == Cardinality(CommittedOneWay(g)) + Cardinality(InFlight(g))
    IN n > 0 => n + 2 <= FanoutLimit + peak[g]

Before(c) ==
  {d \in Calls : \E i, j \in DOMAIN recorded : i < j /\ recorded[i] = d /\ recorded[j] = c}

\* No high-risk action is allowed right after a burst of low-risk ones of its actor
\* that were recorded before it, whether those were allowed or not.
BurstsAreSeen ==
  \A c \in Calls :
    call[c].verdict = "allowed" /\ call[c].req.risk >= HighRisk =>
      Cardinality({d \in Before(c) :
                     /\ call[d].req.actor = call[c].req.actor
                     /\ call[d].req.risk <= LowRisk
                     /\ call[d].at \in (call[c].at - FatigueWindow) .. (call[c].at - 1)})
        < BurstCount

\* The journal agrees with what the caller was told: an allowed call has the entry
\* confirm needs, a refused call has none that could still be confirmed, and a plan
\* is left over only where the engine itself failed.
JournalMatchesAnswer ==
  \A c \in Calls :
    LET x == call[c]
    IN x.pc \in {"returned", "done"} =>
         CASE x.verdict = "allowed" -> x.entry = "planned" <=> x.pc = "returned"
           [] x.verdict = "enforce" -> x.entry = "none"
           [] x.verdict \in {"authority", "detect"} -> x.entry = "abandoned"
           [] x.verdict = "engine_failure" -> x.entry # "committed"

\* The types, and that a quarantine holds and is earned.
QuarantineIsSound == TypeOK /\ QuarantineHolds /\ QuarantineIsEarned

\* Both detectors that count see every call they should.
DetectorsCount == FanoutBounded /\ BurstsAreSeen
=============================================================================
