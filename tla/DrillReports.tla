---------------------------- MODULE DrillReports ----------------------------
(***************************************************************************)
(* What people are told of proven recoverability: the report, the coverage *)
(* figure and the attestation of src/src/revoco/drills.py, and the proof   *)
(* freshness of SqliteStore.startup_report.                                *)
(*                                                                         *)
(* Each reads the register, or the table, by a filter of its own; the      *)
(* schedule and the proof gate read them by others.                        *)
(***************************************************************************)
EXTENDS DrillRegister

Tracked == {t \in Tools : register[t].drilled}

\* RecoverabilityRegister.report
ReportedProven == {t \in Tracked : IsProven(t)}
ReportedAlarming == {t \in Tracked : IsAlarm(Outcome(register[t].last))}
ReportedStale == {t \in Tracked : IsProof(Outcome(register[t].last)) /\ ~IsProven(t)}
NeedsAttention == ReportedAlarming \cup ReportedStale

\* _ALARM_URGENCY: whose problem an alarm is.
AlarmUrgency ==
  [failed |-> "failing", partial |-> "failing", errored |-> "failing",
   unavailable |-> "blocked", forward_failed |-> "untested", forward_no_op |-> "untested"]

\* _URGENCY, the order in which the schedule takes them.
Priority == [failing |-> 0, blocked |-> 1, untested |-> 2, never_drilled |-> 3, stale |-> 4, ageing |-> 5]

ByUrgency(name) == {t \in ReportedAlarming : AlarmUrgency[Outcome(register[t].last)] = name}

\* RecoverabilityRegister.coverage of a tool surface.
CoverageOf(wanted) ==
  [proven |-> {t \in wanted : IsProven(t)},
   undrilled |-> {t \in wanted : ~register[t].drilled},
   failing |-> {t \in wanted : register[t].drilled /\ IsAlarm(Outcome(register[t].last))}]

\* ProvenRecoverability.status, by its kinds.
Status(t) ==
  CASE ~register[t].drilled -> "never drilled"
    [] register[t].drilled /\ Outcome(register[t].last) = "not_drillable" -> "not drillable"
    [] t \in ReportedAlarming -> "last drill"
    [] t \in ReportedStale -> "stale"
    [] t \in ReportedProven -> "proven"

\* What attest signs of a tool when an action on it is taken.
Attested(t) ==
  [proven |-> IsProven(t), age |-> register[t].pass,
   outcome |-> IF register[t].drilled THEN Outcome(register[t].last) ELSE "none"]

\* SqliteStore.last_pass_per_tool, and the tools startup_report calls stale.
PassedInTable == {t \in Tools : table[t].pass # Never}
StaleAtStartup == {t \in PassedInTable : ~Fresh(table[t].pass)}

-----------------------------------------------------------------------------
(* Properties.                                                             *)

Shares(whole, parts) ==
  /\ UNION parts = whole
  /\ \A a, b \in parts : a = b \/ a \cap b = {}

\* Whoever reads it, the register says one thing.  Every tracked tool is proven, or
\* needs attention, or has nothing to prove, and only one of them.  What needs
\* attention is what the schedule takes before the rest, in the order of the names the
\* report counts it under.  An attestation claims a proof only for a tool whose calls
\* the gate leaves as declared, with an age inside the window and a status to match.
\* What a coverage figure lists nowhere has gone stale or has nothing to prove.  And a
\* tool the startup report calls stale is one the gate treats as irreversible, as it
\* tells the operator (unless a drill is being recorded or two have overlapped).
ReportsAgree ==
  /\ LET idle == {t \in Tracked : Status(t) = "not drillable"}
     IN /\ Shares(Tracked, {ReportedProven, NeedsAttention, idle})
        /\ \A t \in NeedsAttention :
             Urgency(t) = Priority[IF t \in ReportedStale THEN "stale"
                                   ELSE AlarmUrgency[Outcome(register[t].last)]]
        /\ \A t \in Tracked : Urgency(t) < Priority["ageing"] => t \in NeedsAttention
  /\ Shares(ReportedAlarming, {ByUrgency(name) : name \in {"failing", "blocked", "untested"}})
  /\ \A t \in Tools :
       Attested(t).proven => ~Demoted(t) /\ Fresh(Attested(t).age) /\ Status(t) = "proven"
  /\ LET c == CoverageOf(Tools)
     IN Tools \ (c.proven \cup c.undrilled \cup c.failing)
          = ReportedStale \cup {t \in Tools : Status(t) = "not drillable"}
  /\ \A t \in StaleAtStartup : t \in tangled \/ Recording(t) \/ Demoted(t)

\* A proof does not lapse behind the schedule, and everyone who reads of it reads the
\* same.
ProofsStayFreshAndToldRight == ProofsStayFresh /\ ReportsAgree
=============================================================================
