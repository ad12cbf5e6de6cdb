--------------------------- MODULE ValidationRuns ---------------------------
(***************************************************************************)
(* Suites of drills compared with earlier suites: src/src/revoco/          *)
(* validation.py over the verdicts of DrillRegister.                       *)
(*                                                                         *)
(* A run is the outcome of each control it drilled, against one target.    *)
(* Each report compares a run with an earlier one the operator names, or   *)
(* with none; over months the reports form chains.  What is read off a     *)
(* chain is that nothing got worse as long as every report on it is clean. *)
(* Signatures and digests are left out: a report is about the runs it says.*)
(***************************************************************************)
EXTENDS DrillReports

CONSTANTS
  Targets,      \* systems that suites are run against
  Verdicts,     \* outcomes of drills that are compared
  MaxSuites     \* runs of a history

ASSUME ValidationAssumption == MaxSuites \in Nat \ {0}

Absent == "absent"

\* ValidationRun: a target, and at most one result for each tool.
Suites == [target : Targets, result : [Tools -> Verdicts \cup {Absent}]]

NoSuite == [t \in Tools |-> Absent]

\* What a suite finds that drills these controls in the world as it is.
SuiteOf(drilled) == [t \in Tools |-> IF t \in drilled THEN Outcome(world[t]) ELSE Absent]

\* Of each run, the earlier run it is compared with; 0 is none.
Bases == {b \in [1 .. MaxSuites -> 0 .. MaxSuites - 1] : \A k \in 1 .. MaxSuites : b[k] < k}

\* Histories: the runs in order, the last one now, and their bases.  compare refuses
\* runs of different targets.
Histories ==
  {h \in {[runs |-> Append(earlier, [target |-> target, result |-> SuiteOf(drilled)]),
           basis |-> basis] :
             earlier \in [1 .. MaxSuites - 1 -> Suites], target \in Targets,
             drilled \in SUBSET Tools, basis \in Bases} :
     \A k \in 1 .. MaxSuites :
       h.basis[k] # 0 => h.runs[h.basis[k]].target = h.runs[k].target}

-----------------------------------------------------------------------------
(* compare                                                                 *)

\* Fault: a control that has nothing to prove any more is fine.
IdleIsFine(now, before) ==
  CASE now = Absent -> IF before = Absent THEN "none" ELSE "disappeared"
    [] now = "not_drillable" -> "not_drillable"
    [] before \in {Absent, "not_drillable"} -> "newly_covered"
    [] IsProof(before) -> IF IsProof(now) THEN "still_proven" ELSE "regressed"
    [] OTHER -> IF IsProof(now) THEN "recovered" ELSE "still_failing"

\* How a control's standing moved between two outcomes.
Change(now, before) ==
  CASE now = Absent -> IF before = Absent THEN "none" ELSE "disappeared"
    [] now = "not_drillable" ->
         IF before \in {Absent, "not_drillable"} THEN "not_drillable" ELSE "regressed"
    [] before \in {Absent, "not_drillable"} -> "newly_covered"
    [] IsProof(before) -> IF IsProof(now) THEN "still_proven" ELSE "regressed"
    [] OTHER -> IF IsProof(now) THEN "recovered" ELSE "still_failing"

\* Change.is_alarm and Change.is_new_bad_news
IsAlarming(change) == change \in {"regressed", "still_failing", "disappeared"}
IsNewBadNews(change) == change \in {"regressed", "disappeared"}

\* The changes that the report on run k lists.
ReportOf(h, k) ==
  LET before == IF h.basis[k] = 0 THEN NoSuite ELSE h.runs[h.basis[k]].result
  IN [t \in Tools |-> Change(h.runs[k].result[t], before[t])]

\* ValidationReport.clean
Clean(report) == \A t \in Tools : ~IsNewBadNews(report[t])

-----------------------------------------------------------------------------
(* Properties.                                                             *)

\* The runs that clean reports lead back to from run k, itself among them.
CleanBack(h) ==
  LET back[k \in 1 .. MaxSuites] ==
        IF h.basis[k] = 0 \/ ~Clean(ReportOf(h, k)) THEN {k} ELSE {k} \cup back[h.basis[k]]
  IN back

\* A chain of clean reports keeps every proof: what was proven in any run on it is
\* proven in its last.  And it hides no failure: a control that fails in the last run
\* and was drilled in an earlier one on the chain is an alarm of the last report, so
\* that a failing control that only reads "newly covered" was never drilled before.
\* (The register has no part in it: a first state is enough.)
CleanReportsKeepProofs ==
  (\A t \in Tools : ~register[t].drilled) /\ (\A w \in Workers : worker[w] = Idle)
  /\ pause = 0 /\ counters = <<0, 0, 0>> /\ (\A t, u \in Tools : world[t] = world[u]) =>
  \A h \in Histories : \A k \in 1 .. MaxSuites : \A i \in CleanBack(h)[k] : \A t \in Tools :
    LET now == h.runs[k].result[t]
        before == h.runs[i].result[t]
    IN /\ IsProof(before) => IsProof(now)
       /\ i # k /\ before \notin {Absent, "not_drillable"} /\ now # Absent /\ ~IsProof(now) =>
            IsAlarming(ReportOf(h, k)[t])
=============================================================================
