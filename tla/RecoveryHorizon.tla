-------------------------- MODULE RecoveryHorizon --------------------------
(***************************************************************************)
(* What an operator is told about the undo options that are left, over the *)
(* journal of ReversalJournal: the horizon (reversal/horizon.py), the      *)
(* engine's undoable(), journal_health (detect.py) and the readiness       *)
(* report (evidence.py).  Each looks at an entry through flags of its own; *)
(* what counts is what ReversalEngine.reverse would do.                    *)
(***************************************************************************)
EXTENDS ReversalJournal

CONSTANTS
  Captures  \* tools whose specification has snapshot_fields

ASSUME CapturesAssumption ==
  Captures \subseteq Tools /\ \A t \in Tools : ArgsFrom(SpecOf[t].steps, "snapshot") # {} => t \in Captures

VARIABLE
  blind  \* entries whose plan has a snapshot_error

hvars == <<vars, blind>>

HInit == Init /\ blind = {}

\* ReversalEngine.plan: a reader that fails is noted, whether or not an argument of the
\* undo comes from the snapshot.  A reader that answers without some of the fields captures
\* no less badly, and nothing notes it.
HOpenJournal(e, captured, failed, kind) ==
  /\ OpenJournal(e, captured, kind)
  /\ failed => ~captured
  /\ captured \/ journal[e].tool \in Captures
  /\ blind' = IF failed THEN blind \cup {e} ELSE blind

HNext ==
  \/ \E e \in Entries, captured, failed \in BOOLEAN, kind \in Kinds :
       HOpenJournal(e, captured, failed, kind)
  \/ /\ \/ \E e \in Entries :
             \/ \E found \in BOOLEAN : Commit(e, found)
             \/ Abandon(e)
             \/ ReverseExpired(e)
             \/ \E force \in BOOLEAN, done \in SUBSET StepNames : Reverse(e, force, done)
        \/ ExpireStale
        \/ Tick
        \/ \E g \in Gates : FlipGate(g)
     /\ UNCHANGED blind

HFairSpec == HInit /\ [][HNext]_hvars /\ WF_vars(Tick) /\ WF_vars(ExpireStale)

-----------------------------------------------------------------------------
(* The views.                                                              *)

\* ReversalPlan.is_complete
IsComplete(x) ==
  IsUndoable(x.kind) /\ PlannedSteps(x) # <<>> /\ x.unresolved = {} /\ x.deferred = {}

\* Fault: only the snapshot is looked at.
OnlyBlind(e) == IsUndoable(journal[e].kind) /\ e \in blind

\* ReversalPlan.is_broken
IsBroken(e) == IsUndoable(journal[e].kind) /\ (journal[e].unresolved # {} \/ e \in blind)

InState(states) == {e \in Entries : journal[e].state \in states}

\* build: the bucket each entry goes to; entries in other states go to none.
StandingExposure ==
  InState({"reversal_failed"}) \cup {e \in InState({"committed"}) : IsOneWay(journal[e].kind)}

Broken == {e \in InState({"committed"}) : IsBroken(e)}

Expired ==
  InState({"expired"})
  \cup {e \in InState({"committed"}) \ (StandingExposure \cup Broken) : IsExpired(journal[e])}

Open == InState({"committed"}) \ (StandingExposure \cup Broken \cup Expired)

Closing == {e \in Open : HasWindow(journal[e])}

\* HorizonEntry.seconds_remaining, of an entry with a deadline.
SecondsRemaining(e) == journal[e].committedAt + SpecOf[journal[e].tool].window - now

NoDeadline == 0

\* Horizon.time_to_first_close
TimeToFirstClose ==
  IF Closing = {} THEN NoDeadline
  ELSE CHOOSE s \in {SecondsRemaining(e) : e \in Closing} :
         \A e \in Closing : s <= SecondsRemaining(e)

\* Horizon.closing_soon, with warn_within.
ClosingSoon(within) == {e \in Closing : SecondsRemaining(e) <= within}

\* Horizon.unrecoverable_count
Unrecoverable == Expired \cup StandingExposure \cup Broken

\* ReversalEngine.undoable, and "actually_undoable" of journal_health.
Undoable ==
  {e \in InState({"committed"}) : IsComplete(journal[e]) /\ ~IsExpired(journal[e])}

\* "phantom_rollbacks" of journal_health.
Phantom == {e \in InState({"committed"}) : IsUndoable(journal[e].kind)} \ Undoable

\* InverseRegistry.coverage: the tools that classify as unknown.
Unclassified(surface) ==
  {t \in surface : t \in Registered => SpecOf[t].kind = "unknown"}

\* readiness_report over a surface of tools.
Ready(surface) == Unclassified(surface) = {} /\ Phantom = {}

-----------------------------------------------------------------------------
(* Properties.                                                             *)

\* reverse would execute the undo of a committed entry now, gates aside.
WouldRun(e) ==
  e \in InState({"committed"}) /\ HasLiveUndo(journal[e]) /\ ~IsExpired(journal[e])

\* What the views say is what reverse does, after any history of commits, failed
\* captures, undos, retries and sweeps.  An option the horizon calls open is one reverse
\* would run, unless the action is idempotent, which has nothing to undo and is counted
\* as open all the same; one it does not call open reverse refuses, unless the plan is
\* called broken for a snapshot the undo does not need.  undoable() errs on one side
\* only: it misses the undo of a derived specification that reads the forward result.
\* A phantom is in no open bucket, that undo again aside, and where the report says
\* "ready" of a surface every undoable action of the journal can be undone, those of the
\* tools outside the surface too.  One tool is surface enough: a larger one is ready only
\* if each of its tools is.
ViewsTellTruth ==
  /\ \A e \in Open : journal[e].kind # "idempotent" => WouldRun(e)
  /\ \A e \in Entries : WouldRun(e) => e \in Open \/ (e \in Broken /\ e \in blind)
  /\ \A e \in Undoable : WouldRun(e)
  /\ \A e \in Entries : WouldRun(e) /\ journal[e].tool \notin Derived => e \in Undoable
  /\ \A e \in Phantom \cap Open : journal[e].tool \in Derived
  /\ \A e \in Closing : SecondsRemaining(e) > 0
  /\ \A t \in Tools : Ready({t}) =>
       \A e \in InState({"committed"}) : IsUndoable(journal[e].kind) => WouldRun(e)

\* The forecast comes true: what the next tick takes off the list of open options is what
\* the horizon warned of, nothing goes before the time to the first close, and the sweep
\* takes nothing that was still on it.  What was done leaves the view by being reversed
\* or abandoned (which abandon does to an entry in any state): no failed undo, repeated
\* commit or closed window hides it.
ForecastHolds ==
  [][/\ Tick => Open \ Open' = ClosingSoon(now' - now)
     /\ Tick /\ TimeToFirstClose # now' - now => Open' = Open
     /\ ExpireStale => Open' = Open
     /\ \A e \in (Open \cup Unrecoverable) \ (Open \cup Unrecoverable)' :
          journal'[e].state \in {"reversed", "abandoned"}]_hvars

\* An operator who waits is told how long that is safe, and a window that has closed does
\* not stay on offer.
DeadlinesHold == WindowsClose /\ ForecastHolds
=============================================================================
