-------------------------- MODULE ReversalJournal --------------------------
(***************************************************************************)
(* The reversal engine's journal: src/src/revoco/reversal/engine.py.       *)
(*                                                                         *)
(* An entry is opened with an undo plan before the forward action runs,    *)
(* committed when the action is confirmed, and then reversed, abandoned or *)
(* expired.  Every operation below is one critical section of the engine's *)
(* RLock, which ReversalEngine.reverse holds while the executor runs, so   *)
(* one operation is one action.  The engine trusts its callers: any        *)
(* operation may be called on any entry, in any order.                     *)
(***************************************************************************)
EXTENDS Reversibility

CONSTANTS
  Entries,      \* journal ids
  Tools,        \* tools the engine is asked about
  Registered,   \* tools whose specification the registry holds; for another tool the
                \* command classifier derives one, for the plan of one call
  SpecOf,       \* the inverse specification governing each tool
  Gates,        \* names of undo-phase and authorize-phase gates
  MaxSteps,     \* longest undo sequence in SpecOf
  MaxTime,      \* bound on the clock
  MaxCommits,   \* bound on commits of one entry
  MaxRuns       \* bound on executed undos of one entry

StepNames == 1 .. MaxSteps

ASSUME ToolsAssumption ==
  /\ MaxSteps \in Nat /\ MaxTime \in Nat /\ MaxCommits \in Nat /\ MaxRuns \in Nat
  /\ SpecOf \in [Tools -> InverseSpecs(Gates)]
  /\ Registered \subseteq Tools
  /\ \A t \in Tools : /\ WellFormedSpec(SpecOf[t])
                      /\ DOMAIN SpecOf[t].steps \subseteq StepNames

VARIABLES
  now,        \* the clock the engine reads
  openGates,  \* gates whose evaluator would answer True
  journal,    \* ReversalEngine._journal
  commits,    \* history: how often each entry was committed
  runs,       \* history: how often an undo of the entry was executed
  undone,     \* history: how often such an undo succeeded
  applied     \* history: how often each inverse step took effect

history == <<commits, runs, undone, applied>>
vars == <<now, openGates, journal, history>>

JournalStates ==
  {"planned", "committed", "abandoned", "reversed", "reversal_failed", "expired"}

Args == StepNames \X {"snapshot", "result"}

JournalEntries ==
  [state : JournalStates \cup {"none"}, tool : Tools, kind : Kinds,
   effective : Kinds, bound : SUBSET Args, unresolved : SUBSET Args,
   deferred : SUBSET Args, committedAt : Nat]

TypeOK ==
  /\ now \in Nat
  /\ openGates \subseteq Gates
  /\ journal \in [Entries -> JournalEntries]
  /\ commits \in [Entries -> Nat]
  /\ runs \in [Entries -> Nat]
  /\ undone \in [Entries -> Nat]
  /\ applied \in [Entries -> [StepNames -> Nat]]

\* The state in which no plan has been journaled under this id yet.
NoEntry(t) ==
  [state |-> "none", tool |-> t, kind |-> "unknown", effective |-> "unknown",
   bound |-> {}, unresolved |-> {}, deferred |-> {}, committedAt |-> 0]

Init ==
  /\ now = 0
  /\ openGates \in SUBSET Gates
  /\ journal \in [Entries -> {NoEntry(t) : t \in Tools}]
  /\ commits = [e \in Entries |-> 0]
  /\ runs = [e \in Entries |-> 0]
  /\ undone = [e \in Entries |-> 0]
  /\ applied = [e \in Entries |-> [i \in StepNames |-> 0]]

-----------------------------------------------------------------------------
(* Classification and planning.                                            *)

\* ReversalEngine.classify: a closed authorize gate degrades the posture, and
\* the classify hook may lower the answer further, never raise it.
Classifications(t) ==
  LET spec == SpecOf[t]
  IN NoBetterThan(IF spec.authorizeGates \subseteq openGates
                  THEN spec.kind ELSE spec.degraded)

\* ReversalEngine.spec_for: a tool the registry does not hold is given the specification
\* that the command classifier derives for this one call.
Derived == Tools \ Registered

PlannedSteps(x) == IF IsUndoable(x.kind) THEN SpecOf[x.tool].steps ELSE <<>>

\* ReversalEngine.plan: the plan of a degraded, no longer undoable call has no
\* steps; any other plan carries the kind of the specification.  captured says
\* whether the state reader answered.
PlanFor(t, captured, kind) ==
  LET spec == SpecOf[t]
      stepless == IsUndoable(spec.kind) /\ ~IsUndoable(kind)
      steps == IF stepless THEN <<>> ELSE spec.steps
      snapshotArgs == ArgsFrom(steps, "snapshot")
  IN [state |-> "planned",
      tool |-> t,
      kind |-> IF stepless THEN kind ELSE spec.kind,
      effective |-> kind,
      bound |-> IF captured THEN snapshotArgs ELSE {},
      unresolved |-> IF captured THEN {} ELSE snapshotArgs,
      deferred |-> ArgsFrom(steps, "result"),
      committedAt |-> 0]

OpenJournal(e, captured, kind) ==
  /\ journal[e].state = "none"
  /\ kind \in Classifications(journal[e].tool)
  /\ journal' = [journal EXCEPT ![e] = PlanFor(@.tool, captured, kind)]
  /\ UNCHANGED <<now, openGates, history>>

-----------------------------------------------------------------------------
(* Commit and abandon: neither looks at the entry's state.                 *)

\* Fault: the argument the response did not supply is dropped, not promoted.
ForgetDeferred(x, bound) == x.unresolved \ bound

StillUnresolved(x, bound) == (x.unresolved \cup x.deferred) \ bound

BoundArgs(x, found) ==
  x.bound \cup (IF found THEN ArgsFrom(PlannedSteps(x), "result") ELSE {})

\* Arguments read from the forward result are bound if the result has them; a deferred
\* argument it lacks becomes unresolved.  The registry is asked for the specification:
\* it has none for a derived one, and the arguments of that stay as they are.
Settled(x, found) ==
  IF x.tool \notin Registered THEN x
  ELSE [x EXCEPT !.bound = BoundArgs(x, found),
                 !.unresolved = StillUnresolved(x, BoundArgs(x, found)),
                 !.deferred = {}]

\* ReversalEngine.commit
Committed(x, found) ==
  [Settled(x, found) EXCEPT !.state = "committed", !.committedAt = now]

Commit(e, found) ==
  /\ journal[e].state # "none"
  /\ commits[e] < MaxCommits
  /\ journal' = [journal EXCEPT ![e] = Committed(@, found)]
  /\ commits' = [commits EXCEPT ![e] = @ + 1]
  /\ UNCHANGED <<now, openGates, runs, undone, applied>>

Abandon(e) ==
  /\ journal[e].state # "none"
  /\ journal' = [journal EXCEPT ![e].state = "abandoned"]
  /\ UNCHANGED <<now, openGates, history>>

-----------------------------------------------------------------------------
(* Reversal.                                                               *)

\* A stepless plan of a degraded call has no window.
HasWindow(x) ==
  /\ SpecOf[x.tool].window # 0
  /\ IsUndoable(SpecOf[x.tool].kind) => IsUndoable(x.kind)

\* JournalEntry.is_expired
IsExpired(x) ==
  /\ HasWindow(x)
  /\ now >= x.committedAt + SpecOf[x.tool].window

\* Faults: the state checks let a reversed, or an expired, entry through.
ReversedIsLive(x) ==
  /\ x.state \in {"committed", "reversal_failed", "reversed"}
  /\ IsUndoable(x.kind)
  /\ x.unresolved = {}

ExpiredIsLive(x) ==
  /\ x.state \in {"committed", "reversal_failed", "expired"}
  /\ IsUndoable(x.kind)
  /\ x.unresolved = {}

\* The checks ReversalEngine.reverse makes before it looks at the clock.
HasLiveUndo(x) ==
  /\ x.state \in {"committed", "reversal_failed"}
  /\ IsUndoable(x.kind)
  /\ x.unresolved = {}

GatesOpen(x) == SpecOf[x.tool].undoGates \subseteq openGates

\* The earlier steps whose results reverse looks up for step i, in the specification
\* that the registry holds: nothing is looked up for a derived one.
Reads(tool, i) == IF tool \in Registered THEN SpecOf[tool].steps[i].prior ELSE {}

\* Fault: a failed critical step does not abort the rest.
NeverAborted(x, done) ==
  \A i \in done : i \in DOMAIN PlannedSteps(x) /\ Reads(x.tool, i) \subseteq done

\* done is the set of steps whose executor call returned.  A critical step
\* that fails aborts the rest; a step that needs the result of a step that
\* produced none fails without being executed.
Executable(x, done) ==
  \A i \in done :
    /\ i \in DOMAIN PlannedSteps(x)
    /\ Reads(x.tool, i) \subseteq done
    /\ \A j \in 1 .. (i - 1) : PlannedSteps(x)[j].critical => j \in done

\* A failed step, critical or not, makes the whole undo a failed one.
Succeeded(steps, done) == done = DOMAIN steps

\* reverse finds the window closed.
FindsExpired(e) == HasLiveUndo(journal[e]) /\ IsExpired(journal[e])

ReverseExpired(e) ==
  /\ FindsExpired(e)
  /\ journal' = [journal EXCEPT ![e].state = "expired"]
  /\ UNCHANGED <<now, openGates, history>>

\* reverse passes its checks and the steps of done take effect; force is its
\* force_expired argument.
CanReverse(e, force, done) ==
  /\ HasLiveUndo(journal[e])
  /\ ~IsExpired(journal[e]) \/ force
  /\ GatesOpen(journal[e])
  /\ Executable(journal[e], done)
  /\ runs[e] < MaxRuns

\* reverse executes the plan's steps.
Reverse(e, force, done) ==
  LET ok == Succeeded(PlannedSteps(journal[e]), done)
  IN /\ CanReverse(e, force, done)
     /\ journal' = [journal EXCEPT ![e].state =
                      IF ok THEN "reversed" ELSE "reversal_failed"]
     /\ runs' = [runs EXCEPT ![e] = @ + 1]
     /\ undone' = [undone EXCEPT ![e] = IF ok THEN @ + 1 ELSE @]
     /\ applied' = [applied EXCEPT ![e] =
                      [i \in StepNames |-> IF i \in done THEN @[i] + 1 ELSE @[i]]]
     /\ UNCHANGED <<now, openGates, commits>>

\* Fault: the sweep skips an entry whose undo is blocked by a gate.
StaleAndUnblocked(x) == x.state = "committed" /\ IsExpired(x) /\ GatesOpen(x)

Stale(x) == x.state = "committed" /\ IsExpired(x)

\* ReversalEngine.expire_stale sweeps the whole journal.
ExpireStale ==
  /\ \E e \in Entries : Stale(journal[e])
  /\ journal' = [e \in Entries |-> IF Stale(journal[e])
                                   THEN [journal[e] EXCEPT !.state = "expired"]
                                   ELSE journal[e]]
  /\ UNCHANGED <<now, openGates, history>>

-----------------------------------------------------------------------------
(* The environment: the clock, and the systems the gates ask.              *)

Tick ==
  /\ now < MaxTime
  /\ now' = now + 1
  /\ UNCHANGED <<openGates, journal, history>>

FlipGate(g) ==
  /\ openGates' = IF g \in openGates THEN openGates \ {g} ELSE openGates \cup {g}
  /\ UNCHANGED <<now, journal, history>>

Next ==
  \/ \E e \in Entries :
       \/ \E captured \in BOOLEAN, kind \in Kinds : OpenJournal(e, captured, kind)
       \/ \E found \in BOOLEAN : Commit(e, found)
       \/ Abandon(e)
       \/ ReverseExpired(e)
       \/ \E force \in BOOLEAN, done \in SUBSET StepNames : Reverse(e, force, done)
  \/ ExpireStale
  \/ Tick
  \/ \E g \in Gates : FlipGate(g)

Spec == Init /\ [][Next]_vars

-----------------------------------------------------------------------------
(* Properties.                                                             *)

StepsOf(tool) == SpecOf[tool].steps
InverseSteps(e) == StepsOf(journal[e].tool)

\* Over any number of partial undos and retries of an entry, a step never took
\* effect more often than a critical step before it, nor more often than a
\* step whose result it reads (the "aborted" and "still_pending" paths of
\* ReversalEngine.reverse).
StepsInOrder ==
  \A e \in Entries : \A i \in DOMAIN InverseSteps(e) : \A j \in 1 .. (i - 1) :
    InverseSteps(e)[j].critical \/ j \in Reads(journal[e].tool, i)
      => applied[e][i] <= applied[e][j]

\* What reverse makes sure of: of a derived specification it never binds what the
\* forward result or an earlier step should supply.
Needed(tool) ==
  IF tool \in Registered THEN ArgsOf(StepsOf(tool)) ELSE ArgsFrom(StepsOf(tool), "snapshot")

\* No inverse step of a registered specification has ever run with an argument missing,
\* nor one of a derived specification without what the snapshot should have held: what
\* the snapshot or the forward result did not supply keeps ReversalEngine.reverse from
\* running any step, across plans, repeated commits and retries.
ArgumentsBound ==
  \A e \in Entries : runs[e] > 0 => Needed(journal[e].tool) \subseteq journal[e].bound

\* An undo succeeds at most once for each time the forward action was committed
\* (the AlreadyReversed check of ReversalEngine.reverse).
UndoneOncePerCommit == \A e \in Entries : undone[e] <= commits[e]

\* An entry that reads REVERSED had a complete undo, and every one of its steps
\* took effect as often as undos were reported successful: a receipt with
\* ok=True never hides a step that did not run.
ReversedIsComplete ==
  \A e \in Entries :
    /\ journal[e].state = "reversed" => undone[e] > 0
    /\ \A i \in DOMAIN InverseSteps(e) : undone[e] <= applied[e][i]

\* The types, and that an undo is whole and paid for by a commit.
UndoesAreWhole == TypeOK /\ UndoneOncePerCommit /\ ReversedIsComplete

\* How an entry stands as a right to undo.
RightTo(x) ==
  CASE x.state \in {"none", "planned"} -> "none"
    [] x.state \in {"committed", "reversal_failed"} -> "open"
    [] x.state = "reversed" -> "used"
    [] OTHER -> "lost"

Standings == [e \in Entries |-> RightTo(journal[e])]
Plans == [e \in Entries |-> DOMAIN InverseSteps(e)]

\* The journal keeps rights to undo: an entry that was reversed, abandoned, or marked
\* EXPIRED by the sweep or a late undo runs no inverse step and does not come back to
\* life, force_expired or not, unless it is committed again; each time it is marked
\* REVERSED the whole plan took effect, and each time it fails some of it did not.
Rights == INSTANCE UndoRights
            WITH Steps <- StepNames, standing <- Standings, plan <- Plans,
                 effects <- applied, uses <- undone
ImplementsUndoRights == Rights!RSpec

\* An undo is on offer whose window closes within the modelled time.
Offered(e) ==
  /\ journal[e].state = "committed"
  /\ HasWindow(journal[e])
  /\ journal[e].committedAt + SpecOf[journal[e].tool].window <= MaxTime

\* With the sweep on a schedule, no entry goes on offering an undo whose window has
\* closed: it leaves COMMITTED, or a repeated confirm gives it a later window.
WindowsClose == \A e \in Entries : Offered(e) ~> ~Offered(e)

\* Whatever the undo needs is bound, or listed as what keeps it from running.
Accounted(x) ==
  /\ ArgsFrom(StepsOf(x.tool), "snapshot") \subseteq x.bound \cup x.unresolved
  /\ ArgsFrom(StepsOf(x.tool), "result") \subseteq x.bound \cup x.unresolved \cup x.deferred

\* The inductive strengthening: an entry that can be reversed has nothing
\* deferred and one commit that no successful undo has used up, and whatever
\* argument an undoable plan lacks is listed as unresolved or deferred.
JournalInv ==
  /\ TypeOK
  /\ \A e \in Entries :
       /\ journal[e].state = "none" =>
            /\ ~IsUndoable(journal[e].kind)
            /\ runs[e] = 0
       /\ IsUndoable(journal[e].kind) => Accounted(journal[e])
       /\ journal[e].state \in {"committed", "reversal_failed"} =>
            /\ journal[e].tool \in Registered => journal[e].deferred = {}
            /\ undone[e] < commits[e]
  /\ StepsInOrder
  /\ ArgumentsBound
  /\ UndoneOncePerCommit
  /\ ReversedIsComplete
=============================================================================
