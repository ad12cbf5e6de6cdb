-------------------------- MODULE Reversal_proofs --------------------------
(***************************************************************************)
(* What holds of the reversal journal for every set of entries, tools,     *)
(* specifications and gates, and every order of engine calls; what an      *)
(* operator is told about the undo options that are left; and what         *)
(* agents, responders and gates cannot do to one another, for every        *)
(* forest of grants, set of actions and number of responders: revocation   *)
(* holds, an action is undone once, and a containment that reports success *)
(* undid what it selected and missed nothing but what was in flight.  And  *)
(* what holds of a guarded working tree, for every set of commands, files  *)
(* and entries: an undo brings back what was there, what it took away does *)
(* not return, and no command writes beyond what its reach says.           *)
(***************************************************************************)
EXTENDS RecoveryHorizon, Containment, GuardedWorkspace, FiniteSetTheorems, SequenceTheorems,
        TLAPS

-----------------------------------------------------------------------------
(* The specifications.                                                     *)

\* A registered specification and its steps have the types the engine expects.
LEMMA SpecTypes ==
  ASSUME NEW t \in Tools
  PROVE  /\ SpecOf[t].kind \in Kinds
         /\ SpecOf[t].steps \in Seq(Steps)
         /\ DOMAIN SpecOf[t].steps \subseteq StepNames
         /\ SpecOf[t].window \in Nat
         /\ IsUndoable(SpecOf[t].kind) <=> SpecOf[t].steps # <<>>
BY ToolsAssumption DEF InverseSpecs, WellFormedSpec

\* The arguments of planned steps are arguments of the modelled steps.
LEMMA ArgTypes ==
  ASSUME NEW steps, DOMAIN steps \subseteq StepNames
  PROVE  /\ ArgsFrom(steps, "snapshot") \subseteq Args
         /\ ArgsFrom(steps, "result") \subseteq Args
BY DEF ArgsFrom, Args

\* A plan without steps has no arguments.
LEMMA NoArgs ==
  /\ DOMAIN <<>> = {}
  /\ ArgsFrom(<<>>, "snapshot") = {}
  /\ ArgsFrom(<<>>, "result") = {}
BY DEF ArgsFrom

-----------------------------------------------------------------------------
(* Type correctness.                                                       *)

\* What ReversalEngine.plan returns can be journaled.
LEMMA PlanTypes ==
  ASSUME NEW t \in Tools, NEW captured \in BOOLEAN, NEW kind \in Kinds
  PROVE  PlanFor(t, captured, kind) \in JournalEntries
<1> DEFINE steps == IF IsUndoable(SpecOf[t].kind) /\ ~IsUndoable(kind)
                    THEN <<>> ELSE SpecOf[t].steps
<1>1. DOMAIN steps \subseteq StepNames
  BY SpecTypes, NoArgs
<1>2. ArgsFrom(steps, "snapshot") \subseteq Args /\ ArgsFrom(steps, "result") \subseteq Args
  BY <1>1, ArgTypes
<1>3. SpecOf[t].kind \in Kinds
  BY SpecTypes
<1> QED
  <2> DEFINE S == ArgsFrom(steps, "snapshot")
             R == ArgsFrom(steps, "result")
             K == IF IsUndoable(SpecOf[t].kind) /\ ~IsUndoable(kind)
                  THEN kind ELSE SpecOf[t].kind
  <2>1. PlanFor(t, captured, kind) =
          [state |-> "planned", tool |-> t, kind |-> K, effective |-> kind,
           bound |-> IF captured THEN S ELSE {},
           unresolved |-> IF captured THEN {} ELSE S,
           deferred |-> R, committedAt |-> 0]
    BY Zenon DEF PlanFor
  <2>2. K \in Kinds
    BY <1>3
  <2> HIDE DEF K, S, R
  <2> QED BY <1>2, <2>1, <2>2 DEF JournalEntries, JournalStates, S, R

\* What ReversalEngine.commit leaves in the journal is an entry.
LEMMA CommitTypes ==
  ASSUME NEW x \in JournalEntries, NEW found \in BOOLEAN, now \in Nat
  PROVE  Committed(x, found) \in JournalEntries
<1>1. DOMAIN PlannedSteps(x) \subseteq StepNames
  BY SpecTypes, NoArgs DEF PlannedSteps, JournalEntries
<1>2. BoundArgs(x, found) \in SUBSET Args
  <2>1. ArgsFrom(PlannedSteps(x), "result") \subseteq Args
    BY <1>1, ArgTypes
  <2>2. x.bound \subseteq Args
    BY DEF JournalEntries
  <2> QED BY <2>1, <2>2 DEF BoundArgs
<1>3. StillUnresolved(x, BoundArgs(x, found)) \in SUBSET Args
  BY DEF StillUnresolved, JournalEntries
<1>4. Settled(x, found) \in JournalEntries
  BY <1>2, <1>3 DEF Settled, JournalEntries
<1> QED BY <1>4 DEF Committed, JournalEntries, JournalStates

\* JournalEntry.transition changes nothing but the state.
LEMMA SetState ==
  ASSUME NEW x \in JournalEntries, NEW s \in JournalStates
  PROVE  [x EXCEPT !.state = s] \in JournalEntries
BY DEF JournalEntries

LEMMA TypeInit == Init => TypeOK
BY ToolsAssumption DEF Init, TypeOK, NoEntry, JournalEntries, JournalStates, Kinds

LEMMA TypeNext == TypeOK /\ [Next]_vars => TypeOK'
<1> SUFFICES ASSUME TypeOK, [Next]_vars PROVE TypeOK'
  OBVIOUS
<1> USE DEF TypeOK
<1>1. ASSUME NEW e \in Entries, NEW captured \in BOOLEAN, NEW kind \in Kinds,
             OpenJournal(e, captured, kind)
      PROVE  TypeOK'
  <2>1. PlanFor(journal[e].tool, captured, kind) \in JournalEntries
    BY PlanTypes DEF JournalEntries
  <2> QED BY <1>1, <2>1 DEF OpenJournal, history
<1>2. ASSUME NEW e \in Entries, NEW found \in BOOLEAN, Commit(e, found)
      PROVE  TypeOK'
  <2>1. Committed(journal[e], found) \in JournalEntries
    BY CommitTypes
  <2> QED BY <1>2, <2>1 DEF Commit
<1>3. ASSUME NEW e \in Entries, Abandon(e)
      PROVE  TypeOK'
  <2>1. "abandoned" \in JournalStates
    BY DEF JournalStates
  <2>2. journal' \in [Entries -> JournalEntries]
    BY <1>3, <2>1, SetState DEF Abandon
  <2> QED BY <1>3, <2>2 DEF Abandon, history
<1>4. ASSUME NEW e \in Entries, ReverseExpired(e)
      PROVE  TypeOK'
  <2>1. "expired" \in JournalStates
    BY DEF JournalStates
  <2>2. journal' \in [Entries -> JournalEntries]
    BY <1>4, <2>1, SetState DEF ReverseExpired, FindsExpired
  <2> QED BY <1>4, <2>2 DEF ReverseExpired, FindsExpired, history
<1>5. ASSUME NEW e \in Entries, NEW force \in BOOLEAN, NEW done \in SUBSET StepNames,
             Reverse(e, force, done)
      PROVE  TypeOK'
  <2> DEFINE s == IF Succeeded(PlannedSteps(journal[e]), done) THEN "reversed" ELSE "reversal_failed"
  <2>1. journal' = [journal EXCEPT ![e].state = s]
    BY <1>5 DEF Reverse, CanReverse
  <2>2. s \in JournalStates
    BY DEF JournalStates
  <2> HIDE DEF s
  <2>3. journal' \in [Entries -> JournalEntries]
    BY <2>1, <2>2, SetState
  <2>4. applied' \in [Entries -> [StepNames -> Nat]]
    BY <1>5 DEF Reverse, CanReverse
  <2>5. runs' \in [Entries -> Nat]
    BY <1>5 DEF Reverse, CanReverse
  <2>6. undone' \in [Entries -> Nat]
    BY <1>5 DEF Reverse, CanReverse
  <2>7. UNCHANGED <<now, openGates, commits>>
    BY <1>5 DEF Reverse, CanReverse
  <2> QED BY <2>3, <2>4, <2>5, <2>6, <2>7
<1>6. CASE ExpireStale
  <2>1. "expired" \in JournalStates
    BY DEF JournalStates
  <2>2. \A e \in Entries : [journal[e] EXCEPT !.state = "expired"] \in JournalEntries
    BY <2>1, SetState
  <2>3. journal' \in [Entries -> JournalEntries]
    BY <1>6, <2>2 DEF ExpireStale
  <2> QED BY <1>6, <2>3 DEF ExpireStale, history
<1>7. CASE Tick
  BY <1>7 DEF Tick, history
<1>8. ASSUME NEW g \in Gates, FlipGate(g)
      PROVE  TypeOK'
  BY <1>8 DEF FlipGate, history
<1>9. CASE UNCHANGED vars
  BY <1>9 DEF vars, history
<1> QED BY <1>1, <1>2, <1>3, <1>4, <1>5, <1>6, <1>7, <1>8, <1>9 DEF Next

\* The journal, the clock and the history counters keep their types.
THEOREM TypeCorrect == Spec => []TypeOK
BY TypeInit, TypeNext, PTL DEF Spec

-----------------------------------------------------------------------------
(* The invariant, entry by entry: x is the journal entry, c, r and u its   *)
(* commits, executed and successful undos, a what each step did.           *)

EntryInv(x, c, r, u, a) ==
  LET steps == StepsOf(x.tool)
  IN /\ x.state = "none" => ~IsUndoable(x.kind) /\ r = 0
     /\ IsUndoable(x.kind) => Accounted(x)
     /\ x.state \in {"committed", "reversal_failed"} =>
          (x.tool \in Registered => x.deferred = {}) /\ u < c
     /\ \A i \in DOMAIN steps : \A j \in 1 .. (i - 1) :
          steps[j].critical \/ j \in Reads(x.tool, i) => a[i] <= a[j]
     /\ r > 0 => Needed(x.tool) \subseteq x.bound
     /\ u <= c
     /\ x.state = "reversed" => u > 0
     /\ \A i \in DOMAIN steps : u <= a[i]

EntriesInv ==
  \A e \in Entries : EntryInv(journal[e], commits[e], runs[e], undone[e], applied[e])

LEMMA InvByEntry == JournalInv <=> TypeOK /\ EntriesInv
BY DEF JournalInv, EntriesInv, EntryInv, StepsInOrder, ArgumentsBound,
       UndoneOncePerCommit, ReversedIsComplete, InverseSteps

\* A fresh plan lists every argument the snapshot did not supply.
LEMMA PlanInv ==
  ASSUME NEW x \in JournalEntries, x.state = "none",
         NEW captured \in BOOLEAN, NEW kind \in Kinds,
         NEW c \in Nat, NEW r \in Nat, NEW u \in Nat, NEW a \in [StepNames -> Nat],
         EntryInv(x, c, r, u, a)
  PROVE  EntryInv(PlanFor(x.tool, captured, kind), c, r, u, a)
<1> DEFINE y == PlanFor(x.tool, captured, kind)
           spec == SpecOf[x.tool]
<1>1. y.state = "planned" /\ y.tool = x.tool
  BY DEF PlanFor
<1>2. ASSUME IsUndoable(y.kind)
      PROVE  Accounted(y)
  <2>1. ~(IsUndoable(spec.kind) /\ ~IsUndoable(kind))
    BY <1>2, Zenon DEF PlanFor
  <2>2. /\ y.bound = IF captured THEN ArgsFrom(spec.steps, "snapshot") ELSE {}
        /\ y.unresolved = IF captured THEN {} ELSE ArgsFrom(spec.steps, "snapshot")
        /\ y.deferred = ArgsFrom(spec.steps, "result")
    BY <2>1, Zenon DEF PlanFor
  <2> HIDE DEF y
  <2> QED BY <1>1, <2>2 DEF Accounted, StepsOf
<1>3. r = 0
  BY DEF EntryInv
<1> HIDE DEF y
<1> QED BY <1>1, <1>2, <1>3 DEF EntryInv, y

\* Committing settles every deferred argument and earns one undo.
LEMMA CommitInv ==
  ASSUME NEW x \in JournalEntries, x.state # "none", NEW found \in BOOLEAN,
         NEW c \in Nat, NEW r \in Nat, NEW u \in Nat, NEW a \in [StepNames -> Nat],
         EntryInv(x, c, r, u, a)
  PROVE  EntryInv(Committed(x, found), c + 1, r, u, a)
<1> DEFINE z == Settled(x, found)
           y == Committed(x, found)
<1>1. /\ z.tool = x.tool /\ z.kind = x.kind /\ x.bound \subseteq z.bound
      /\ z.bound \cup z.unresolved \cup z.deferred
           = x.bound \cup x.unresolved \cup x.deferred \cup z.bound
      /\ x.bound \cup x.unresolved \subseteq z.bound \cup z.unresolved
      /\ x.tool \in Registered => z.deferred = {}
  <2>1. CASE x.tool \notin Registered
    BY <2>1 DEF Settled
  <2>2. CASE x.tool \in Registered
    <3>1. /\ z.tool = x.tool /\ z.kind = x.kind /\ z.bound = BoundArgs(x, found)
          /\ z.deferred = {} /\ z.unresolved = StillUnresolved(x, BoundArgs(x, found))
      BY <2>2 DEF Settled, JournalEntries
    <3>2. x.bound \subseteq BoundArgs(x, found)
      BY DEF BoundArgs
    <3> HIDE DEF z
    <3> QED BY <3>1, <3>2 DEF StillUnresolved
  <2> QED BY <2>1, <2>2
<1>2. z \in JournalEntries
  <2>1. BoundArgs(x, found) \in SUBSET Args
    <3>1. DOMAIN PlannedSteps(x) \subseteq StepNames
      BY SpecTypes, NoArgs DEF PlannedSteps, JournalEntries
    <3>2. ArgsFrom(PlannedSteps(x), "result") \subseteq Args
      BY <3>1, ArgTypes
    <3> QED BY <3>2 DEF BoundArgs, JournalEntries
  <2>2. StillUnresolved(x, BoundArgs(x, found)) \in SUBSET Args
    BY DEF StillUnresolved, JournalEntries
  <2> QED BY <2>1, <2>2 DEF Settled, JournalEntries
<1> HIDE DEF z
<1>3. /\ y.state = "committed" /\ y.tool = x.tool /\ y.kind = x.kind /\ y.bound = z.bound
      /\ y.unresolved = z.unresolved /\ y.deferred = z.deferred
  BY <1>1, <1>2 DEF Committed, JournalEntries, z
<1> HIDE DEF y
<1>4. u < c + 1 /\ u <= c + 1
  BY DEF EntryInv
<1>5. IsUndoable(y.kind) => Accounted(y)
  BY <1>1, <1>3 DEF EntryInv, Accounted
<1>6. r > 0 => Needed(y.tool) \subseteq y.bound
  BY <1>1, <1>3 DEF EntryInv
<1>7. EntryInv(y, c + 1, r, u, a)
  BY <1>1, <1>3, <1>4, <1>5, <1>6 DEF EntryInv
<1> QED BY <1>7 DEF y

\* Leaving for ABANDONED or EXPIRED keeps every obligation.
LEMMA ResolveInv ==
  ASSUME NEW x \in JournalEntries, x.state # "none", NEW s \in {"abandoned", "expired"},
         NEW c \in Nat, NEW r \in Nat, NEW u \in Nat, NEW a \in [StepNames -> Nat],
         EntryInv(x, c, r, u, a)
  PROVE  EntryInv([x EXCEPT !.state = s], c, r, u, a)
<1> DEFINE y == [x EXCEPT !.state = s]
<1>1. /\ y.state = s /\ y.tool = x.tool /\ y.kind = x.kind /\ y.bound = x.bound
      /\ y.unresolved = x.unresolved /\ y.deferred = x.deferred
  BY DEF JournalEntries
<1> HIDE DEF y
<1> QED BY <1>1 DEF EntryInv, Accounted

\* Executing the plan keeps the steps in order, runs only with every argument
\* bound, and counts as a success only if every step took effect.
LEMMA ReverseInv ==
  ASSUME NEW x \in JournalEntries, NEW done \in SUBSET StepNames,
         NEW c \in Nat, NEW r \in Nat, NEW u \in Nat, NEW a \in [StepNames -> Nat],
         EntryInv(x, c, r, u, a),
         HasLiveUndo(x), Executable(x, done)
  PROVE  EntryInv([x EXCEPT !.state = IF Succeeded(PlannedSteps(x), done)
                                      THEN "reversed" ELSE "reversal_failed"],
                  c, r + 1,
                  IF Succeeded(PlannedSteps(x), done) THEN u + 1 ELSE u,
                  [i \in StepNames |-> IF i \in done THEN a[i] + 1 ELSE a[i]])
<1> DEFINE steps == StepsOf(x.tool)
           ok == Succeeded(steps, done)
           y == [x EXCEPT !.state = IF ok THEN "reversed" ELSE "reversal_failed"]
           b == [i \in StepNames |-> IF i \in done THEN a[i] + 1 ELSE a[i]]
           v == IF ok THEN u + 1 ELSE u
<1>1. PlannedSteps(x) = steps
  BY DEF HasLiveUndo, PlannedSteps, StepsOf
<1>2. /\ y.tool = x.tool /\ y.kind = x.kind /\ y.bound = x.bound
      /\ y.unresolved = x.unresolved /\ y.deferred = x.deferred
      /\ y.state = IF ok THEN "reversed" ELSE "reversal_failed"
  BY DEF JournalEntries
<1>3. /\ x.tool \in Registered => x.deferred = {}
      /\ x.unresolved = {} /\ u < c /\ IsUndoable(x.kind) /\ Accounted(x)
  BY DEF HasLiveUndo, EntryInv
<1>4. Needed(x.tool) \subseteq x.bound
  <2>1. CASE x.tool \in Registered
    BY <1>3, <2>1 DEF Needed, Accounted, ArgsOf
  <2>2. CASE x.tool \notin Registered
    BY <1>3, <2>2 DEF Needed, Accounted
  <2> QED BY <2>1, <2>2
<1>5. DOMAIN steps \subseteq StepNames
  BY SpecTypes DEF JournalEntries, StepsOf
<1>6. \A i \in DOMAIN steps : \A j \in 1 .. (i - 1) :
        steps[j].critical \/ j \in Reads(x.tool, i) => b[i] <= b[j]
  <2> SUFFICES ASSUME NEW i \in DOMAIN steps, NEW j \in 1 .. (i - 1),
                      steps[j].critical \/ j \in Reads(x.tool, i)
               PROVE  b[i] <= b[j]
    OBVIOUS
  <2>1. i \in StepNames /\ j \in StepNames
    <3> HIDE DEF steps
    <3> QED BY <1>5, ToolsAssumption DEF StepNames
  <2>2. a[i] <= a[j]
    BY DEF EntryInv
  <2>3. i \in done => j \in done
    BY <1>1 DEF Executable
  <2> HIDE DEF steps
  <2> QED BY <2>1, <2>2, <2>3
<1>7. \A i \in DOMAIN steps : v <= b[i]
  <2> SUFFICES ASSUME NEW i \in DOMAIN steps PROVE v <= b[i]
    OBVIOUS
  <2>1. i \in StepNames /\ u <= a[i]
    BY <1>5 DEF EntryInv
  <2>2. ok => i \in done
    BY DEF Succeeded
  <2> HIDE DEF ok, steps
  <2> QED BY <2>1, <2>2
<1>8. EntryInv(y, c, r + 1, v, b)
  <2> HIDE DEF y, b, v, ok
  <2>1. v <= c /\ (~ok => v = u) /\ (ok => v = u + 1)
    BY <1>3 DEF v
  <2>2. StepsOf(y.tool) = steps /\ y.tool = x.tool
    BY <1>2
  <2>3. y.state = "reversed" => ok
    BY <1>2
  <2>4. y.state \in {"reversed", "reversal_failed"} /\ (ok => y.state = "reversed")
    BY <1>2
  <2> HIDE DEF steps
  <2> QED BY <1>2, <1>3, <1>4, <1>6, <1>7, <2>1, <2>2, <2>3, <2>4 DEF EntryInv, Accounted
<1> QED BY <1>1, <1>8, Zenon

-----------------------------------------------------------------------------
(* The invariant of the journal.                                           *)

LEMMA InvInit == Init => JournalInv
<1> SUFFICES ASSUME Init PROVE JournalInv
  OBVIOUS
<1>1. ASSUME NEW e \in Entries
      PROVE  EntryInv(journal[e], commits[e], runs[e], undone[e], applied[e])
  <2>1. PICK t \in Tools : journal[e] = NoEntry(t)
    BY DEF Init
  <2>2. /\ commits[e] = 0 /\ runs[e] = 0 /\ undone[e] = 0
        /\ applied[e] = [i \in StepNames |-> 0]
    BY DEF Init
  <2>3. \A i \in DOMAIN StepsOf(t) : i \in StepNames
    BY SpecTypes DEF StepsOf
  <2>4. \A i \in DOMAIN StepsOf(t) : \A j \in 1 .. (i - 1) : j \in StepNames
    BY <2>3, ToolsAssumption DEF StepNames
  <2> QED BY <2>1, <2>2, <2>3, <2>4 DEF EntryInv, NoEntry, IsUndoable
<1> QED BY <1>1, TypeInit, InvByEntry DEF EntriesInv

LEMMA InvNext == JournalInv /\ [Next]_vars => JournalInv'
<1> SUFFICES ASSUME JournalInv, [Next]_vars PROVE JournalInv'
  OBVIOUS
<1>1. TypeOK /\ EntriesInv /\ TypeOK'
  BY InvByEntry, TypeNext
<1>2. EntriesInv'
  <2> SUFFICES ASSUME NEW f \in Entries
               PROVE  EntryInv(journal[f], commits[f], runs[f], undone[f], applied[f])'
    BY DEF EntriesInv
  <2>1. EntryInv(journal[f], commits[f], runs[f], undone[f], applied[f])
    BY <1>1 DEF EntriesInv
  <2>2. /\ journal[f] \in JournalEntries
        /\ commits[f] \in Nat /\ runs[f] \in Nat /\ undone[f] \in Nat
        /\ applied[f] \in [StepNames -> Nat]
    BY <1>1 DEF TypeOK
  <2>3. CASE /\ journal'[f] = journal[f] /\ commits'[f] = commits[f] /\ runs'[f] = runs[f]
             /\ undone'[f] = undone[f] /\ applied'[f] = applied[f]
    BY <2>1, <2>3 DEF EntryInv
  <2>4. ASSUME NEW captured \in BOOLEAN, NEW kind \in Kinds,
               OpenJournal(f, captured, kind)
        PROVE  EntryInv(journal[f], commits[f], runs[f], undone[f], applied[f])'
    <3>1. EntryInv(PlanFor(journal[f].tool, captured, kind),
                   commits[f], runs[f], undone[f], applied[f])
      BY <2>1, <2>2, <2>4, PlanInv DEF OpenJournal
    <3>2. journal'[f] = PlanFor(journal[f].tool, captured, kind)
      BY <1>1, <2>4 DEF OpenJournal, TypeOK
    <3> QED BY <2>4, <3>1, <3>2 DEF OpenJournal, history, EntryInv
  <2>5. ASSUME NEW found \in BOOLEAN, Commit(f, found)
        PROVE  EntryInv(journal[f], commits[f], runs[f], undone[f], applied[f])'
    <3>1. EntryInv(Committed(journal[f], found),
                   commits[f] + 1, runs[f], undone[f], applied[f])
      BY <2>1, <2>2, <2>5, CommitInv DEF Commit
    <3>2. journal'[f] = Committed(journal[f], found) /\ commits'[f] = commits[f] + 1
      BY <1>1, <2>5 DEF Commit, TypeOK
    <3> QED BY <2>5, <3>1, <3>2 DEF Commit, EntryInv
  <2>6. ASSUME Abandon(f)
        PROVE  EntryInv(journal[f], commits[f], runs[f], undone[f], applied[f])'
    <3>1. EntryInv([journal[f] EXCEPT !.state = "abandoned"],
                   commits[f], runs[f], undone[f], applied[f])
      BY <2>1, <2>2, <2>6, ResolveInv DEF Abandon
    <3>2. journal'[f] = [journal[f] EXCEPT !.state = "abandoned"]
      BY <1>1, <2>6 DEF Abandon, TypeOK
    <3> QED BY <2>6, <3>1, <3>2 DEF Abandon, history, EntryInv
  <2>7. ASSUME journal[f].state # "none", UNCHANGED history,
               journal'[f] = [journal[f] EXCEPT !.state = "expired"]
        PROVE  EntryInv(journal[f], commits[f], runs[f], undone[f], applied[f])'
    <3>1. EntryInv([journal[f] EXCEPT !.state = "expired"],
                   commits[f], runs[f], undone[f], applied[f])
      BY <2>1, <2>2, <2>7, ResolveInv
    <3> QED BY <2>7, <3>1 DEF history, EntryInv
  <2>8. ASSUME NEW force \in BOOLEAN, NEW done \in SUBSET StepNames,
               Reverse(f, force, done)
        PROVE  EntryInv(journal[f], commits[f], runs[f], undone[f], applied[f])'
    <3> DEFINE ok == Succeeded(PlannedSteps(journal[f]), done)
    <3>1. EntryInv([journal[f] EXCEPT !.state = IF ok THEN "reversed" ELSE "reversal_failed"],
                   commits[f], runs[f] + 1, IF ok THEN undone[f] + 1 ELSE undone[f],
                   [i \in StepNames |-> IF i \in done THEN applied[f][i] + 1 ELSE applied[f][i]])
      <4>1. HasLiveUndo(journal[f]) /\ Executable(journal[f], done)
        BY <2>8, Zenon DEF Reverse, CanReverse
      <4> HIDE DEF ok
      <4> QED BY <2>1, <2>2, <4>1, ReverseInv DEF ok
    <3>2. /\ journal'[f] = [journal[f] EXCEPT !.state =
                              IF ok THEN "reversed" ELSE "reversal_failed"]
          /\ commits'[f] = commits[f]
          /\ runs'[f] = runs[f] + 1
          /\ undone'[f] = IF ok THEN undone[f] + 1 ELSE undone[f]
          /\ applied'[f] = [i \in StepNames |-> IF i \in done THEN applied[f][i] + 1
                                                           ELSE applied[f][i]]
      BY <1>1, <2>8 DEF Reverse, CanReverse, TypeOK
    <3> QED BY <3>1, <3>2, Zenon DEF EntryInv
  <2>9. CASE Next
    <3>1. ASSUME NEW e \in Entries, NEW captured \in BOOLEAN, NEW kind \in Kinds,
                 OpenJournal(e, captured, kind)
          PROVE  EntryInv(journal[f], commits[f], runs[f], undone[f], applied[f])'
      BY <1>1, <2>3, <2>4, <3>1 DEF OpenJournal, history, TypeOK
    <3>2. ASSUME NEW e \in Entries, NEW found \in BOOLEAN, Commit(e, found)
          PROVE  EntryInv(journal[f], commits[f], runs[f], undone[f], applied[f])'
      BY <1>1, <2>3, <2>5, <3>2 DEF Commit, TypeOK
    <3>3. ASSUME NEW e \in Entries, Abandon(e)
          PROVE  EntryInv(journal[f], commits[f], runs[f], undone[f], applied[f])'
      BY <1>1, <2>3, <2>6, <3>3 DEF Abandon, history, TypeOK
    <3>4. ASSUME NEW e \in Entries, ReverseExpired(e)
          PROVE  EntryInv(journal[f], commits[f], runs[f], undone[f], applied[f])'
      BY <1>1, <2>3, <2>7, <3>4 DEF ReverseExpired, FindsExpired, HasLiveUndo, history, TypeOK
    <3>5. ASSUME NEW e \in Entries, NEW force \in BOOLEAN, NEW done \in SUBSET StepNames,
                 Reverse(e, force, done)
          PROVE  EntryInv(journal[f], commits[f], runs[f], undone[f], applied[f])'
      <4>1. CASE e = f
        BY <2>8, <3>5, <4>1
      <4>2. CASE e # f
        <5>1. /\ journal'[f] = journal[f] /\ commits'[f] = commits[f] /\ runs'[f] = runs[f]
              /\ undone'[f] = undone[f] /\ applied'[f] = applied[f]
          BY <1>1, <3>5, <4>2 DEF Reverse, CanReverse, TypeOK
        <5> QED BY <2>3, <5>1
      <4> QED BY <4>1, <4>2
    <3>6. CASE ExpireStale
      <4>1. CASE Stale(journal[f])
        BY <1>1, <2>7, <3>6, <4>1 DEF ExpireStale, Stale, history, TypeOK
      <4>2. CASE ~Stale(journal[f])
        BY <1>1, <2>3, <3>6, <4>2 DEF ExpireStale, history, TypeOK
      <4> QED BY <4>1, <4>2
    <3>7. CASE Tick
      BY <2>3, <3>7 DEF Tick, history
    <3>8. ASSUME NEW g \in Gates, FlipGate(g)
          PROVE  EntryInv(journal[f], commits[f], runs[f], undone[f], applied[f])'
      BY <2>3, <3>8 DEF FlipGate, history
    <3> QED BY <2>9, <3>1, <3>2, <3>3, <3>4, <3>5, <3>6, <3>7, <3>8 DEF Next
  <2>10. CASE UNCHANGED vars
    BY <2>3, <2>10 DEF vars, history
  <2> QED BY <2>9, <2>10
<1> QED
  <2>1. (TypeOK /\ EntriesInv)' => JournalInv'
    BY InvByEntry, PTL
  <2> QED BY <1>1, <1>2, <2>1

THEOREM JournalInvariant == Spec => []JournalInv
BY InvInit, InvNext, PTL DEF Spec

\* Over any number of partial undos and retries, no step of an inverse takes
\* effect more often than a critical step before it or a step it reads from.
THEOREM StepsStayInOrder == Spec => []StepsInOrder
<1>1. JournalInv => StepsInOrder
  BY DEF JournalInv
<1> QED BY <1>1, JournalInvariant, PTL

\* An inverse is never executed with an argument missing.
THEOREM ArgumentsStayBound == Spec => []ArgumentsBound
<1>1. JournalInv => ArgumentsBound
  BY DEF JournalInv
<1> QED BY <1>1, JournalInvariant, PTL

\* A successful undo is paid for by a commit of its own, and REVERSED means that
\* every step of the inverse took effect.
THEOREM UndoesStayWhole == Spec => []UndoesAreWhole
<1>1. JournalInv => UndoesAreWhole
  BY DEF JournalInv, UndoesAreWhole
<1> QED BY <1>1, JournalInvariant, PTL

-----------------------------------------------------------------------------
(* The journal as rights to undo.                                          *)

\* What a change of one entry is to the rights.
LEMMA RightMoves ==
  ASSUME TypeOK, NEW e \in Entries, NEW y, y.tool = journal[e].tool,
         journal' = [journal EXCEPT ![e] = y]
  PROVE  Standings' = [Standings EXCEPT ![e] = RightTo(y)] /\ Plans' = Plans
<1>1. journal'[e] = y /\ \A f \in Entries \ {e} : journal'[f] = journal[f]
  BY DEF TypeOK
<1>2. \A f \in Entries : journal'[f].tool = journal[f].tool
  BY <1>1
<1>3. Plans' = Plans
  BY <1>2 DEF Plans, InverseSteps
<1>4. \A f \in Entries : RightTo(journal[f])' = IF f = e THEN RightTo(y) ELSE RightTo(journal[f])
  BY <1>1 DEF RightTo
<1>5. Standings' = [f \in Entries |-> IF f = e THEN RightTo(y) ELSE RightTo(journal[f])]
  BY <1>4 DEF Standings
<1>. QED BY <1>3, <1>5 DEF Standings

\* To plan is no step of the rights, to commit grants one, and to abandon loses it.
LEMMA CallsAreRightful ==
  ASSUME TypeOK, NEW e \in Entries,
         \/ \E captured \in BOOLEAN, kind \in Kinds : OpenJournal(e, captured, kind)
         \/ \E found \in BOOLEAN : Commit(e, found)
         \/ Abandon(e)
         \/ ReverseExpired(e)
  PROVE  [Rights!RNext]_(Rights!rvars)
<1>0. journal[e] \in JournalEntries
  BY DEF TypeOK
<1>1. ASSUME NEW captured \in BOOLEAN, NEW kind \in Kinds, OpenJournal(e, captured, kind)
      PROVE  UNCHANGED Rights!rvars
  <2>. DEFINE y == PlanFor(journal[e].tool, captured, kind)
  <2>1. y.state = "planned" /\ y.tool = journal[e].tool
    BY DEF PlanFor
  <2>2. journal' = [journal EXCEPT ![e] = y] /\ journal[e].state = "none" /\ UNCHANGED <<applied, undone>>
    BY <1>1 DEF OpenJournal, history
  <2>. HIDE DEF y
  <2>3. Standings' = [Standings EXCEPT ![e] = RightTo(y)] /\ Plans' = Plans
    BY <2>1, <2>2, RightMoves
  <2>4. RightTo(y) = Standings[e]
    BY <2>1, <2>2 DEF RightTo, Standings
  <2>5. Standings' = Standings
    BY <2>3, <2>4 DEF Standings
  <2>. QED BY <2>2, <2>3, <2>5 DEF Rights!rvars
<1>2. ASSUME NEW found \in BOOLEAN, Commit(e, found)
      PROVE  Rights!RNext
  <2>. DEFINE y == Committed(journal[e], found)
  <2>1. y.state = "committed" /\ y.tool = journal[e].tool
    BY <1>0 DEF Committed, Settled, JournalEntries
  <2>2. journal' = [journal EXCEPT ![e] = y] /\ UNCHANGED <<applied, undone>>
    BY <1>2 DEF Commit
  <2>. HIDE DEF y
  <2>3. Standings' = [Standings EXCEPT ![e] = RightTo(y)] /\ Plans' = Plans
    BY <2>1, <2>2, RightMoves
  <2>4. RightTo(y) = "open"
    BY <2>1 DEF RightTo
  <2>5. Rights!Grant(e)
    BY <2>2, <2>3, <2>4 DEF Rights!Grant
  <2>. QED BY <2>5 DEF Rights!RNext
<1>3. ASSUME NEW s \in {"abandoned", "expired"}, journal' = [journal EXCEPT ![e].state = s],
             UNCHANGED <<applied, undone>>
      PROVE  Rights!RNext
  <2>. DEFINE y == [journal[e] EXCEPT !.state = s]
  <2>1. y.state = s /\ y.tool = journal[e].tool
    BY <1>0 DEF JournalEntries
  <2>2. journal' = [journal EXCEPT ![e] = y]
    BY <1>3
  <2>. HIDE DEF y
  <2>3. Standings' = [Standings EXCEPT ![e] = RightTo(y)] /\ Plans' = Plans
    BY <2>1, <2>2, RightMoves
  <2>4. RightTo(y) = "lost"
    BY <2>1 DEF RightTo
  <2>5. Standings' = [f \in Entries |-> IF f \in {e} THEN "lost" ELSE Standings[f]]
    BY <2>3, <2>4 DEF Standings
  <2>6. Rights!Lose({e})
    BY <1>3, <2>3, <2>5 DEF Rights!Lose
  <2>. QED BY <2>6 DEF Rights!RNext
<1>. QED BY <1>1, <1>2, <1>3 DEF Abandon, ReverseExpired, history

\* An undo that succeeds uses the right up with every step of the plan, and one that
\* fails is an attempt.
LEMMA UndoesAreRightful ==
  ASSUME TypeOK, NEW e \in Entries, NEW force \in BOOLEAN, NEW done \in SUBSET StepNames,
         Reverse(e, force, done)
  PROVE  Rights!RNext
<1>. DEFINE ok == Succeeded(PlannedSteps(journal[e]), done)
            y == [journal[e] EXCEPT !.state = IF ok THEN "reversed" ELSE "reversal_failed"]
<1>1. journal[e] \in JournalEntries /\ undone \in [Entries -> Nat]
  BY DEF TypeOK
<1>2. /\ journal' = [journal EXCEPT ![e] = y]
      /\ undone' = [undone EXCEPT ![e] = IF ok THEN @ + 1 ELSE @]
      /\ Rights!TakeEffect(e, done)
  BY DEF Reverse, Rights!TakeEffect
<1>3. HasLiveUndo(journal[e]) /\ Executable(journal[e], done)
  BY DEF Reverse, CanReverse
<1>4. PlannedSteps(journal[e]) = InverseSteps(e) /\ Standings[e] = "open"
  BY <1>3 DEF HasLiveUndo, PlannedSteps, InverseSteps, StepsOf, Standings, RightTo
<1>5. done \subseteq Plans[e] /\ (ok <=> done = Plans[e])
  BY <1>3, <1>4 DEF Executable, Succeeded, Plans
<1>6. y.state = (IF ok THEN "reversed" ELSE "reversal_failed") /\ y.tool = journal[e].tool
  <2>. HIDE DEF ok
  <2>. QED BY <1>1 DEF JournalEntries
<1>. HIDE DEF ok, y
<1>7. Standings' = [Standings EXCEPT ![e] = RightTo(y)] /\ Plans' = Plans
  BY <1>2, <1>6, RightMoves
<1>8. CASE ok
  <2>1. RightTo(y) = "used"
    BY <1>6, <1>8 DEF RightTo
  <2>2. Rights!Use(e)
    BY <1>2, <1>4, <1>5, <1>7, <1>8, <2>1 DEF Rights!Use
  <2>. QED BY <2>2 DEF Rights!RNext
<1>9. CASE ~ok
  <2>1. RightTo(y) = "open"
    BY <1>6, <1>9 DEF RightTo
  <2>2. Standings' = Standings /\ undone' = undone
    BY <1>1, <1>2, <1>4, <1>7, <1>9, <2>1 DEF Standings
  <2>3. Rights!Attempt(e, done)
    BY <1>2, <1>4, <1>5, <1>7, <1>9, <2>2 DEF Rights!Attempt
  <2>. QED BY <2>3 DEF Rights!RNext
<1>. QED BY <1>8, <1>9

\* The sweep loses every right whose window has closed.
LEMMA SweepIsRightful ==
  ASSUME TypeOK, ExpireStale
  PROVE  Rights!RNext
<1>. DEFINE es == {e \in Entries : Stale(journal[e])}
<1>1. ASSUME NEW e \in Entries
      PROVE  /\ journal'[e].tool = journal[e].tool
             /\ RightTo(journal[e])' = IF e \in es THEN "lost" ELSE Standings[e]
  <2>1. journal[e] \in JournalEntries
    BY DEF TypeOK
  <2>2. CASE Stale(journal[e])
    <3>1. journal'[e] = [journal[e] EXCEPT !.state = "expired"]
      BY <2>2 DEF ExpireStale
    <3>. QED BY <2>1, <2>2, <3>1 DEF JournalEntries, RightTo
  <2>3. CASE ~Stale(journal[e])
    <3>1. journal'[e] = journal[e]
      BY <2>3 DEF ExpireStale
    <3>. QED BY <2>3, <3>1 DEF Standings, RightTo
  <2>. QED BY <2>2, <2>3
<1>. HIDE DEF es
<1>2. Standings' = [e \in Entries |-> IF e \in es THEN "lost" ELSE Standings[e]]
  BY <1>1 DEF Standings
<1>3. Plans' = Plans
  BY <1>1 DEF Plans, InverseSteps
<1>4. Rights!Lose(es)
  BY <1>2, <1>3 DEF ExpireStale, history, Rights!Lose
<1>5. es \in SUBSET Entries
  BY DEF es
<1>. QED BY <1>4, <1>5 DEF Rights!RNext

\* So every step of the journal is one of the rights, or none.
LEMMA StepsAreRightful ==
  ASSUME TypeOK, [Next]_vars
  PROVE  [Rights!RNext]_(Rights!rvars)
<1>1. CASE Tick \/ (\E g \in Gates : FlipGate(g)) \/ UNCHANGED vars
  <2>1. UNCHANGED <<journal, applied, undone>>
    BY <1>1 DEF Tick, FlipGate, vars, history
  <2>2. Standings' = Standings /\ Plans' = Plans
    BY <2>1 DEF Standings, RightTo, Plans, InverseSteps
  <2>. QED BY <2>1, <2>2 DEF Rights!rvars
<1>. QED BY <1>1, CallsAreRightful, UndoesAreRightful, SweepIsRightful DEF Next

LEMMA RightsInit == Init => Rights!RInit
<1>. SUFFICES ASSUME Init PROVE Rights!RInit
  OBVIOUS
<1>1. \A e \in Entries : journal[e].state = "none" /\ journal[e].tool \in Tools
  BY DEF Init, NoEntry
<1>2. Standings = [e \in Entries |-> "none"]
  BY <1>1 DEF Standings, RightTo
<1>3. Plans \in [Entries -> SUBSET StepNames]
  BY <1>1, ToolsAssumption DEF Plans, InverseSteps, StepsOf
<1>. QED BY <1>2, <1>3 DEF Init, Rights!RInit

\* The journal implements the rights: whatever the callers of the engine, the clock and
\* the gates do, an undo that was used up, abandoned or found expired runs no step
\* until it is committed again, and REVERSED means that the whole plan took effect.
THEOREM JournalKeepsRights == Spec => ImplementsUndoRights
<1>1. TypeOK /\ [Next]_vars => [Rights!RNext]_(Rights!rvars)
  BY StepsAreRightful
<1>. QED BY <1>1, RightsInit, TypeCorrect, PTL DEF Spec, ImplementsUndoRights, Rights!RSpec

-----------------------------------------------------------------------------
(* The horizon.                                                            *)

\* What keeps its options: a plan that can be undone is a plan of a specification
\* that can be.
HorizonInv ==
  /\ JournalInv
  /\ \A e \in Entries : IsUndoable(journal[e].kind) => IsUndoable(SpecOf[journal[e].tool].kind)

LEMMA HorizonSteps == HNext => Next
BY DEF HNext, HOpenJournal, Next

\* No operation but a plan gives an entry a kind, and none gives it another tool.
LEMMA KindsStay ==
  ASSUME TypeOK, Next, NEW e \in Entries
  PROVE  /\ journal'[e].tool = journal[e].tool
         /\ \/ journal'[e].kind = journal[e].kind
            \/ \E captured \in BOOLEAN, kind \in Kinds :
                 journal'[e].kind = PlanFor(journal[e].tool, captured, kind).kind
<1>0. journal \in [Entries -> JournalEntries] /\ journal[e] \in JournalEntries
  BY DEF TypeOK
<1>1. ASSUME NEW d \in Entries, NEW captured \in BOOLEAN, NEW kind \in Kinds,
             OpenJournal(d, captured, kind)
      PROVE  /\ journal'[e].tool = journal[e].tool
             /\ \/ journal'[e].kind = journal[e].kind
                \/ journal'[e].kind = PlanFor(journal[e].tool, captured, kind).kind
  <2>1. journal' = [journal EXCEPT ![d] = PlanFor(journal[d].tool, captured, kind)]
    BY <1>1 DEF OpenJournal
  <2>2. CASE d = e
    <3>1. journal'[e] = PlanFor(journal[e].tool, captured, kind)
      BY <1>0, <2>1, <2>2
    <3>2. PlanFor(journal[e].tool, captured, kind).tool = journal[e].tool
      BY DEF PlanFor
    <3> QED BY <3>1, <3>2
  <2>3. CASE d # e
    BY <1>0, <2>1, <2>3
  <2> QED BY <2>2, <2>3
<1>2. ASSUME NEW d \in Entries, NEW found \in BOOLEAN, Commit(d, found)
      PROVE  journal'[e].tool = journal[e].tool /\ journal'[e].kind = journal[e].kind
  <2>1. journal' = [journal EXCEPT ![d] = Committed(journal[d], found)]
    BY <1>2 DEF Commit
  <2>2. CASE d = e
    <3>1. journal'[e] = Committed(journal[e], found)
      BY <1>0, <2>1, <2>2
    <3>2. /\ Settled(journal[e], found).tool = journal[e].tool
          /\ Settled(journal[e], found).kind = journal[e].kind
          /\ DOMAIN Settled(journal[e], found) = DOMAIN journal[e]
      BY <1>0 DEF Settled, JournalEntries
    <3> QED BY <1>0, <3>1, <3>2 DEF Committed, JournalEntries
  <2>3. CASE d # e
    BY <1>0, <2>1, <2>3
  <2> QED BY <2>2, <2>3
<1>3. ASSUME NEW s, journal'[e] = journal[e] \/ journal'[e] = [journal[e] EXCEPT !.state = s]
      PROVE  journal'[e].tool = journal[e].tool /\ journal'[e].kind = journal[e].kind
  BY <1>0, <1>3 DEF JournalEntries
<1>4. ASSUME NEW d \in Entries, Abandon(d)
      PROVE  journal'[e].tool = journal[e].tool /\ journal'[e].kind = journal[e].kind
  BY <1>0, <1>3, <1>4 DEF Abandon
<1>5. ASSUME NEW d \in Entries, ReverseExpired(d)
      PROVE  journal'[e].tool = journal[e].tool /\ journal'[e].kind = journal[e].kind
  BY <1>0, <1>3, <1>5 DEF ReverseExpired, FindsExpired
<1>6. ASSUME NEW d \in Entries, NEW force \in BOOLEAN, NEW done \in SUBSET StepNames,
             Reverse(d, force, done)
      PROVE  journal'[e].tool = journal[e].tool /\ journal'[e].kind = journal[e].kind
  <2>1. \E s : journal' = [journal EXCEPT ![d].state = s]
    BY <1>6 DEF Reverse, CanReverse
  <2> QED BY <1>0, <1>3, <2>1
<1>7. ASSUME ExpireStale
      PROVE  journal'[e].tool = journal[e].tool /\ journal'[e].kind = journal[e].kind
  BY <1>3, <1>7 DEF ExpireStale
<1>8. ASSUME UNCHANGED journal
      PROVE  journal'[e].tool = journal[e].tool /\ journal'[e].kind = journal[e].kind
  BY <1>8
<1>9. ASSUME Tick \/ \E g \in Gates : FlipGate(g) PROVE UNCHANGED journal
  BY <1>9 DEF Tick, FlipGate
<1> QED BY <1>1, <1>2, <1>4, <1>5, <1>6, <1>7, <1>8, <1>9 DEF Next

LEMMA HorizonKept == HorizonInv /\ [HNext]_hvars => HorizonInv'
<1> SUFFICES ASSUME HorizonInv, [HNext]_hvars PROVE HorizonInv'
  OBVIOUS
<1>1. [Next]_vars
  BY HorizonSteps DEF hvars
<1>2. JournalInv'
  BY <1>1, InvNext DEF HorizonInv
<1>3. TypeOK
  BY DEF HorizonInv, JournalInv
<1>4. ASSUME NEW e \in Entries, IsUndoable(journal'[e].kind)
      PROVE  IsUndoable(SpecOf[journal'[e].tool].kind)
  <2>1. CASE UNCHANGED vars
    BY <1>4, <2>1 DEF HorizonInv, vars
  <2>2. CASE Next
    <3>1. journal'[e].tool = journal[e].tool
      BY <1>3, <2>2, KindsStay
    <3>2. CASE journal'[e].kind = journal[e].kind
      BY <1>4, <3>1, <3>2 DEF HorizonInv
    <3>3. ASSUME NEW captured \in BOOLEAN, NEW kind \in Kinds,
                 journal'[e].kind = PlanFor(journal[e].tool, captured, kind).kind
          PROVE  IsUndoable(SpecOf[journal[e].tool].kind)
      BY <1>4, <3>3 DEF PlanFor
    <3> QED BY <1>3, <2>2, <3>1, <3>2, <3>3, KindsStay
  <2> QED BY <1>1, <2>1, <2>2
<1> QED BY <1>2, <1>4 DEF HorizonInv

LEMMA HorizonInvariant == HFairSpec => []HorizonInv
<1>1. HInit => HorizonInv
  <2> SUFFICES ASSUME HInit PROVE HorizonInv
    OBVIOUS
  <2>1. JournalInv
    BY InvInit DEF HInit
  <2>2. \A e \in Entries : ~IsUndoable(journal[e].kind)
    BY DEF HInit, Init, NoEntry, IsUndoable
  <2> QED BY <2>1, <2>2 DEF HorizonInv
<1> QED BY <1>1, HorizonKept, PTL DEF HFairSpec

\* What a committed entry is, once it is counted among the open, the undoable or the
\* phantom ones.
LEMMA CommittedEntry ==
  ASSUME HorizonInv, NEW e \in Entries, journal[e].state = "committed", IsUndoable(journal[e].kind)
  PROVE  /\ PlannedSteps(journal[e]) # <<>>
         /\ journal[e].tool \notin Derived => journal[e].deferred = {}
<1>1. journal[e] \in JournalEntries
  BY DEF HorizonInv, JournalInv, TypeOK
<1>2. journal[e].tool \in Tools
  BY <1>1 DEF JournalEntries
<1>3. PlannedSteps(journal[e]) # <<>>
  BY <1>2, SpecTypes DEF HorizonInv, PlannedSteps
<1>4. journal[e].tool \in Registered => journal[e].deferred = {}
  BY DEF HorizonInv, JournalInv
<1> QED BY <1>2, <1>3, <1>4 DEF Derived

LEMMA ViewsAreTrue == HorizonInv => ViewsTellTruth
<1> SUFFICES ASSUME HorizonInv PROVE ViewsTellTruth
  OBVIOUS
<1>1. \A e \in Entries : journal[e] \in JournalEntries /\ journal[e].kind \in Kinds
  BY DEF HorizonInv, JournalInv, TypeOK, JournalEntries
<1>2. \A e \in Open : journal[e].kind # "idempotent" => WouldRun(e)
  <2> SUFFICES ASSUME NEW e \in Open, journal[e].kind # "idempotent" PROVE WouldRun(e)
    OBVIOUS
  <2>1. /\ e \in Entries /\ journal[e].state = "committed" /\ ~IsOneWay(journal[e].kind)
        /\ ~IsBroken(e) /\ ~IsExpired(journal[e])
    BY DEF Open, StandingExposure, Broken, Expired, InState
  <2>2. IsUndoable(journal[e].kind)
    BY <1>1, <2>1 DEF Kinds, IsOneWay, IsUndoable
  <2> QED BY <2>1, <2>2 DEF IsBroken, WouldRun, HasLiveUndo, InState
<1>3. \A e \in Entries : WouldRun(e) => e \in Open \/ (e \in Broken /\ e \in blind)
  <2> SUFFICES ASSUME NEW e \in Entries, WouldRun(e)
               PROVE  e \in Open \/ (e \in Broken /\ e \in blind)
    OBVIOUS
  <2>1. /\ journal[e].state = "committed" /\ IsUndoable(journal[e].kind)
        /\ journal[e].unresolved = {} /\ ~IsExpired(journal[e])
    BY DEF WouldRun, HasLiveUndo, InState
  <2>2. e \notin StandingExposure /\ e \notin Expired
    BY <2>1 DEF StandingExposure, Expired, InState, IsUndoable, IsOneWay
  <2>3. e \in Broken => e \in blind
    BY <2>1 DEF Broken, IsBroken
  <2> QED BY <2>1, <2>2, <2>3 DEF Open, InState
<1>4. \A e \in Undoable : WouldRun(e)
  BY DEF Undoable, WouldRun, IsComplete, HasLiveUndo, InState
<1>5. \A e \in Entries : WouldRun(e) /\ journal[e].tool \notin Derived => e \in Undoable
  <2> SUFFICES ASSUME NEW e \in Entries, WouldRun(e), journal[e].tool \notin Derived
               PROVE  e \in Undoable
    OBVIOUS
  <2>1. /\ journal[e].state = "committed" /\ IsUndoable(journal[e].kind)
        /\ journal[e].unresolved = {} /\ ~IsExpired(journal[e])
    BY DEF WouldRun, HasLiveUndo, InState
  <2>2. PlannedSteps(journal[e]) # <<>> /\ journal[e].deferred = {}
    BY <2>1, CommittedEntry
  <2> QED BY <2>1, <2>2 DEF Undoable, IsComplete, InState
<1>6. \A e \in Phantom \cap Open : journal[e].tool \in Derived
  <2> SUFFICES ASSUME NEW e \in Phantom \cap Open PROVE journal[e].tool \in Derived
    OBVIOUS
  <2>1. e \in Entries /\ IsUndoable(journal[e].kind) /\ e \notin Undoable
    BY DEF Phantom, InState
  <2>2. WouldRun(e)
    BY <1>2, <2>1 DEF IsUndoable
  <2> QED BY <1>5, <2>1, <2>2
<1>7. \A e \in Closing : SecondsRemaining(e) > 0
  <2> SUFFICES ASSUME NEW e \in Closing PROVE SecondsRemaining(e) > 0
    OBVIOUS
  <2>1. e \in Entries /\ HasWindow(journal[e]) /\ ~IsExpired(journal[e])
    BY DEF Closing, Open, Expired, StandingExposure, Broken, InState
  <2>2. ~(now >= journal[e].committedAt + SpecOf[journal[e].tool].window)
    BY <2>1 DEF IsExpired
  <2>3. now \in Nat /\ journal[e].committedAt \in Nat /\ SpecOf[journal[e].tool].window \in Nat
    BY <1>1, <2>1, SpecTypes DEF HorizonInv, JournalInv, TypeOK, JournalEntries
  <2> QED BY <2>2, <2>3 DEF SecondsRemaining
<1>8. \A t \in Tools : Ready({t}) =>
        \A e \in InState({"committed"}) : IsUndoable(journal[e].kind) => WouldRun(e)
  BY <1>4 DEF Ready, Phantom
<1> QED BY <1>2, <1>3, <1>4, <1>5, <1>6, <1>7, <1>8 DEF ViewsTellTruth

\* What the horizon, undoable() and the readiness report tell of the undo options is what
\* reverse would do, for every set of specifications and after every history.
THEOREM ViewsHold == HFairSpec => []ViewsTellTruth
BY HorizonInvariant, ViewsAreTrue, PTL

\* The options that are open or lost are the entries in these three states.
LEMMA InView ==
  Open \cup Unrecoverable = InState({"committed", "reversal_failed", "expired"})
BY DEF Open, Unrecoverable, Expired, StandingExposure, Broken, InState

\* An open entry, spelt out.
LEMMA OpenIs ==
  ASSUME NEW e \in Entries
  PROVE  e \in Open <=> /\ journal[e].state = "committed" /\ ~IsOneWay(journal[e].kind)
                        /\ ~IsBroken(e) /\ ~IsExpired(journal[e])
BY DEF Open, StandingExposure, Broken, Expired, InState

\* The clock moves, and nothing else.
LEMMA TickForecast ==
  ASSUME HorizonInv, Tick, UNCHANGED blind
  PROVE  /\ Open \ Open' = ClosingSoon(1)
         /\ TimeToFirstClose # 1 => Open' = Open
<1>1. UNCHANGED <<journal, blind>> /\ now' = now + 1 /\ now \in Nat
  BY DEF Tick, HorizonInv, JournalInv, TypeOK
<1>2. ASSUME NEW e \in Entries
      PROVE  /\ e \in Open' <=> /\ journal[e].state = "committed" /\ ~IsOneWay(journal[e].kind)
                                /\ ~IsBroken(e) /\ ~IsExpired(journal[e])'
             /\ IsExpired(journal[e])' <=>
                  HasWindow(journal[e]) /\ now + 1 >= journal[e].committedAt + SpecOf[journal[e].tool].window
             /\ journal[e].committedAt \in Nat /\ SpecOf[journal[e].tool].window \in Nat
  <2>1. IsBroken(e)' <=> IsBroken(e)
    BY <1>1 DEF IsBroken
  <2>2. (e \in Open)' <=> /\ journal[e].state = "committed" /\ ~IsOneWay(journal[e].kind)
                          /\ ~IsBroken(e) /\ ~IsExpired(journal[e])'
    BY <1>1, <2>1 DEF Open, StandingExposure, Broken, Expired, InState
  <2>3. IsExpired(journal[e])' <=>
          HasWindow(journal[e]) /\ now + 1 >= journal[e].committedAt + SpecOf[journal[e].tool].window
    BY <1>1 DEF IsExpired, HasWindow
  <2>4. journal[e] \in JournalEntries
    BY DEF HorizonInv, JournalInv, TypeOK
  <2>5. journal[e].committedAt \in Nat /\ SpecOf[journal[e].tool].window \in Nat
    BY <2>4, SpecTypes DEF JournalEntries
  <2> QED BY <2>2, <2>3, <2>5
<1>3. ASSUME NEW e \in Open'
      PROVE  e \in Open
  <2>1. e \in Entries
    BY <1>3 DEF Open, InState
  <2>2. ~IsExpired(journal[e])
    BY <1>1, <1>2, <1>3, <2>1 DEF IsExpired
  <2> QED BY <1>2, <1>3, <2>1, <2>2, OpenIs
<1>4. ASSUME NEW e \in Entries
      PROVE  e \in Open /\ e \notin Open' <=> e \in Closing /\ SecondsRemaining(e) <= 1
  <2>1. SecondsRemaining(e) <= 1 <=>
          now + 1 >= journal[e].committedAt + SpecOf[journal[e].tool].window
    BY <1>1, <1>2 DEF SecondsRemaining
  <2>2. e \in Open /\ e \notin Open' <=> e \in Open /\ IsExpired(journal[e])'
    BY <1>2, OpenIs
  <2> QED BY <1>2, <2>1, <2>2 DEF Closing
<1>5. Open \ Open' = ClosingSoon(1)
  <2>1. Open \subseteq Entries /\ Closing \subseteq Entries
    BY DEF Open, Closing, InState
  <2> QED BY <1>4, <2>1 DEF ClosingSoon
<1>6. ASSUME TimeToFirstClose # 1 PROVE ClosingSoon(1) = {}
  <2> SUFFICES ASSUME NEW e \in Closing, SecondsRemaining(e) <= 1 PROVE FALSE
    BY DEF ClosingSoon
  <2> DEFINE S == {SecondsRemaining(d) : d \in Closing}
  <2>1. \A d \in Closing : SecondsRemaining(d) \in Int /\ SecondsRemaining(d) > 0
    <3>1. \A d \in Closing : SecondsRemaining(d) > 0
      BY ViewsAreTrue DEF ViewsTellTruth
    <3>2. \A d \in Closing : d \in Entries
      BY DEF Closing, Open, InState
    <3> QED BY <1>1, <1>2, <3>1, <3>2 DEF SecondsRemaining
  <2>2. SecondsRemaining(e) = 1
    BY <1>6, <2>1
  <2>3. 1 \in S /\ \A d \in Closing : 1 <= SecondsRemaining(d)
    BY <2>1, <2>2
  <2>4. \A s \in S : (\A d \in Closing : s <= SecondsRemaining(d)) => s = 1
    <3>1. \A s \in S : s \in Int /\ s > 0
      BY <2>1
    <3>2. \A s \in S : (\A d \in Closing : s <= SecondsRemaining(d)) => s <= 1
      BY <2>2
    <3> HIDE DEF S
    <3> QED BY <3>1, <3>2
  <2>5. (CHOOSE s \in S : \A d \in Closing : s <= SecondsRemaining(d)) = 1
    <3> HIDE DEF S
    <3> QED BY <2>3, <2>4
  <2>6. Closing # {}
    OBVIOUS
  <2> QED BY <1>6, <2>5, <2>6 DEF TimeToFirstClose
<1>7. TimeToFirstClose # 1 => Open' = Open
  BY <1>3, <1>5, <1>6
<1> QED BY <1>5, <1>7

\* A plan is the only operation that notes a failed capture, and it plans an entry
\* that is in no view.
LEMMA BlindStays ==
  ASSUME HorizonInv, HNext, Tick \/ ExpireStale
  PROVE  UNCHANGED blind
<1>1. journal \in [Entries -> JournalEntries]
  BY DEF HorizonInv, JournalInv, TypeOK
<1>2. ASSUME NEW e \in Entries, NEW captured \in BOOLEAN, NEW failed \in BOOLEAN,
             NEW kind \in Kinds, HOpenJournal(e, captured, failed, kind)
      PROVE  FALSE
  <2>1. journal[e].state = "none" /\ journal'[e] = PlanFor(journal[e].tool, captured, kind)
    BY <1>1, <1>2 DEF HOpenJournal, OpenJournal
  <2>2. journal'[e].state = "planned"
    BY <2>1 DEF PlanFor
  <2>3. journal'[e] = journal[e]
    BY <1>1, <2>1 DEF Tick, ExpireStale, Stale
  <2> QED BY <2>1, <2>2, <2>3
<1> QED BY <1>2 DEF HNext

LEMMA SweepForecast ==
  ASSUME HorizonInv, ExpireStale, UNCHANGED blind
  PROVE  Open' = Open
<1>1. ASSUME NEW e \in Entries
      PROVE  (e \in Open)' <=> e \in Open
  <2>1. journal[e] \in JournalEntries /\ now' = now
    BY DEF HorizonInv, JournalInv, TypeOK, ExpireStale
  <2>2. (e \in Open)' <=> /\ journal'[e].state = "committed" /\ ~IsOneWay(journal'[e].kind)
                          /\ ~IsBroken(e)' /\ ~IsExpired(journal[e])'
    BY DEF Open, StandingExposure, Broken, Expired, InState
  <2>3. CASE Stale(journal[e])
    <3>1. journal'[e].state = "expired"
      BY <2>1, <2>3 DEF ExpireStale, JournalEntries
    <3>2. e \notin Open
      BY <2>3, OpenIs DEF Stale
    <3> QED BY <2>2, <3>1, <3>2
  <2>4. CASE ~Stale(journal[e])
    <3>1. journal'[e] = journal[e]
      BY <2>4 DEF ExpireStale
    <3>2. (IsBroken(e)' <=> IsBroken(e)) /\ (IsExpired(journal[e])' <=> IsExpired(journal[e]))
      BY <2>1, <3>1 DEF IsBroken, IsExpired, HasWindow
    <3> QED BY <2>2, <3>1, <3>2, OpenIs
  <2> QED BY <2>3, <2>4
<1>2. Open \subseteq Entries /\ Open' \subseteq Entries
  BY DEF Open, InState
<1> QED BY <1>1, <1>2

\* What was done leaves the view only by being reversed or abandoned.
LEMMA LeavesView ==
  ASSUME HorizonInv, Next, NEW e \in Entries,
         journal[e].state \in {"committed", "reversal_failed", "expired"}
  PROVE  journal'[e].state \in {"committed", "reversal_failed", "expired", "reversed", "abandoned"}
<1>0. journal \in [Entries -> JournalEntries] /\ journal[e] \in JournalEntries
  BY DEF HorizonInv, JournalInv, TypeOK
<1>1. ASSUME NEW d \in Entries, NEW captured \in BOOLEAN, NEW kind \in Kinds,
             OpenJournal(d, captured, kind)
      PROVE  journal'[e] = journal[e]
  BY <1>0, <1>1 DEF OpenJournal
<1>2. ASSUME NEW d \in Entries, NEW found \in BOOLEAN, Commit(d, found)
      PROVE  journal'[e] = journal[e] \/ journal'[e].state = "committed"
  <2>1. CASE d = e
    <3>1. journal'[e] = Committed(journal[e], found)
      BY <1>0, <1>2, <2>1 DEF Commit
    <3>2. DOMAIN Settled(journal[e], found) = DOMAIN journal[e] /\ "state" \in DOMAIN journal[e]
      BY <1>0 DEF Settled, JournalEntries
    <3> QED BY <3>1, <3>2 DEF Committed
  <2>2. CASE d # e
    BY <1>0, <1>2, <2>2 DEF Commit
  <2> QED BY <2>1, <2>2
<1>3. ASSUME NEW d \in Entries, Abandon(d)
      PROVE  journal'[e] = journal[e] \/ journal'[e].state = "abandoned"
  BY <1>0, <1>3 DEF Abandon, JournalEntries
<1>4. ASSUME NEW d \in Entries, ReverseExpired(d)
      PROVE  journal'[e] = journal[e] \/ journal'[e].state = "expired"
  BY <1>0, <1>4 DEF ReverseExpired, FindsExpired, JournalEntries
<1>5. ASSUME NEW d \in Entries, NEW force \in BOOLEAN, NEW done \in SUBSET StepNames,
             Reverse(d, force, done)
      PROVE  journal'[e] = journal[e] \/ journal'[e].state \in {"reversed", "reversal_failed"}
  <2>1. PICK s \in {"reversed", "reversal_failed"} : journal' = [journal EXCEPT ![d].state = s]
    BY <1>5 DEF Reverse, CanReverse
  <2> QED BY <1>0, <2>1 DEF JournalEntries
<1>6. ASSUME ExpireStale
      PROVE  journal'[e] = journal[e] \/ journal'[e].state = "expired"
  BY <1>0, <1>6 DEF ExpireStale, JournalEntries
<1>7. ASSUME Tick \/ \E g \in Gates : FlipGate(g) PROVE journal'[e] = journal[e]
  BY <1>7 DEF Tick, FlipGate
<1> QED BY <1>1, <1>2, <1>3, <1>4, <1>5, <1>6, <1>7 DEF Next

\* What the horizon warns of is what the next tick takes, nothing goes before the time to
\* the first close, the sweep takes no open option, and only an undo or an abandonment
\* takes what was done out of the view.
THEOREM ForecastComesTrue == HFairSpec => ForecastHolds
<1>1. ASSUME HorizonInv, [HNext]_hvars
      PROVE  [/\ Tick => Open \ Open' = ClosingSoon(now' - now)
              /\ Tick /\ TimeToFirstClose # now' - now => Open' = Open
              /\ ExpireStale => Open' = Open
              /\ \A e \in (Open \cup Unrecoverable) \ (Open \cup Unrecoverable)' :
                   journal'[e].state \in {"reversed", "abandoned"}]_hvars
  <2> SUFFICES ASSUME HNext
               PROVE  /\ Tick => Open \ Open' = ClosingSoon(now' - now)
                      /\ Tick /\ TimeToFirstClose # now' - now => Open' = Open
                      /\ ExpireStale => Open' = Open
                      /\ \A e \in (Open \cup Unrecoverable) \ (Open \cup Unrecoverable)' :
                           journal'[e].state \in {"reversed", "abandoned"}
    BY <1>1
  <2>1. ASSUME Tick
        PROVE  /\ Open \ Open' = ClosingSoon(now' - now)
               /\ TimeToFirstClose # now' - now => Open' = Open
    <3>1. now' - now = 1
      BY <1>1, <2>1 DEF Tick, HorizonInv, JournalInv, TypeOK
    <3> QED BY <1>1, <2>1, <3>1, BlindStays, TickForecast
  <2>2. ExpireStale => Open' = Open
    BY <1>1, BlindStays, SweepForecast
  <2>3. ASSUME NEW e \in (Open \cup Unrecoverable) \ (Open \cup Unrecoverable)'
        PROVE  journal'[e].state \in {"reversed", "abandoned"}
    <3>1. e \in Entries /\ journal[e].state \in {"committed", "reversal_failed", "expired"}
      BY InView DEF InState
    <3>2. (Open \cup Unrecoverable)' = InState({"committed", "reversal_failed", "expired"})'
      BY DEF Open, Unrecoverable, Expired, StandingExposure, Broken, InState
    <3>3. journal'[e].state \notin {"committed", "reversal_failed", "expired"}
      BY <3>1, <3>2 DEF InState
    <3> QED BY <1>1, <3>1, <3>3, HorizonSteps, LeavesView
  <2> QED BY <2>1, <2>2, <2>3
<1> QED BY <1>1, HorizonInvariant, PTL DEF HFairSpec, ForecastHolds

-----------------------------------------------------------------------------
(* Revocation.                                                             *)

\* Only these operations touch what AuthorityInv speaks of.
LEMMA FrameLemma ==
  ASSUME AuthorityInv, UNCHANGED <<issued, revoked, under, phase, tainted>>
  PROVE  AuthorityInv'
BY DEF AuthorityInv, RevokedAuthorityNeverActs

LEMMA ResponderLemma ==
  ASSUME AuthorityInv, NEW r \in Responders, Respond(r)
  PROVE  AuthorityInv'
<1>1. ASSUME NEW d \in Delegations, Revoke(r, d) PROVE AuthorityInv'
  <2>1. /\ revoked' = revoked \cup {d}
        /\ UNCHANGED <<issued, under, phase, tainted>>
    BY <1>1 DEF Revoke
  <2>. QED BY <2>1 DEF AuthorityInv, RevokedAuthorityNeverActs
<1>2. ASSUME NEW d \in Delegations, Collect(r, d) PROVE AuthorityInv'
  BY <1>2, FrameLemma DEF Collect, control
<1>3. CASE Select(r)
  BY <1>3, FrameLemma DEF Select, control
<1>4. ASSUME NEW done \in SUBSET StepNames, CascadeReverse(r, done) PROVE AuthorityInv'
  BY <1>4, FrameLemma DEF CascadeReverse, control, CascadeOver
<1>5. CASE CascadeSkip(r)
  BY <1>5, FrameLemma DEF CascadeSkip, Refuses, control, CascadeOver
<1>6. CASE Report(r)
  BY <1>6, FrameLemma DEF Report, control, CascadeOver
<1>. QED BY <1>1, <1>2, <1>3, <1>4, <1>5, <1>6 DEF Respond

\* The phase of an action that is not tainted is free to move on.
LEMMA PhaseLemma ==
  ASSUME AuthorityInv, NEW e \in Entries, NEW p \in Phases,
         e \in tainted => p \in {"recorded", "refused"},
         phase' = [phase EXCEPT ![e] = p],
         UNCHANGED <<issued, revoked, under, tainted>>
  PROVE  AuthorityInv'
BY DEF AuthorityInv, RevokedAuthorityNeverActs

LEMMA AgentLemma ==
  ASSUME AuthorityInv, NEW e \in Entries,
         \/ \E d \in Delegations : RecordAction(e, d)
         \/ Allow(e) \/ Refuse(e)
         \/ Execute(e) \/ ExecuteFails(e) \/ Confirm(e)
         \/ \E done \in SUBSET StepNames : UndoOne(e, done)
  PROVE  AuthorityInv'
<1>1. ASSUME NEW d \in Delegations, RecordAction(e, d) PROVE AuthorityInv'
  \* the chain is broken when the action is recorded, or the action is not tainted
  <2>1. /\ phase[e] = "idle"
        /\ phase' = [phase EXCEPT ![e] = "recorded"]
        /\ under' = [under EXCEPT ![e] = d]
        /\ tainted' = IF Chain[d] \cap revoked # {} THEN tainted \cup {e} ELSE tainted
        /\ UNCHANGED <<issued, revoked>>
    BY <1>1 DEF RecordAction
  <2>2. e \notin tainted
    BY <2>1 DEF AuthorityInv, RevokedAuthorityNeverActs
  <2>. QED BY <2>1, <2>2 DEF AuthorityInv, RevokedAuthorityNeverActs, Phases
<1>2. CASE Allow(e)
  <2>1. e \notin tainted
    BY <1>2 DEF Allow, ChainVerifies, AuthorityInv
  <2>. QED BY <1>2, <2>1, PhaseLemma DEF Allow, Phases
<1>3. CASE Refuse(e)
  BY <1>3, PhaseLemma DEF Refuse, Phases
<1>4. CASE Execute(e)
  <2>1. e \notin tainted
    BY <1>4 DEF Execute, AuthorityInv, RevokedAuthorityNeverActs
  <2>. QED BY <1>4, <2>1, PhaseLemma DEF Execute, Phases
<1>5. CASE ExecuteFails(e)
  <2>1. e \notin tainted
    BY <1>5 DEF ExecuteFails, AuthorityInv, RevokedAuthorityNeverActs
  <2>. QED BY <1>5, <2>1, PhaseLemma DEF ExecuteFails, Phases
<1>6. CASE Confirm(e)
  <2>1. e \notin tainted
    BY <1>6 DEF Confirm, AuthorityInv, RevokedAuthorityNeverActs
  <2>. QED BY <1>6, <2>1, PhaseLemma DEF Confirm, Phases
<1>7. ASSUME NEW done \in SUBSET StepNames, UndoOne(e, done) PROVE AuthorityInv'
  BY <1>7, FrameLemma DEF UndoOne, control
<1>. QED BY <1>1, <1>2, <1>3, <1>4, <1>5, <1>6, <1>7

LEMMA AuthorityInit == CInit => AuthorityInv
<1>. SUFFICES ASSUME CInit PROVE AuthorityInv
  OBVIOUS
<1>1. issued \subseteq Delegations /\ tainted = {}
  BY DEF CInit
<1>2. phase \in [Entries -> Phases]
  BY DEF CInit, Phases
<1>3. under \in [Entries -> Delegations]
  BY DelegationsAssumption DEF CInit
<1>. QED BY <1>1, <1>2, <1>3 DEF AuthorityInv, RevokedAuthorityNeverActs

LEMMA AuthorityKept == AuthorityInv /\ [CNext]_cvars => AuthorityInv'
<1>. SUFFICES ASSUME AuthorityInv, [CNext]_cvars PROVE AuthorityInv'
  OBVIOUS
<1>1. ASSUME NEW d \in Delegations, SubDelegate(d) PROVE AuthorityInv'
  BY <1>1 DEF SubDelegate, AuthorityInv, RevokedAuthorityNeverActs
<1>2. ASSUME NEW r \in Responders, NEW op \in {"contain", "undo_all"},
             NEW d \in Delegations, Begin(r, op, d)
      PROVE  AuthorityInv'
  BY <1>2, FrameLemma DEF Begin, control
<1>3. CASE Environment
  BY <1>3, FrameLemma DEF Environment, control
<1>4. CASE UNCHANGED cvars
  BY <1>4, FrameLemma DEF cvars, control
<1>. QED BY <1>1, <1>2, <1>3, <1>4, AgentLemma, ResponderLemma DEF CNext

\* Revocations only accumulate, and an action recorded under a revoked chain
\* keeps a revoked chain and gets no further than being refused.
THEOREM AuthorityInvariant == CSpec => []AuthorityInv
BY AuthorityInit, AuthorityKept, PTL DEF CSpec

\* An action recorded under authority that was already revoked, even through a
\* grant sub-delegated after the revocation, is never allowed: ControlPlane.authorize
\* walks the chain of every action to its root.
THEOREM RevokedNeverActs == CSpec => []RevokedAuthorityNeverActs
<1>1. AuthorityInv => RevokedAuthorityNeverActs
  BY DEF AuthorityInv
<1>. QED BY <1>1, AuthorityInvariant, PTL

-----------------------------------------------------------------------------
(* The invariant of agents and responders: AuthorityInv and JournalInv,    *)
(* and for every entry and every responder:                                *)

Acted == {"allowed", "executed", "confirmed"}

ResponderStates ==
  [pc : {"idle", "revoke", "collect", "select", "cascade", "done"},
   op : {"contain", "undo_all"}, scope : SUBSET Delegations, left : SUBSET Delegations,
   wanted : Seq(Entries), stopOnError : BOOLEAN, selected : SUBSET Entries,
   escaping : SUBSET Entries, todo : Seq(Entries), reversed : Seq(Entries),
   failed : SUBSET Entries, skipped : SUBSET Entries, stopped : BOOLEAN]

\* Where the agent is with an action tells the state of its entry.
AgentInv(e) ==
  /\ phase[e] \in {"idle", "recorded"} => journal[e].state = "none"
  /\ phase[e] \in {"allowed", "executed"} => journal[e].state = "planned"
  /\ phase[e] \in {"refused", "failed"} => journal[e].state = "abandoned"
  /\ phase[e] = "confirmed" => journal[e].state \notin {"none", "planned", "abandoned"}
  /\ commits[e] = (IF phase[e] = "confirmed" THEN 1 ELSE 0)
  /\ phase[e] # "idle" => e \in Seqs!ToSet(recorded)

\* An undo has one author, a single undo or one responder.
CreditInv(e) ==
  /\ undone[e] = 0 <=> /\ e \notin undoneAlone
                       /\ \A r \in Responders : e \notin Seqs!ToSet(responder[r].reversed)
  /\ e \in undoneAlone => \A r \in Responders : e \notin Seqs!ToSet(responder[r].reversed)
  /\ \A r, s \in Responders :
       e \in Seqs!ToSet(responder[r].reversed) /\ e \in Seqs!ToSet(responder[s].reversed) => r = s

Newer(d, e) == journal[d].committedAt >= journal[e].committedAt

\* What was selected is in one part of the report, or still to do, in the right order.
CascadeInv(x) ==
  /\ x.pc \notin {"cascade", "done"} =>
       x.todo = <<>> /\ x.reversed = <<>> /\ x.failed = {} /\ x.skipped = {}
  /\ x.selected = Seqs!ToSet(x.todo) \cup Seqs!ToSet(x.reversed) \cup x.failed \cup x.skipped
  /\ x.pc = "done" => x.todo = <<>> \/ x.stopped
  /\ \A e \in x.selected : phase[e] = "confirmed"
  /\ \A i, j \in DOMAIN x.todo : i < j => Newer(x.todo[i], x.todo[j])
  /\ \A i, j \in DOMAIN x.reversed : i < j => Newer(x.reversed[i], x.reversed[j])
  /\ \A i \in DOMAIN x.reversed, j \in DOMAIN x.todo : Newer(x.reversed[i], x.todo[j])

\* What acts under a grant that a containment revoked and has looked at.
CaughtInv(x) ==
  x.op = "contain" =>
    /\ x.pc = "revoke" => x.scope \ x.left \subseteq revoked
    /\ x.pc \in {"collect", "select", "cascade", "done"} => x.scope \subseteq revoked
    /\ \A e \in Entries :
         under[e] \in x.scope /\ phase[e] \in Acted =>
           /\ x.pc = "collect" /\ under[e] \notin x.left => e \in Seqs!ToSet(x.wanted)
           /\ x.pc = "select" => e \in Seqs!ToSet(x.wanted)
           /\ x.pc \in {"cascade", "done"} /\ undone[e] = 0 => e \in x.selected \cup x.escaping

ResponderInv(r) ==
  LET x == responder[r]
  IN /\ x.scope \subseteq issued
     /\ x.left \subseteq x.scope
     /\ CascadeInv(x)
     /\ CaughtInv(x)

ContainmentInv ==
  /\ JournalInv
  /\ AuthorityInv
  /\ revoked \subseteq issued
  /\ recorded \in Seq(Entries)
  /\ responder \in [Responders -> ResponderStates]
  /\ undoneAlone \subseteq Entries
  /\ tainted \subseteq Entries
  /\ \A e \in Entries : AgentInv(e) /\ CreditInv(e)
  /\ \A r \in Responders : ResponderInv(r)

-----------------------------------------------------------------------------
(* The journal and the authority under the operations of the control plane. *)

\* A refused action leaves a plan that was abandoned in the same call.
LEMMA RefusedInv ==
  ASSUME ContainmentInv, NEW e \in Entries, Refuse(e)
  PROVE  JournalInv'
<1> DEFINE x == journal[e]
<1>1. PICK kind \in Kinds :
        journal' = [journal EXCEPT ![e] = [PlanFor(x.tool, TRUE, kind) EXCEPT !.state = "abandoned"]]
  BY DEF Refuse, Classified, Classifications, NoBetterThan
<1>2. /\ x \in JournalEntries /\ x.state = "none" /\ UNCHANGED <<now, openGates, history>>
      /\ TypeOK /\ EntriesInv
  BY InvByEntry DEF Refuse, ContainmentInv, AgentInv, JournalInv, TypeOK
<1> DEFINE y == PlanFor(x.tool, TRUE, kind)
           z == [y EXCEPT !.state = "abandoned"]
<1>3. y \in JournalEntries /\ y.state = "planned"
  BY <1>2, PlanTypes DEF JournalEntries, PlanFor
<1>4. EntryInv(x, commits[e], runs[e], undone[e], applied[e])
  BY <1>2 DEF EntriesInv
<1>5. EntryInv(y, commits[e], runs[e], undone[e], applied[e])
  BY <1>2, <1>4, PlanInv DEF TypeOK
<1> HIDE DEF x, y
<1>6. EntryInv(z, commits[e], runs[e], undone[e], applied[e])
  BY <1>2, <1>3, <1>5, ResolveInv DEF TypeOK
<1>7. z \in JournalEntries
  BY <1>3, SetState DEF JournalStates
<1>8. journal' = [journal EXCEPT ![e] = z]
  BY <1>1 DEF x, y
<1> HIDE DEF z
<1>9. TypeOK'
  BY <1>2, <1>7, <1>8 DEF TypeOK, history
<1>10. EntriesInv'
  <2> SUFFICES ASSUME NEW f \in Entries
               PROVE  EntryInv(journal[f], commits[f], runs[f], undone[f], applied[f])'
    BY DEF EntriesInv
  <2>1. EntryInv(journal[f], commits[f], runs[f], undone[f], applied[f])
    BY <1>2 DEF EntriesInv
  <2>2. journal'[f] = IF f = e THEN z ELSE journal[f]
    BY <1>2, <1>8 DEF TypeOK
  <2> QED
    BY <1>2, <1>6, <2>1, <2>2 DEF history, EntryInv
<1> QED
  <2>1. (TypeOK /\ EntriesInv)' => JournalInv'
    BY InvByEntry, PTL
  <2> QED
    BY <1>9, <1>10, <2>1

\* Every other operation is one of the engine's, or does not touch the journal.
LEMMA JournalSteps ==
  ASSUME ContainmentInv, CNext \/ UNCHANGED cvars, \A e \in Entries : ~Refuse(e)
  PROVE  [Next]_vars
<1>1. CASE \/ UNCHANGED vars
           \/ \E e \in Entries, found \in BOOLEAN : Commit(e, found)
           \/ \E e \in Entries : Abandon(e) \/ ReverseExpired(e)
           \/ ExpireStale \/ Tick \/ \E g \in Gates : FlipGate(g)
  BY <1>1 DEF Next
<1>2. ASSUME NEW e \in Entries, NEW done \in SUBSET StepNames, Reverse(e, FALSE, done)
      PROVE  [Next]_vars
  BY <1>2 DEF Next
<1>3. ASSUME NEW e \in Entries, NEW kind \in Classified(e), OpenJournal(e, TRUE, kind)
      PROVE  [Next]_vars
  BY <1>3 DEF Next, OpenJournal, Classifications, NoBetterThan
<1>4. ASSUME NEW e \in Entries,
             \/ \E d \in Delegations : RecordAction(e, d)
             \/ Allow(e) \/ Execute(e) \/ ExecuteFails(e) \/ Confirm(e)
             \/ \E done \in SUBSET StepNames : UndoOne(e, done)
      PROVE  [Next]_vars
  BY <1>1, <1>2, <1>3, <1>4 DEF RecordAction, Allow, Execute, ExecuteFails, Confirm, UndoOne
<1>5. ASSUME NEW r \in Responders, Respond(r) \/ \E op \in {"contain", "undo_all"}, d \in Delegations : Begin(r, op, d)
      PROVE  [Next]_vars
  <2>1. responder[r].todo \in Seq(Entries)
    BY DEF ContainmentInv, ResponderStates
  <2>2. responder[r].todo # <<>> => Head(responder[r].todo) \in Entries
    BY <2>1
  <2>3. ASSUME NEW done \in SUBSET StepNames, CascadeReverse(r, done) PROVE [Next]_vars
    <3>1. PICK e \in Entries : Reverse(e, FALSE, done)
      BY <2>2, <2>3, Zenon DEF CascadeReverse, CascadeOver
    <3> QED
      BY <1>2, <3>1
  <2>4. CASE CascadeSkip(r)
    BY <1>1, <2>2, <2>4 DEF CascadeSkip, Refuses, CascadeOver
  <2>5. CASE \/ \E d \in Delegations : Revoke(r, d) \/ Collect(r, d)
             \/ Select(r) \/ Report(r) \/ \E op \in {"contain", "undo_all"}, d \in Delegations : Begin(r, op, d)
    BY <1>1, <2>5 DEF Revoke, Collect, Select, Report, Begin, CascadeOver
  <2> QED
    BY <1>5, <2>3, <2>4, <2>5 DEF Respond
<1>6. ASSUME \/ \E d \in Delegations : SubDelegate(d)
             \/ Environment \/ UNCHANGED cvars
      PROVE  [Next]_vars
  BY <1>1, <1>6 DEF SubDelegate, Environment, cvars
<1> QED
  BY <1>4, <1>5, <1>6 DEF CNext

LEMMA JournalKept ==
  ASSUME ContainmentInv, CNext \/ UNCHANGED cvars
  PROVE  JournalInv'
<1>1. [Next]_vars => JournalInv'
  BY InvNext DEF ContainmentInv
<1> QED
  BY <1>1, JournalSteps, RefusedInv

-----------------------------------------------------------------------------
(* What a step does to those who do not take it.                           *)

\* What a responder may rely on while others act: what is confirmed stays so, nothing
\* starts to act under a revoked grant, and what is undone stays undone.
Meanwhile ==
  /\ issued \subseteq issued' /\ revoked \subseteq revoked'
  /\ \A e \in Entries :
       /\ phase[e] = "confirmed" =>
            phase'[e] = "confirmed" /\ journal'[e].committedAt = journal[e].committedAt
       /\ phase'[e] \in Acted =>
            under'[e] = under[e] /\ (phase[e] \in Acted \/ under[e] \notin revoked)
       /\ undone'[e] = 0 => undone[e] = 0

Outsiders == Meanwhile /\ \A e \in Entries : AgentInv(e)'

\* Steps that leave the agents alone, and change entries by undoing or expiring them.
LEMMA QuietKept ==
  ASSUME ContainmentInv, UNCHANGED <<recorded, under, phase>>,
         issued \subseteq issued', revoked \subseteq revoked',
         \A e \in Entries :
           /\ journal'[e].committedAt = journal[e].committedAt
           /\ \/ journal'[e].state = journal[e].state
              \/ /\ phase[e] = "confirmed"
                 /\ journal'[e].state \in {"reversed", "reversal_failed", "expired"}
           /\ commits'[e] = commits[e]
           /\ undone[e] <= undone'[e]
  PROVE  Outsiders
<1>1. \A e \in Entries : undone'[e] = 0 => undone[e] = 0
  BY DEF ContainmentInv, JournalInv, TypeOK
<1>2. Meanwhile
  BY <1>1 DEF Meanwhile
<1>3. ASSUME NEW e \in Entries PROVE AgentInv(e)'
  <2>1. AgentInv(e)
    BY DEF ContainmentInv
  <2> QED
    BY <2>1 DEF AgentInv
<1> QED
  BY <1>2, <1>3 DEF Outsiders

\* An undo, or the discovery that its window is closed, concerns a confirmed action.
LEMMA UndoEffect ==
  ASSUME ContainmentInv, NEW e \in Entries, NEW done \in SUBSET StepNames,
         Reverse(e, FALSE, done) \/ ReverseExpired(e)
  PROVE  /\ phase[e] = "confirmed"
         /\ \A f \in Entries :
              /\ journal'[f].committedAt = journal[f].committedAt
              /\ \/ journal'[f].state = journal[f].state
                 \/ /\ phase[f] = "confirmed"
                    /\ journal'[f].state \in {"reversed", "reversal_failed", "expired"}
              /\ commits'[f] = commits[f]
              /\ undone[f] <= undone'[f]
<1>1. /\ journal \in [Entries -> JournalEntries] /\ undone \in [Entries -> Nat]
      /\ phase[e] \in Phases /\ AgentInv(e)
  BY DEF ContainmentInv, JournalInv, TypeOK, AuthorityInv
<1>2. HasLiveUndo(journal[e])
  BY Zenon DEF Reverse, CanReverse, ReverseExpired, FindsExpired
<1>3. phase[e] = "confirmed"
  BY <1>1, <1>2 DEF HasLiveUndo, AgentInv, Phases
<1>4. PICK s \in {"reversed", "reversal_failed", "expired"} :
        journal' = [journal EXCEPT ![e].state = s]
  BY DEF Reverse, CanReverse, ReverseExpired, FindsExpired
<1>5. \A f \in Entries :
        /\ journal'[f].committedAt = journal[f].committedAt
        /\ f # e => journal'[f].state = journal[f].state
        /\ f = e => journal'[f].state = s
  BY <1>1, <1>4 DEF JournalEntries
<1>6. commits' = commits /\ \A f \in Entries : undone[f] <= undone'[f]
  <2>1. CASE Reverse(e, FALSE, done)
    <3>1. commits' = commits /\ (undone' = [undone EXCEPT ![e] = @ + 1] \/ undone' = undone)
      BY <1>1, <2>1 DEF Reverse, CanReverse
    <3> QED
      BY <1>1, <3>1
  <2>2. CASE ReverseExpired(e)
    BY <1>1, <2>2 DEF ReverseExpired, FindsExpired, history
  <2> QED
    BY <2>1, <2>2
<1> QED
  BY <1>3, <1>5, <1>6

\* The chain of a grant contains the grant.
LEMMA OwnChain ==
  ASSUME NEW d \in Delegations
  PROVE  d \in Chain[d]
BY DEF Chain

\* The agent moves one action on, and its entry with it.
LEMMA AgentMoves ==
  ASSUME ContainmentInv, NEW e \in Entries, NEW p \in Phases,
         phase[e] # "confirmed",
         phase' = [phase EXCEPT ![e] = p],
         \A f \in Entries : f # e => /\ journal'[f] = journal[f] /\ under'[f] = under[f]
                                     /\ commits'[f] = commits[f],
         \A f \in Entries : f \in Seqs!ToSet(recorded) => f \in Seqs!ToSet(recorded'),
         UNCHANGED <<issued, revoked, undone>>,
         p \in Acted => under'[e] = under[e] /\ (phase[e] \in Acted \/ under[e] \notin revoked),
         AgentInv(e)'
  PROVE  Outsiders
<1>1. \A f \in Entries : phase'[f] = IF f = e THEN p ELSE phase[f]
  BY DEF ContainmentInv, AuthorityInv
<1>2. Meanwhile
  BY <1>1 DEF Meanwhile
<1>3. ASSUME NEW f \in Entries, f # e PROVE AgentInv(f)'
  <2>1. AgentInv(f)
    BY DEF ContainmentInv
  <2> QED
    BY <1>1, <1>3, <2>1 DEF AgentInv
<1> QED
  BY <1>2, <1>3 DEF Outsiders

\* Every step of an agent does no more than that.
LEMMA AgentsKept ==
  ASSUME ContainmentInv, NEW e \in Entries,
         \/ \E d \in Delegations : RecordAction(e, d)
         \/ Allow(e) \/ Refuse(e) \/ Execute(e) \/ ExecuteFails(e) \/ Confirm(e)
  PROVE  Outsiders /\ recorded' \in Seq(Entries)
<1>1. /\ journal \in [Entries -> JournalEntries] /\ journal[e] \in JournalEntries
      /\ commits \in [Entries -> Nat] /\ undone \in [Entries -> Nat]
      /\ phase \in [Entries -> Phases] /\ under \in [Entries -> Delegations]
      /\ recorded \in Seq(Entries) /\ AgentInv(e)
  BY DEF ContainmentInv, JournalInv, TypeOK, AuthorityInv
<1>2. ASSUME NEW d \in Delegations, RecordAction(e, d)
      PROVE  Outsiders /\ recorded' \in Seq(Entries)
  <2>1. /\ phase[e] = "idle" /\ phase' = [phase EXCEPT ![e] = "recorded"]
        /\ under' = [under EXCEPT ![e] = d] /\ recorded' = Append(recorded, e)
        /\ UNCHANGED <<journal, commits, undone, issued, revoked>>
    BY <1>2 DEF RecordAction, vars, history
  <2>2. /\ recorded' \in Seq(Entries) /\ e \in Seqs!ToSet(recorded')
        /\ \A f \in Entries : f \in Seqs!ToSet(recorded) => f \in Seqs!ToSet(recorded')
    <3>1. /\ recorded' \in Seq(Entries) /\ Len(recorded') = Len(recorded) + 1
          /\ recorded'[Len(recorded) + 1] = e
          /\ \A i \in DOMAIN recorded : i \in DOMAIN recorded' /\ recorded'[i] = recorded[i]
      BY <1>1, <2>1
    <3>2. Len(recorded) + 1 \in DOMAIN recorded'
      BY <1>1, <3>1
    <3> QED
      BY <3>1, <3>2 DEF Seqs!ToSet
  <2>3. AgentInv(e)'
    BY <1>1, <2>1, <2>2 DEF AgentInv
  <2> QED
    BY <1>1, <2>1, <2>2, <2>3, AgentMoves DEF Phases, Acted
<1>3. CASE Allow(e)
  <2>1. /\ phase[e] = "recorded" /\ phase' = [phase EXCEPT ![e] = "allowed"]
        /\ ChainVerifies(under[e])
        /\ UNCHANGED <<issued, revoked, recorded, under>>
    BY <1>3 DEF Allow
  <2>2. PICK kind \in Kinds : OpenJournal(e, TRUE, kind)
    BY <1>3 DEF Allow, OpenJournal, Classifications, NoBetterThan
  <2>3. /\ journal' = [journal EXCEPT ![e] = PlanFor(journal[e].tool, TRUE, kind)]
        /\ UNCHANGED <<commits, undone>>
    BY <2>2 DEF OpenJournal, history
  <2>4. PlanFor(journal[e].tool, TRUE, kind).state = "planned"
    BY DEF PlanFor
  <2>5. AgentInv(e)'
    BY <1>1, <2>1, <2>3, <2>4 DEF AgentInv
  <2>6. under[e] \notin revoked
    BY <1>1, <2>1, OwnChain DEF ChainVerifies
  <2>7. \A f \in Entries : f # e => journal'[f] = journal[f]
    BY <1>1, <2>3
  <2> QED
    BY <1>1, <2>1, <2>3, <2>5, <2>6, <2>7, AgentMoves DEF Phases
<1>4. CASE Refuse(e)
  <2>1. /\ phase[e] = "recorded" /\ phase' = [phase EXCEPT ![e] = "refused"]
        /\ UNCHANGED <<commits, undone, issued, revoked, recorded, under>>
    BY <1>4 DEF Refuse, history
  <2>2. PICK kind : journal' = [journal EXCEPT ![e] =
                        [PlanFor(journal[e].tool, TRUE, kind) EXCEPT !.state = "abandoned"]]
    BY <1>4 DEF Refuse
  <2>3. [PlanFor(journal[e].tool, TRUE, kind) EXCEPT !.state = "abandoned"].state = "abandoned"
    BY DEF PlanFor
  <2>4. journal'[e].state = "abandoned" /\ \A f \in Entries : f # e => journal'[f] = journal[f]
    BY <1>1, <2>2, <2>3
  <2>5. AgentInv(e)'
    BY <1>1, <2>1, <2>4 DEF AgentInv
  <2> QED
    BY <1>1, <2>1, <2>4, <2>5, AgentMoves DEF Phases, Acted
<1>5. CASE Execute(e)
  <2>1. /\ phase[e] = "allowed" /\ phase' = [phase EXCEPT ![e] = "executed"]
        /\ UNCHANGED <<journal, commits, undone, issued, revoked, recorded, under>>
    BY <1>5 DEF Execute, vars, history
  <2>2. AgentInv(e)'
    BY <1>1, <2>1 DEF AgentInv
  <2> QED
    BY <1>1, <2>1, <2>2, AgentMoves DEF Phases, Acted
<1>6. CASE ExecuteFails(e)
  <2>1. /\ phase[e] = "allowed" /\ phase' = [phase EXCEPT ![e] = "failed"]
        /\ journal' = [journal EXCEPT ![e].state = "abandoned"]
        /\ UNCHANGED <<commits, undone, issued, revoked, recorded, under>>
    BY <1>6 DEF ExecuteFails, Abandon, history
  <2>2. journal'[e].state = "abandoned" /\ \A f \in Entries : f # e => journal'[f] = journal[f]
    BY <1>1, <2>1 DEF JournalEntries
  <2>3. AgentInv(e)'
    BY <1>1, <2>1, <2>2 DEF AgentInv
  <2> QED
    BY <1>1, <2>1, <2>2, <2>3, AgentMoves DEF Phases, Acted
<1>7. CASE Confirm(e)
  <2>1. PICK found \in BOOLEAN : Commit(e, found)
    BY <1>7 DEF Confirm
  <2>2. /\ phase[e] = "executed" /\ phase' = [phase EXCEPT ![e] = "confirmed"]
        /\ journal' = [journal EXCEPT ![e] = Committed(journal[e], found)]
        /\ commits' = [commits EXCEPT ![e] = @ + 1]
        /\ UNCHANGED <<undone, issued, revoked, recorded, under>>
    BY <1>7, <2>1 DEF Confirm, Commit
  <2>3. Committed(journal[e], found).state = "committed"
    <3>1. Settled(journal[e], found) = journal[e] \/
          \E a, b : Settled(journal[e], found) = [journal[e] EXCEPT !.bound = a, !.unresolved = b, !.deferred = {}]
      BY DEF Settled
    <3> QED
      BY <1>1, <3>1 DEF Committed, JournalEntries
  <2>4. journal'[e].state = "committed" /\ \A f \in Entries : f # e => journal'[f] = journal[f]
    BY <1>1, <2>2, <2>3
  <2>5. AgentInv(e)'
    BY <1>1, <2>2, <2>4 DEF AgentInv
  <2> QED
    BY <1>1, <2>2, <2>4, <2>5, AgentMoves DEF Phases, Acted
<1> QED
  BY <1>2, <1>3, <1>4, <1>5, <1>6, <1>7

\* A responder that does not move keeps its part of the invariant.
LEMMA BystanderKept ==
  ASSUME ContainmentInv, Meanwhile, NEW r \in Responders, responder'[r] = responder[r]
  PROVE  ResponderInv(r)'
<1> DEFINE x == responder[r]
<1>1. /\ ResponderInv(r) /\ x \in ResponderStates
      /\ x.selected \subseteq Entries /\ x.todo \in Seq(Entries) /\ x.reversed \in Seq(Entries)
  BY DEF ContainmentInv, ResponderStates
<1>2. CascadeInv(x)'
  <2>1. /\ \A i \in DOMAIN x.todo : x.todo[i] \in x.selected
        /\ \A i \in DOMAIN x.reversed : x.reversed[i] \in x.selected
    BY <1>1 DEF ResponderInv, CascadeInv, Seqs!ToSet
  <2>2. \A e, f \in x.selected : Newer(e, f) => Newer(e, f)'
    BY <1>1 DEF ResponderInv, CascadeInv, Newer, Meanwhile
  <2>3. \A e \in x.selected : phase'[e] = "confirmed"
    BY <1>1 DEF ResponderInv, CascadeInv, Meanwhile
  <2> QED
    BY <1>1, <2>1, <2>2, <2>3 DEF ResponderInv, CascadeInv
<1>3. CaughtInv(x)'
  <2> SUFFICES ASSUME x.op = "contain"
               PROVE  CaughtInv(x)'
    BY DEF CaughtInv
  <2>1. /\ x.pc = "revoke" => x.scope \ x.left \subseteq revoked'
        /\ x.pc \in {"collect", "select", "cascade", "done"} => x.scope \subseteq revoked'
    BY <1>1 DEF ResponderInv, CaughtInv, Meanwhile
  <2>2. ASSUME NEW e \in Entries, under'[e] \in x.scope, phase'[e] \in Acted,
               x.pc \in {"collect", "select", "cascade", "done"}
        PROVE  /\ under'[e] = under[e] /\ phase[e] \in Acted
               /\ undone'[e] = 0 => undone[e] = 0
    BY <1>1, <2>2 DEF ResponderInv, CaughtInv, Meanwhile
  <2> QED
    BY <1>1, <2>1, <2>2 DEF ResponderInv, CaughtInv
<1>4. x.scope \subseteq issued' /\ x.left \subseteq x.scope
  BY <1>1 DEF ResponderInv, Meanwhile
<1> QED
  BY <1>2, <1>3, <1>4 DEF ResponderInv, CascadeInv, CaughtInv

-----------------------------------------------------------------------------
(* Sorting.                                                                *)

\* What a sequence holds is finite.
LEMMA HeldIsFinite ==
  ASSUME NEW S, NEW s \in Seq(S)
  PROVE  IsFiniteSet(Seqs!ToSet(s)) /\ Seqs!ToSet(s) \subseteq S
<1>1. s \in Surjection(1 .. Len(s), Seqs!ToSet(s)) /\ Len(s) \in Nat
  BY DEF Surjection, Seqs!ToSet
<1>2. IsFiniteSet(1 .. Len(s))
  BY <1>1, FS_Interval
<1> QED
  BY <1>1, <1>2, FS_Surjection DEF Seqs!ToSet

\* An order in which no element comes twice has every element.
LEMMA OrderIsWhole ==
  ASSUME NEW S, IsFiniteSet(S), NEW q \in Orders(S),
         \A i, j \in DOMAIN q : i < j => q[i] # q[j]
  PROVE  q \in Seq(S) /\ Seqs!ToSet(q) = S
<1>1. PICK n \in Nat : n = Cardinality(S)
  BY FS_CardinalityType
<1>2. q \in [1 .. n -> S]
  BY <1>1 DEF Orders
<1>3. q \in Injection(1 .. n, S)
  <2>1. ASSUME NEW i \in 1 .. n, NEW j \in 1 .. n, q[i] = q[j] PROVE i = j
    BY <1>2, <2>1
  <2> QED
    BY <1>2, <2>1 DEF Injection, IsInjective
<1>4. Cardinality(1 .. n) = Cardinality(S)
  BY <1>1, FS_Interval
<1>5. q \in Surjection(1 .. n, S)
  BY <1>3, <1>4, FS_Injection
<1> QED
  BY <1>2, <1>5 DEF Surjection, Seqs!ToSet

\* What is held by one sequence put behind another.
LEMMA JoinedHolds ==
  ASSUME NEW S, NEW s \in Seq(S), NEW t \in Seq(S)
  PROVE  Seqs!ToSet(s \o t) = Seqs!ToSet(s) \cup Seqs!ToSet(t)
<1>1. /\ s \o t \in Seq(S) /\ Len(s \o t) = Len(s) + Len(t) /\ Len(s) \in Nat /\ Len(t) \in Nat
      /\ \A i \in 1 .. Len(s) : (s \o t)[i] = s[i]
      /\ \A i \in 1 .. Len(t) : (s \o t)[Len(s) + i] = t[i]
  OBVIOUS
<1>2. \A i \in 1 .. Len(s) + Len(t) :
        i \in 1 .. Len(s) \/ (i - Len(s) \in 1 .. Len(t) /\ i = Len(s) + (i - Len(s)))
  BY <1>1
<1>3. /\ \A i \in 1 .. Len(t) : Len(s) + i \in 1 .. Len(s) + Len(t)
      /\ \A i \in 1 .. Len(s) : i \in 1 .. Len(s) + Len(t)
      /\ DOMAIN s = 1 .. Len(s) /\ DOMAIN t = 1 .. Len(t) /\ DOMAIN (s \o t) = 1 .. Len(s) + Len(t)
  BY <1>1
<1>4. PICK u : u = s \o t
  OBVIOUS
<1>5. \A i \in DOMAIN u : u[i] \in Seqs!ToSet(s) \cup Seqs!ToSet(t)
  BY <1>1, <1>2, <1>3, <1>4 DEF Seqs!ToSet
<1>6. \A i \in DOMAIN s : s[i] \in Seqs!ToSet(u)
  <2>1. \A i \in DOMAIN s : i \in DOMAIN u /\ u[i] = s[i]
    BY <1>1, <1>3, <1>4
  <2> QED
    BY <2>1 DEF Seqs!ToSet
<1>7. \A i \in DOMAIN t : t[i] \in Seqs!ToSet(u)
  <2>1. \A i \in DOMAIN t : Len(s) + i \in DOMAIN u /\ u[Len(s) + i] = t[i]
    BY <1>1, <1>3, <1>4
  <2> QED
    BY <2>1 DEF Seqs!ToSet
<1>8. ASSUME NEW e \in Seqs!ToSet(u) PROVE e \in Seqs!ToSet(s) \cup Seqs!ToSet(t)
  BY <1>5, <1>8 DEF Seqs!ToSet
<1>9. ASSUME NEW e \in Seqs!ToSet(s) \cup Seqs!ToSet(t) PROVE e \in Seqs!ToSet(u)
  <2>1. (\E i \in DOMAIN s : e = s[i]) \/ (\E i \in DOMAIN t : e = t[i])
    BY <1>9 DEF Seqs!ToSet
  <2> QED
    BY <1>6, <1>7, <2>1
<1> QED
  BY <1>4, <1>8, <1>9

\* What is held by a sequence that got longer by one.
LEMMA AppendHolds ==
  ASSUME NEW S, NEW s \in Seq(S), NEW e \in S
  PROVE  Seqs!ToSet(Append(s, e)) = Seqs!ToSet(s) \cup {e}
<1>1. PICK n \in Nat, w \in Seq(S) : n = Len(s) /\ w = Append(s, e)
  <2>1. Append(s, e) \in Seq(S) /\ Len(s) \in Nat
    BY AppendProperties
  <2> QED
    BY <2>1
<1>2. /\ DOMAIN s = 1 .. n /\ DOMAIN w = 1 .. n + 1
      /\ w[n + 1] = e /\ \A i \in 1 .. n : w[i] = s[i]
  BY <1>1, AppendProperties
<1>3. /\ \A i \in 1 .. n + 1 : i = n + 1 \/ i \in 1 .. n
      /\ \A i \in 1 .. n : i \in 1 .. n + 1
      /\ n + 1 \in 1 .. n + 1
  BY <1>1
<1>4. ASSUME NEW a \in Seqs!ToSet(w) PROVE a \in Seqs!ToSet(s) \cup {e}
  BY <1>2, <1>3, <1>4 DEF Seqs!ToSet
<1>5. ASSUME NEW a \in Seqs!ToSet(s) \cup {e} PROVE a \in Seqs!ToSet(w)
  <2>1. a = e \/ \E i \in DOMAIN s : a = s[i]
    BY <1>5 DEF Seqs!ToSet
  <2> QED
    BY <1>2, <1>3, <2>1 DEF Seqs!ToSet
<1> QED
  BY <1>1, <1>4, <1>5

\* The place of what a sequence holds is a number.
LEMMA PositionType ==
  ASSUME NEW S, NEW s \in Seq(S), NEW e \in Seqs!ToSet(s)
  PROVE  Position(s, e) \in Nat
BY DEF Position, Seqs!ToSet

\* What a containment collects under a grant is all that was recorded under it.
LEMMA CollectsAll ==
  ASSUME ContainmentInv, NEW d \in Delegations, NEW found \in RecordedUnder(d)
  PROVE  /\ found \in Seq(Entries)
         /\ Seqs!ToSet(found) = {e \in Seqs!ToSet(recorded) : under[e] = d}
<1> DEFINE S == {e \in Seqs!ToSet(recorded) : under[e] = d}
<1>1. recorded \in Seq(Entries)
  BY DEF ContainmentInv
<1>2. IsFiniteSet(S) /\ S \subseteq Entries
  BY <1>1, HeldIsFinite, FS_Subset
<1>3. found \in Orders(S)
  BY DEF RecordedUnder
<1>4. ASSUME NEW i \in DOMAIN found, NEW j \in DOMAIN found, i < j PROVE found[i] # found[j]
  <2>1. found[i] \in Seqs!ToSet(recorded) /\ found[j] \in Seqs!ToSet(recorded)
    BY <1>3 DEF Orders
  <2>2. Position(recorded, found[i]) \in Nat /\ Position(recorded, found[j]) \in Nat
    BY <1>1, <2>1, PositionType
  <2>3. Position(recorded, found[i]) < Position(recorded, found[j])
    BY <1>4 DEF RecordedUnder
  <2> QED
    BY <2>2, <2>3
<1> HIDE DEF S
<1>5. found \in Seq(S) /\ Seqs!ToSet(found) = S
  BY <1>2, <1>3, <1>4, OrderIsWhole
<1> QED
  BY <1>2, <1>5 DEF S

\* What a cascade selects are the committed entries, each once and the newest first.
LEMMA SelectsLive ==
  ASSUME ContainmentInv, NEW wanted \in Seq(Entries), NEW todo \in LiveNewestFirst(wanted)
  PROVE  /\ todo \in Seq(Entries) /\ Seqs!ToSet(todo) = Live(wanted) /\ Live(wanted) \subseteq Entries
         /\ \A i, j \in DOMAIN todo : i < j => Newer(todo[i], todo[j])
<1>1. IsFiniteSet(Live(wanted)) /\ Live(wanted) \subseteq Seqs!ToSet(wanted)
      /\ Live(wanted) \subseteq Entries
  BY HeldIsFinite, FS_Subset DEF Live
<1>2. todo \in Orders(Live(wanted))
  BY DEF LiveNewestFirst
<1>3. ASSUME NEW i \in DOMAIN todo, NEW j \in DOMAIN todo, i < j
      PROVE  todo[i] # todo[j] /\ Newer(todo[i], todo[j])
  <2>1. todo[i] \in Live(wanted) /\ todo[j] \in Live(wanted)
    BY <1>2 DEF Orders
  <2>2. /\ journal[todo[i]].committedAt \in Nat /\ journal[todo[j]].committedAt \in Nat
        /\ Position(wanted, todo[i]) \in Nat /\ Position(wanted, todo[j]) \in Nat
    BY <1>1, <2>1, PositionType DEF ContainmentInv, JournalInv, TypeOK, JournalEntries
  <2>3. \/ journal[todo[i]].committedAt > journal[todo[j]].committedAt
        \/ TiesKept(wanted, todo[i], todo[j])
    BY <1>3 DEF LiveNewestFirst
  <2> QED
    BY <2>2, <2>3 DEF TiesKept, Newer
<1>4. todo \in Seq(Live(wanted)) /\ Seqs!ToSet(todo) = Live(wanted)
  BY <1>1, <1>2, <1>3, OrderIsWhole
<1> QED
  BY <1>1, <1>3, <1>4

-----------------------------------------------------------------------------
(* The steps of a responder.                                               *)

\* A responder that was free reads the subtree of a grant.
LEMMA BeginKept ==
  ASSUME ContainmentInv, NEW r \in Responders, NEW op \in {"contain", "undo_all"},
         NEW d \in Delegations, Begin(r, op, d)
  PROVE  responder'[r] \in ResponderStates /\ responder'[r].reversed = <<>> /\ ResponderInv(r)'
<1>1. PICK y : /\ y = [Idle EXCEPT !.op = op, !.scope = Subtree(d), !.left = Subtree(d),
                                   !.stopOnError = (op = "undo_all"),
                                   !.pc = IF op = "contain" THEN "revoke" ELSE "collect"]
               /\ responder'[r] = y
  BY DEF Begin, Set, ContainmentInv
<1>2. /\ y = [pc |-> IF op = "contain" THEN "revoke" ELSE "collect", op |-> op,
              scope |-> Subtree(d), left |-> Subtree(d), wanted |-> <<>>,
              stopOnError |-> (op = "undo_all"), selected |-> {}, escaping |-> {},
              todo |-> <<>>, reversed |-> <<>>, failed |-> {}, skipped |-> {}, stopped |-> FALSE]
  BY <1>1 DEF Idle
<1>3. Subtree(d) \subseteq issued /\ issued \subseteq Delegations /\ UNCHANGED issued
  BY DEF Subtree, ContainmentInv, AuthorityInv, Begin, control
<1>4. y \in ResponderStates
  BY <1>2, <1>3 DEF ResponderStates
<1>5. /\ y.scope = Subtree(d) /\ y.left = Subtree(d) /\ y.selected = {} /\ y.todo = <<>>
      /\ y.reversed = <<>> /\ y.failed = {} /\ y.skipped = {}
      /\ y.pc = (IF op = "contain" THEN "revoke" ELSE "collect") /\ y.op = op
  BY <1>2
<1>6. CascadeInv(y)'
  BY <1>5 DEF CascadeInv, Seqs!ToSet
<1>7. CaughtInv(y)'
  BY <1>5 DEF CaughtInv
<1> QED
  BY <1>1, <1>3, <1>4, <1>5, <1>6, <1>7 DEF ResponderInv, CascadeInv, CaughtInv

\* One more grant of the subtree is revoked.
LEMMA RevokeKept ==
  ASSUME ContainmentInv, NEW r \in Responders, NEW d \in Delegations, Revoke(r, d)
  PROVE  /\ responder'[r] \in ResponderStates /\ ResponderInv(r)'
         /\ responder'[r].reversed = responder[r].reversed
         /\ revoked' \subseteq issued'
<1>1. PICK x \in ResponderStates : x = responder[r]
  BY DEF ContainmentInv
<1>2. /\ ResponderInv(r) /\ revoked \subseteq issued /\ x.pc = "revoke" /\ d \in x.left
      /\ revoked' = revoked \cup {d} /\ UNCHANGED <<issued, under, phase>>
  BY <1>1 DEF ContainmentInv, Revoke, NextInWalk
<1>3. PICK left \in SUBSET Delegations, pc \in {"collect", "revoke"} :
        /\ left = (IF x.left = {d} THEN x.scope ELSE x.left \ {d})
        /\ pc = (IF x.left = {d} THEN "collect" ELSE "revoke")
        /\ responder'[r] = [x EXCEPT !.left = left, !.pc = pc]
  <2>1. (IF x.left = {d} THEN x.scope ELSE x.left \ {d}) \in SUBSET Delegations
    BY DEF ResponderStates
  <2> QED
    BY <1>1, <2>1 DEF Revoke, Set, ContainmentInv
<1>4. PICK y : y = [x EXCEPT !.left = left, !.pc = pc]
  OBVIOUS
<1>5. /\ y \in ResponderStates /\ y.left = left /\ y.pc = pc
      /\ y.op = x.op /\ y.scope = x.scope /\ y.wanted = x.wanted /\ y.selected = x.selected
      /\ y.escaping = x.escaping /\ y.todo = x.todo /\ y.reversed = x.reversed
      /\ y.failed = x.failed /\ y.skipped = x.skipped /\ y.stopped = x.stopped
  BY <1>4 DEF ResponderStates
<1>6. CascadeInv(y)'
  BY <1>1, <1>2, <1>3, <1>5 DEF ResponderInv, CascadeInv
<1>7. CaughtInv(y)'
  BY <1>1, <1>2, <1>3, <1>5 DEF ResponderInv, CaughtInv
<1>8. y.scope \subseteq issued' /\ y.left \subseteq y.scope /\ revoked' \subseteq issued'
  BY <1>1, <1>2, <1>3, <1>5 DEF ResponderInv
<1> QED
  BY <1>1, <1>3, <1>4, <1>5, <1>6, <1>7, <1>8 DEF ResponderInv, CascadeInv, CaughtInv

\* One more grant is asked for its actions.
LEMMA CollectKept ==
  ASSUME ContainmentInv, NEW r \in Responders, NEW d \in Delegations, Collect(r, d)
  PROVE  /\ responder'[r] \in ResponderStates /\ ResponderInv(r)'
         /\ responder'[r].reversed = responder[r].reversed
<1>1. PICK x \in ResponderStates : x = responder[r]
  BY DEF ContainmentInv
<1>2. /\ ResponderInv(r) /\ x.pc = "collect" /\ d \in x.left
      /\ UNCHANGED <<issued, revoked, under, phase, journal, undone>>
  BY <1>1 DEF ContainmentInv, Collect, NextInWalk, control, vars, history
<1>3. PICK found \in RecordedUnder(d), pc \in {"collect", "select"} :
        /\ pc = (IF x.left = {d} THEN "select" ELSE "collect")
        /\ responder'[r] = [x EXCEPT !.left = x.left \ {d}, !.wanted = x.wanted \o found, !.pc = pc]
  BY <1>1 DEF Collect, Set, ContainmentInv
<1>4. found \in Seq(Entries) /\ Seqs!ToSet(found) = {e \in Seqs!ToSet(recorded) : under[e] = d}
  BY CollectsAll
<1>5. PICK left \in SUBSET Delegations, wanted \in Seq(Entries) :
        left = x.left \ {d} /\ wanted = x.wanted \o found
  <2>1. x.left \ {d} \in SUBSET Delegations /\ x.wanted \in Seq(Entries)
    BY DEF ResponderStates
  <2>2. x.wanted \o found \in Seq(Entries)
    BY <1>4, <2>1
  <2> QED
    BY <2>1, <2>2
<1>6. PICK y : y = [x EXCEPT !.left = left, !.wanted = wanted, !.pc = pc]
  OBVIOUS
<1>7. /\ y \in ResponderStates /\ y.left = left /\ y.pc = pc /\ y.wanted = wanted
      /\ y.op = x.op /\ y.scope = x.scope /\ y.selected = x.selected
      /\ y.escaping = x.escaping /\ y.todo = x.todo /\ y.reversed = x.reversed
      /\ y.failed = x.failed /\ y.skipped = x.skipped /\ y.stopped = x.stopped
  BY <1>6 DEF ResponderStates
<1>8. Seqs!ToSet(wanted) = Seqs!ToSet(x.wanted) \cup Seqs!ToSet(found)
  BY <1>4, <1>5, JoinedHolds DEF ResponderStates
<1>9. CascadeInv(y)'
  BY <1>1, <1>2, <1>3, <1>7 DEF ResponderInv, CascadeInv, Newer
<1>10. CaughtInv(y)'
  <2>1. ASSUME NEW e \in Entries, under[e] \in x.scope, phase[e] \in Acted, x.op = "contain",
               under[e] \notin left
        PROVE  e \in Seqs!ToSet(wanted)
    <3>1. e \in Seqs!ToSet(recorded)
      BY <2>1 DEF ContainmentInv, AgentInv, Acted
    <3>2. under[e] \notin x.left => e \in Seqs!ToSet(x.wanted)
      BY <1>1, <1>2, <2>1 DEF ResponderInv, CaughtInv
    <3> QED
      BY <1>4, <1>5, <1>8, <2>1, <3>1, <3>2
  <2>2. pc = "select" => left = {}
    BY <1>3, <1>5
  <2>3. x.op = "contain" => x.scope \subseteq revoked
    BY <1>1, <1>2 DEF ResponderInv, CaughtInv
  <2> QED
    BY <1>2, <1>7, <2>1, <2>2, <2>3 DEF CaughtInv
<1>11. y.scope \subseteq issued' /\ y.left \subseteq y.scope
  BY <1>1, <1>2, <1>5, <1>7 DEF ResponderInv
<1> QED
  BY <1>1, <1>3, <1>5, <1>6, <1>7, <1>9, <1>10, <1>11 DEF ResponderInv, CascadeInv, CaughtInv

\* reverse_cascade selects: whatever acts under the revoked grants is committed and
\* selected, was undone before, or is among what escapes.
LEMMA SelectKept ==
  ASSUME ContainmentInv, NEW r \in Responders, Select(r)
  PROVE  /\ responder'[r] \in ResponderStates /\ ResponderInv(r)'
         /\ responder'[r].reversed = responder[r].reversed
<1>1. PICK x \in ResponderStates : x = responder[r]
  BY DEF ContainmentInv
<1>2. /\ ResponderInv(r) /\ x.pc = "select" /\ x.wanted \in Seq(Entries)
      /\ UNCHANGED <<issued, revoked, under, phase, journal, undone>>
  BY <1>1 DEF ContainmentInv, Select, control, vars, history, ResponderStates
<1>3. PICK todo \in LiveNewestFirst(x.wanted), escaping \in SUBSET Entries :
        /\ escaping = {e \in Entries : phase[e] \in {"allowed", "executed"}
                                        \/ journal[e].state \in {"reversal_failed", "expired"}}
        /\ responder'[r] = [x EXCEPT !.wanted = <<>>, !.todo = todo, !.selected = Seqs!ToSet(todo),
                                     !.pc = "cascade", !.escaping = escaping]
  BY <1>1 DEF Select, Set, ContainmentInv
<1>4. /\ todo \in Seq(Entries) /\ Seqs!ToSet(todo) = Live(x.wanted)
      /\ Live(x.wanted) \subseteq Entries
      /\ \A i, j \in DOMAIN todo : i < j => Newer(todo[i], todo[j])
  BY <1>2, SelectsLive
<1>5. PICK selected \in SUBSET Entries, wanted \in Seq(Entries) :
        selected = Seqs!ToSet(todo) /\ wanted = <<>>
  <2>1. <<>> \in Seq(Entries)
    OBVIOUS
  <2> QED
    BY <1>4, <2>1
<1>6. PICK y : y = [x EXCEPT !.wanted = wanted, !.todo = todo, !.selected = selected,
                             !.pc = "cascade", !.escaping = escaping]
  OBVIOUS
<1>7. /\ y \in ResponderStates /\ y.todo = todo /\ y.selected = selected /\ y.pc = "cascade"
      /\ y.escaping = escaping /\ y.op = x.op /\ y.scope = x.scope /\ y.left = x.left
      /\ y.reversed = x.reversed /\ y.failed = x.failed /\ y.skipped = x.skipped
  BY <1>4, <1>6 DEF ResponderStates
<1>8. x.reversed = <<>> /\ x.failed = {} /\ x.skipped = {} /\ x.left \subseteq x.scope
      /\ x.scope \subseteq issued
  BY <1>1, <1>2 DEF ResponderInv, CascadeInv
<1>9. \A e \in selected : phase[e] = "confirmed"
  BY <1>4, <1>5 DEF Live, ContainmentInv, AgentInv, AuthorityInv, Phases
<1>10. CascadeInv(y)'
  <2>1. DOMAIN x.reversed = {} /\ Seqs!ToSet(x.reversed) = {}
    BY <1>8 DEF Seqs!ToSet
  <2>2. y.selected = Seqs!ToSet(y.todo) \cup Seqs!ToSet(y.reversed) \cup y.failed \cup y.skipped
    BY <1>5, <1>7, <1>8, <2>1
  <2>3. \A i, j \in DOMAIN y.todo : i < j => Newer(y.todo[i], y.todo[j])'
    BY <1>2, <1>4, <1>7 DEF Newer
  <2> QED
    BY <1>2, <1>7, <1>9, <2>1, <2>2, <2>3 DEF CascadeInv
<1>11. CaughtInv(y)'
  <2> SUFFICES ASSUME x.op = "contain"
               PROVE  CaughtInv(y)'
    BY <1>7 DEF CaughtInv
  <2>1. x.scope \subseteq revoked
    BY <1>1, <1>2 DEF ResponderInv, CaughtInv
  <2>2. ASSUME NEW e \in Entries, under[e] \in x.scope, phase[e] \in Acted, undone[e] = 0
        PROVE  e \in selected \cup escaping
    <3>1. e \in Seqs!ToSet(x.wanted)
      BY <1>1, <1>2, <2>2 DEF ResponderInv, CaughtInv
    <3>2. AgentInv(e) /\ journal[e].state \in JournalStates \cup {"none"}
      BY DEF ContainmentInv, JournalInv, TypeOK, JournalEntries
    <3>3. journal[e].state # "reversed"
      BY <2>2 DEF ContainmentInv, JournalInv, ReversedIsComplete, TypeOK
    <3>4. journal[e].state = "committed" => e \in selected
      BY <1>4, <1>5, <3>1 DEF Live
    <3> QED
      BY <1>3, <2>2, <3>2, <3>3, <3>4 DEF AgentInv, Acted, JournalStates
  <2> QED
    BY <1>2, <1>7, <2>1, <2>2 DEF CaughtInv
<1> QED
  BY <1>1, <1>2, <1>3, <1>5, <1>6, <1>7, <1>8, <1>10, <1>11 DEF ResponderInv, CascadeInv, CaughtInv

\* While a cascade goes on, what its containment has looked at stays so.
LEMMA CaughtKept ==
  ASSUME ContainmentInv, Meanwhile, NEW x, NEW y, CaughtInv(x),
         x.pc = "cascade", y.pc \in {"cascade", "done"},
         y.op = x.op, y.scope = x.scope, y.selected = x.selected, y.escaping = x.escaping
  PROVE  CaughtInv(y)'
<1> SUFFICES ASSUME x.op = "contain"
             PROVE  CaughtInv(y)'
  BY DEF CaughtInv
<1>1. x.scope \subseteq revoked /\ x.scope \subseteq revoked'
  BY DEF CaughtInv, Meanwhile
<1>2. ASSUME NEW e \in Entries, under'[e] \in x.scope, phase'[e] \in Acted, undone'[e] = 0
      PROVE  e \in x.selected \cup x.escaping
  BY <1>1, <1>2 DEF CaughtInv, Meanwhile
<1> QED
  BY <1>1, <1>2 DEF CaughtInv

\* The first entry of a cascade goes into the report, and the rest stay in order.
LEMMA CascadeMoves ==
  ASSUME ContainmentInv, Meanwhile, NEW x \in ResponderStates, NEW y \in ResponderStates,
         CascadeInv(x), x.pc = "cascade", x.todo # <<>>, y.pc = "cascade",
         y.selected = x.selected, y.todo = Tail(x.todo),
         \/ /\ y.reversed = Append(x.reversed, Head(x.todo))
            /\ y.failed \cup y.skipped = x.failed \cup x.skipped
         \/ /\ y.reversed = x.reversed
            /\ y.failed \cup y.skipped = x.failed \cup x.skipped \cup {Head(x.todo)}
  PROVE  CascadeInv(y)'
<1>1. PICK s \in Seq(Entries), v \in Seq(Entries) : s = x.todo /\ v = x.reversed
  BY DEF ResponderStates
<1>2. PICK e \in Entries, t \in Seq(Entries) : e = Head(s) /\ t = Tail(s)
  <2>1. s # <<>>
    BY <1>1
  <2>2. Head(s) \in Entries /\ Tail(s) \in Seq(Entries)
    BY <2>1, HeadTailProperties
  <2> QED
    BY <2>2
<1>3. PICK w \in Seq(Entries) : w = Append(v, e)
  <2>1. Append(v, e) \in Seq(Entries)
    BY AppendProperties
  <2> QED
    BY <2>1
<1>4. /\ 1 \in DOMAIN s /\ s[1] = e
      /\ \A i \in DOMAIN t : i \in Nat /\ 1 < i + 1 /\ i + 1 \in DOMAIN s /\ t[i] = s[i + 1]
      /\ \A i \in DOMAIN s : i = 1 \/ (i - 1 \in DOMAIN t /\ t[i - 1] = s[i])
  <2>1. s # <<>>
    BY <1>1
  <2>2. Len(s) \in Nat \ {0} /\ Len(t) = Len(s) - 1 /\ DOMAIN s = 1 .. Len(s) /\ DOMAIN t = 1 .. Len(t)
    BY <1>2, <2>1
  <2>3. \A i \in 1 .. Len(s) - 1 : t[i] = s[i + 1]
    BY <1>2, <2>1
  <2> QED
    BY <1>2, <2>1, <2>2, <2>3
<1>5. /\ \A i \in DOMAIN w : \/ w[i] = e
                             \/ i \in DOMAIN v /\ w[i] = v[i]
      /\ \A i \in DOMAIN v : i \in DOMAIN w /\ w[i] = v[i]
      /\ \A i, j \in DOMAIN w : i < j => i \in DOMAIN v /\ w[i] = v[i]
      /\ \E i \in DOMAIN w : w[i] = e
  <2>1. PICK n \in Nat : n = Len(v)
    OBVIOUS
  <2>2. /\ DOMAIN v = 1 .. n /\ DOMAIN w = 1 .. n + 1
        /\ w[n + 1] = e /\ \A i \in 1 .. n : w[i] = v[i]
    BY <1>3, <2>1, AppendProperties
  <2>3. \A i \in 1 .. n + 1 : i = n + 1 \/ i \in 1 .. n
    BY <2>1
  <2>4. n + 1 \in 1 .. n + 1 /\ \A i, j \in 1 .. n + 1 : i < j => i \in 1 .. n
    BY <2>1
  <2>5. \A i \in 1 .. n : i \in 1 .. n + 1
    BY <2>1
  <2> QED
    BY <2>2, <2>3, <2>4, <2>5
<1>6. Seqs!ToSet(s) = Seqs!ToSet(t) \cup {e}
  <2>1. ASSUME NEW a \in Seqs!ToSet(s) PROVE a \in Seqs!ToSet(t) \cup {e}
    BY <1>4, <2>1 DEF Seqs!ToSet
  <2>2. ASSUME NEW a \in Seqs!ToSet(t) \cup {e} PROVE a \in Seqs!ToSet(s)
    BY <1>4, <2>2 DEF Seqs!ToSet
  <2> QED
    BY <2>1, <2>2
<1>7. Seqs!ToSet(w) = Seqs!ToSet(v) \cup {e}
  BY <1>3, AppendHolds
<1>8. /\ x.selected = Seqs!ToSet(s) \cup Seqs!ToSet(v) \cup x.failed \cup x.skipped
      /\ x.selected \subseteq Entries
      /\ \A a \in x.selected : phase[a] = "confirmed" /\ phase'[a] = "confirmed"
  BY <1>1 DEF CascadeInv, ResponderStates, Meanwhile
<1>9. \A a, b \in x.selected : Newer(a, b) => Newer(a, b)'
  BY <1>8 DEF Newer, Meanwhile
<1>10. /\ \A i \in DOMAIN s : s[i] \in x.selected
       /\ \A i \in DOMAIN v : v[i] \in x.selected
  BY <1>8 DEF Seqs!ToSet
<1>11. /\ \A i, j \in DOMAIN s : i < j => Newer(s[i], s[j])'
       /\ \A i, j \in DOMAIN v : i < j => Newer(v[i], v[j])'
       /\ \A i \in DOMAIN v, j \in DOMAIN s : Newer(v[i], s[j])'
  BY <1>1, <1>9, <1>10 DEF CascadeInv
<1>12. /\ \A i, j \in DOMAIN t : i < j => Newer(t[i], t[j])'
       /\ \A i \in DOMAIN t : Newer(e, t[i])'
       /\ \A i \in DOMAIN v : Newer(v[i], e)'
       /\ \A i \in DOMAIN v, j \in DOMAIN t : Newer(v[i], t[j])'
  <2>1. \A i, j \in DOMAIN t : i < j => i + 1 < j + 1
    BY <1>4
  <2> QED
    BY <1>4, <1>11, <2>1
<1>13. /\ \A i, j \in DOMAIN w : i < j => Newer(w[i], w[j])'
       /\ \A i \in DOMAIN w, j \in DOMAIN t : Newer(w[i], t[j])'
  <2>1. ASSUME NEW i \in DOMAIN w, NEW j \in DOMAIN w, i < j PROVE Newer(w[i], w[j])'
    BY <1>5, <1>11, <1>12, <2>1
  <2>2. ASSUME NEW i \in DOMAIN w, NEW j \in DOMAIN t PROVE Newer(w[i], t[j])'
    BY <1>5, <1>12, <2>2
  <2> QED
    BY <2>1, <2>2
<1>14. \A a \in y.selected : phase'[a] = "confirmed"
  BY <1>8
<1>15. y.todo = t
  BY <1>1, <1>2
<1>16. CASE /\ y.reversed = x.reversed
            /\ y.failed \cup y.skipped = x.failed \cup x.skipped \cup {Head(x.todo)}
  <2>1. y.reversed = v /\ y.failed \cup y.skipped = x.failed \cup x.skipped \cup {e}
    BY <1>1, <1>2, <1>16
  <2>2. y.selected = Seqs!ToSet(y.todo) \cup Seqs!ToSet(y.reversed) \cup y.failed \cup y.skipped
    BY <1>6, <1>8, <1>15, <2>1
  <2> QED
    BY <1>11, <1>12, <1>14, <1>15, <2>1, <2>2 DEF CascadeInv
<1>17. CASE /\ y.reversed = Append(x.reversed, Head(x.todo))
            /\ y.failed \cup y.skipped = x.failed \cup x.skipped
  <2>1. y.reversed = w
    BY <1>1, <1>2, <1>3, <1>17
  <2>2. y.selected = Seqs!ToSet(y.todo) \cup Seqs!ToSet(y.reversed) \cup y.failed \cup y.skipped
    BY <1>6, <1>7, <1>8, <1>15, <1>17, <2>1
  <2> QED
    BY <1>12, <1>13, <1>14, <1>15, <2>1, <2>2 DEF CascadeInv
<1> QED
  BY <1>16, <1>17

\* An executed undo is the first of its entry, and succeeds at most once.
LEMMA UndoIsFirst ==
  ASSUME ContainmentInv, NEW e \in Entries, NEW done \in SUBSET StepNames, Reverse(e, FALSE, done)
  PROVE  /\ undone[e] = 0
         /\ \/ /\ Succeeded(PlannedSteps(journal[e]), done)
               /\ undone' = [undone EXCEPT ![e] = 1] /\ journal'[e].state = "reversed"
            \/ /\ ~Succeeded(PlannedSteps(journal[e]), done)
               /\ undone' = undone /\ journal'[e].state = "reversal_failed"
<1> DEFINE ok == Succeeded(PlannedSteps(journal[e]), done)
<1>1. /\ HasLiveUndo(journal[e])
      /\ journal' = [journal EXCEPT ![e].state = IF ok THEN "reversed" ELSE "reversal_failed"]
      /\ undone' = [undone EXCEPT ![e] = IF ok THEN @ + 1 ELSE @]
  BY Zenon DEF Reverse, CanReverse
<1> HIDE DEF ok
<1>2. /\ journal \in [Entries -> JournalEntries] /\ undone \in [Entries -> Nat]
      /\ commits \in [Entries -> Nat] /\ AgentInv(e)
  BY DEF ContainmentInv, JournalInv, TypeOK
<1>3. undone[e] < commits[e]
  BY <1>1 DEF ContainmentInv, JournalInv, HasLiveUndo
<1>4. undone[e] = 0
  BY <1>2, <1>3 DEF AgentInv
<1>5. journal'[e].state = IF ok THEN "reversed" ELSE "reversal_failed"
  BY <1>1, <1>2 DEF JournalEntries
<1>6. CASE ok
  BY <1>1, <1>2, <1>4, <1>5, <1>6 DEF ok
<1>7. CASE ~ok
  BY <1>1, <1>2, <1>4, <1>5, <1>7 DEF ok
<1> QED
  BY <1>6, <1>7

\* Credit stays where it is when nobody undoes anything.
LEMMA CreditFrame ==
  ASSUME ContainmentInv, UNCHANGED <<undone, undoneAlone>>,
         \A r \in Responders : responder'[r].reversed = responder[r].reversed
  PROVE  \A e \in Entries : CreditInv(e)'
BY DEF ContainmentInv, CreditInv

\* A single undo takes the credit for what it undid.
LEMMA UndoOneKept ==
  ASSUME ContainmentInv, NEW e \in Entries, NEW done \in SUBSET StepNames, UndoOne(e, done)
  PROVE  /\ Outsiders /\ \A f \in Entries : CreditInv(f)'
         /\ undoneAlone' \subseteq Entries
<1>1. /\ Reverse(e, FALSE, done)
      /\ undoneAlone' = IF journal'[e].state = "reversed" THEN undoneAlone \cup {e} ELSE undoneAlone
      /\ UNCHANGED <<issued, revoked, recorded, under, phase, responder>>
  BY Zenon DEF UndoOne, control
<1>2. Outsiders
  BY <1>1, UndoEffect, QuietKept
<1>3. undone \in [Entries -> Nat] /\ undoneAlone \subseteq Entries
  BY DEF ContainmentInv, JournalInv, TypeOK
<1>4. ASSUME NEW f \in Entries PROVE CreditInv(f)'
  <2>1. CreditInv(f) /\ CreditInv(e)
    BY DEF ContainmentInv
  <2>2. CASE undone' = undone /\ undoneAlone' = undoneAlone
    BY <1>1, <2>1, <2>2 DEF CreditInv
  <2>3. CASE /\ undone[e] = 0 /\ undone' = [undone EXCEPT ![e] = 1]
             /\ undoneAlone' = undoneAlone \cup {e}
    BY <1>1, <1>3, <2>1, <2>3 DEF CreditInv
  <2> QED
    BY <1>1, <2>2, <2>3, UndoIsFirst
<1> QED
  BY <1>1, <1>2, <1>3, <1>4

\* The cascade undoes its next entry: the entry goes into the report, and the responder
\* takes the credit if the undo succeeded.
LEMMA CascadeReverseKept ==
  ASSUME ContainmentInv, NEW r \in Responders, NEW done \in SUBSET StepNames,
         CascadeReverse(r, done)
  PROVE  /\ Outsiders /\ \A f \in Entries : CreditInv(f)'
         /\ responder'[r] \in ResponderStates /\ ResponderInv(r)'
<1>1. PICK x \in ResponderStates : x = responder[r]
  BY DEF ContainmentInv
<1>2. /\ ResponderInv(r) /\ x.pc = "cascade" /\ x.todo # <<>>
      /\ UNCHANGED <<issued, revoked, recorded, under, phase, undoneAlone>>
  BY <1>1, Zenon DEF ContainmentInv, CascadeReverse, control, CascadeOver
<1>3. PICK e \in Entries, todo \in Seq(Entries) : e = Head(x.todo) /\ todo = Tail(x.todo)
  <2>1. x.todo \in Seq(Entries)
    BY DEF ResponderStates
  <2>2. Head(x.todo) \in Entries /\ Tail(x.todo) \in Seq(Entries)
    BY <1>2, <2>1, HeadTailProperties
  <2> QED
    BY <2>2
<1> DEFINE ok == Succeeded(PlannedSteps(journal[e]), done)
<1>4. /\ Reverse(e, FALSE, done)
      /\ responder' = [responder EXCEPT ![r] =
            [x EXCEPT !.todo = Tail(x.todo),
                      !.reversed = IF ok THEN Append(x.reversed, e) ELSE x.reversed,
                      !.failed = IF ok THEN x.failed ELSE x.failed \cup {e},
                      !.stopped = ~ok /\ x.stopOnError]]
  BY <1>1, <1>3 DEF CascadeReverse, Set, CascadeOver
<1>5. PICK reversed \in Seq(Entries), failed \in SUBSET Entries, stopped \in BOOLEAN :
        /\ reversed = (IF ok THEN Append(x.reversed, e) ELSE x.reversed)
        /\ failed = (IF ok THEN x.failed ELSE x.failed \cup {e})
        /\ stopped = (~ok /\ x.stopOnError)
  <2>1. x.reversed \in Seq(Entries) /\ x.failed \subseteq Entries
    BY DEF ResponderStates
  <2>2. Append(x.reversed, e) \in Seq(Entries)
    BY <2>1, AppendProperties
  <2> HIDE DEF ok
  <2>3. (IF ok THEN Append(x.reversed, e) ELSE x.reversed) \in Seq(Entries)
    BY <2>1, <2>2
  <2>4. (IF ok THEN x.failed ELSE x.failed \cup {e}) \in SUBSET Entries
    BY <2>1
  <2>5. (~ok /\ x.stopOnError) \in BOOLEAN
    OBVIOUS
  <2> QED
    BY <2>3, <2>4, <2>5
<1> HIDE DEF ok
<1>6. PICK y : y = [x EXCEPT !.todo = todo, !.reversed = reversed, !.failed = failed,
                             !.stopped = stopped]
  OBVIOUS
<1>7. /\ y \in ResponderStates /\ y.todo = todo /\ y.reversed = reversed /\ y.failed = failed
      /\ y.pc = x.pc /\ y.op = x.op /\ y.scope = x.scope /\ y.left = x.left
      /\ y.selected = x.selected /\ y.escaping = x.escaping /\ y.skipped = x.skipped
  BY <1>6 DEF ResponderStates
<1>8. /\ responder'[r] = y
      /\ \A s \in Responders : s # r => responder'[s] = responder[s]
  BY <1>3, <1>4, <1>5, <1>6 DEF ContainmentInv
<1>9. Outsiders /\ Meanwhile
  BY <1>2, <1>4, UndoEffect, QuietKept DEF Outsiders
<1>10. CascadeInv(x) /\ CaughtInv(x) /\ x.scope \subseteq issued /\ x.left \subseteq x.scope
  BY <1>1, <1>2 DEF ResponderInv
<1>11. CascadeInv(y)'
  <2>1. \/ /\ y.reversed = Append(x.reversed, Head(x.todo))
           /\ y.failed \cup y.skipped = x.failed \cup x.skipped
        \/ /\ y.reversed = x.reversed
           /\ y.failed \cup y.skipped = x.failed \cup x.skipped \cup {Head(x.todo)}
    BY <1>3, <1>5, <1>7
  <2> QED
    BY <1>2, <1>3, <1>7, <1>9, <1>10, <2>1, CascadeMoves
<1>12. CaughtInv(y)'
  BY <1>2, <1>7, <1>9, <1>10, CaughtKept
<1>13. ResponderInv(r)'
  BY <1>2, <1>7, <1>8, <1>10, <1>11, <1>12 DEF ResponderInv, CascadeInv, CaughtInv
<1>14. ASSUME NEW f \in Entries PROVE CreditInv(f)'
  <2>1. /\ CreditInv(f) /\ CreditInv(e) /\ undone \in [Entries -> Nat]
    BY DEF ContainmentInv, JournalInv, TypeOK
  <2>2. CASE ~ok
    <3>1. undone' = undone /\ \A s \in Responders : responder'[s].reversed = responder[s].reversed
      BY <1>1, <1>4, <1>5, <1>7, <1>8, <2>2, UndoIsFirst DEF ok
    <3> QED
      BY <1>2, <3>1, CreditFrame
  <2>3. CASE ok
    <3>1. undone[e] = 0 /\ undone' = [undone EXCEPT ![e] = 1]
      BY <1>4, <2>3, UndoIsFirst DEF ok
    <3>2. x.reversed \in Seq(Entries) /\ reversed = Append(x.reversed, e)
      BY <1>5, <2>3 DEF ResponderStates
    <3>3. Seqs!ToSet(reversed) = Seqs!ToSet(x.reversed) \cup {e}
      BY <3>2, AppendHolds
    <3>4. /\ Seqs!ToSet(responder'[r].reversed) = Seqs!ToSet(responder[r].reversed) \cup {e}
          /\ \A s \in Responders : s # r =>
               Seqs!ToSet(responder'[s].reversed) = Seqs!ToSet(responder[s].reversed)
      BY <1>1, <1>7, <1>8, <3>3
    <3>5. \A s \in Responders :
            f \in Seqs!ToSet(responder'[s].reversed)
              <=> f \in Seqs!ToSet(responder[s].reversed) \/ (s = r /\ f = e)
      BY <3>4
    <3>6. undone'[f] = IF f = e THEN 1 ELSE undone[f]
      BY <2>1, <3>1
    <3>7. f = e => undone[f] = 0
      BY <3>1
    <3> QED
      BY <1>2, <2>1, <3>5, <3>6, <3>7 DEF CreditInv
  <2> QED
    BY <2>2, <2>3
<1> QED
  BY <1>7, <1>8, <1>9, <1>13, <1>14

\* The engine refuses the next entry of the cascade: the report counts it as skipped.
LEMMA CascadeSkipKept ==
  ASSUME ContainmentInv, NEW r \in Responders, CascadeSkip(r)
  PROVE  /\ Outsiders /\ UNCHANGED <<undone, undoneAlone>>
         /\ responder'[r] \in ResponderStates /\ ResponderInv(r)'
         /\ responder'[r].reversed = responder[r].reversed
<1>1. PICK x \in ResponderStates : x = responder[r]
  BY DEF ContainmentInv
<1>2. /\ ResponderInv(r) /\ x.pc = "cascade" /\ x.todo # <<>>
      /\ UNCHANGED <<issued, revoked, recorded, under, phase, undoneAlone>>
  BY <1>1 DEF ContainmentInv, CascadeSkip, Refuses, control, CascadeOver
<1>3. PICK e \in Entries, todo \in Seq(Entries) : e = Head(x.todo) /\ todo = Tail(x.todo)
  <2>1. x.todo \in Seq(Entries)
    BY DEF ResponderStates
  <2>2. Head(x.todo) \in Entries /\ Tail(x.todo) \in Seq(Entries)
    BY <1>2, <2>1, HeadTailProperties
  <2> QED
    BY <2>2
<1>4. UNCHANGED vars \/ ReverseExpired(e)
  BY <1>1, <1>3 DEF CascadeSkip, Refuses, CascadeOver
<1>5. PICK skipped \in SUBSET Entries : skipped = x.skipped \cup {e}
  BY DEF ResponderStates
<1>6. PICK y : y = [x EXCEPT !.todo = todo, !.skipped = skipped]
  OBVIOUS
<1>7. /\ y \in ResponderStates /\ y.todo = todo /\ y.skipped = skipped
      /\ y.pc = x.pc /\ y.op = x.op /\ y.scope = x.scope /\ y.left = x.left
      /\ y.selected = x.selected /\ y.escaping = x.escaping /\ y.failed = x.failed
      /\ y.reversed = x.reversed
  BY <1>6 DEF ResponderStates
<1>8. responder'[r] = y
  BY <1>1, <1>3, <1>5, <1>6 DEF CascadeSkip, Refuses, Set, Skip, ContainmentInv, CascadeOver
<1>9. Outsiders /\ Meanwhile /\ undone' = undone
  <2>1. CASE UNCHANGED vars
    <3>1. undone \in [Entries -> Nat]
      BY DEF ContainmentInv, JournalInv, TypeOK
    <3>2. Outsiders
      BY <1>2, <2>1, <3>1, QuietKept DEF vars, history
    <3> QED
      BY <2>1, <3>2 DEF Outsiders, vars, history
  <2>2. CASE ReverseExpired(e)
    <3>1. Outsiders
      BY <1>2, <2>2, UndoEffect, QuietKept
    <3> QED
      BY <2>2, <3>1 DEF Outsiders, ReverseExpired, FindsExpired, history
  <2> QED
    BY <1>4, <2>1, <2>2
<1>10. CascadeInv(x) /\ CaughtInv(x) /\ x.scope \subseteq issued /\ x.left \subseteq x.scope
  BY <1>1, <1>2 DEF ResponderInv
<1>11. CascadeInv(y)'
  <2>1. /\ y.reversed = x.reversed
        /\ y.failed \cup y.skipped = x.failed \cup x.skipped \cup {Head(x.todo)}
    BY <1>3, <1>5, <1>7
  <2> QED
    BY <1>2, <1>3, <1>7, <1>9, <1>10, <2>1, CascadeMoves
<1>12. CaughtInv(y)'
  BY <1>2, <1>7, <1>9, <1>10, CaughtKept
<1> QED
  BY <1>1, <1>2, <1>7, <1>8, <1>9, <1>10, <1>11, <1>12 DEF ResponderInv, CascadeInv, CaughtInv

\* The cascade ends with nothing to do, or stopped.
LEMMA ReportKept ==
  ASSUME ContainmentInv, NEW r \in Responders, Report(r)
  PROVE  /\ responder'[r] \in ResponderStates /\ ResponderInv(r)'
         /\ responder'[r].reversed = responder[r].reversed
<1>1. PICK x \in ResponderStates : x = responder[r]
  BY DEF ContainmentInv
<1>2. /\ ResponderInv(r) /\ x.pc = "cascade" /\ (x.todo = <<>> \/ x.stopped)
      /\ UNCHANGED <<issued, revoked, under, phase, journal, undone>>
  BY <1>1 DEF ContainmentInv, Report, control, vars, history, CascadeOver
<1>3. PICK y : y = [x EXCEPT !.pc = "done"]
  OBVIOUS
<1>4. /\ y \in ResponderStates /\ y.pc = "done"
      /\ y.op = x.op /\ y.scope = x.scope /\ y.left = x.left /\ y.selected = x.selected
      /\ y.escaping = x.escaping /\ y.todo = x.todo /\ y.reversed = x.reversed
      /\ y.failed = x.failed /\ y.skipped = x.skipped /\ y.stopped = x.stopped
  BY <1>3 DEF ResponderStates
<1>5. responder'[r] = y
  BY <1>1, <1>3 DEF Report, Set, ContainmentInv, CascadeOver
<1>6. CascadeInv(y)'
  BY <1>1, <1>2, <1>4 DEF ResponderInv, CascadeInv, Newer
<1>7. CaughtInv(y)'
  BY <1>1, <1>2, <1>4 DEF ResponderInv, CaughtInv
<1> QED
  BY <1>1, <1>2, <1>4, <1>5, <1>6, <1>7 DEF ResponderInv, CascadeInv, CaughtInv

-----------------------------------------------------------------------------
(* The invariant.                                                          *)

\* What every step keeps, besides the journal and the authority.
Kept ==
  /\ Outsiders
  /\ revoked' \subseteq issued' /\ recorded' \in Seq(Entries)
  /\ undoneAlone' \subseteq Entries /\ tainted' \subseteq Entries
  /\ responder' \in [Responders -> ResponderStates]
  /\ \A e \in Entries : CreditInv(e)'
  /\ \A r \in Responders : ResponderInv(r)'

\* A step that leaves the responders alone.
LEMMA NobodyResponds ==
  ASSUME ContainmentInv, Outsiders, UNCHANGED responder,
         revoked' \subseteq issued', recorded' \in Seq(Entries),
         undoneAlone' \subseteq Entries, tainted' \subseteq Entries,
         \A e \in Entries : CreditInv(e)'
  PROVE  Kept
<1>1. \A r \in Responders : ResponderInv(r)'
  BY BystanderKept DEF Outsiders
<1>2. responder' \in [Responders -> ResponderStates]
  BY DEF ContainmentInv
<1> QED
  BY <1>1, <1>2 DEF Kept

\* A step of one responder.
LEMMA OneResponds ==
  ASSUME ContainmentInv, Outsiders, NEW r \in Responders,
         \E y : responder' = [responder EXCEPT ![r] = y],
         responder'[r] \in ResponderStates, ResponderInv(r)',
         revoked' \subseteq issued', UNCHANGED <<recorded, undoneAlone, tainted>>,
         \A e \in Entries : CreditInv(e)'
  PROVE  Kept
<1>1. /\ \A s \in Responders : s # r => responder'[s] = responder[s]
      /\ responder' \in [Responders -> ResponderStates]
  BY DEF ContainmentInv
<1>2. \A s \in Responders : ResponderInv(s)'
  BY <1>1, BystanderKept DEF Outsiders
<1> QED
  BY <1>1, <1>2 DEF Kept, ContainmentInv

\* A step that touches neither the journal nor the agents.
LEMMA JournalStill ==
  ASSUME ContainmentInv, UNCHANGED <<vars, recorded, under, phase>>,
         issued \subseteq issued', revoked \subseteq revoked'
  PROVE  Outsiders
<1>1. undone \in [Entries -> Nat]
  BY DEF ContainmentInv, JournalInv, TypeOK
<1> QED
  BY <1>1, QuietKept DEF vars, history

\* The clock, the gates and the sweep.
LEMMA EnvironmentKept ==
  ASSUME ContainmentInv, Environment
  PROVE  Outsiders /\ UNCHANGED undone
<1>1. /\ journal \in [Entries -> JournalEntries] /\ undone \in [Entries -> Nat]
      /\ UNCHANGED <<issued, revoked, recorded, under, phase>>
  BY DEF ContainmentInv, JournalInv, TypeOK, Environment, control
<1>2. CASE ExpireStale
  <2>1. UNCHANGED <<commits, undone>>
    BY <1>2 DEF ExpireStale, history
  <2>2. ASSUME NEW e \in Entries
        PROVE  /\ journal'[e].committedAt = journal[e].committedAt
               /\ \/ journal'[e].state = journal[e].state
                  \/ /\ phase[e] = "confirmed"
                     /\ journal'[e].state \in {"reversed", "reversal_failed", "expired"}
    <3>1. journal[e] \in JournalEntries /\ AgentInv(e) /\ phase[e] \in Phases
      BY <1>1 DEF ContainmentInv, AuthorityInv
    <3>2. CASE Stale(journal[e])
      <4>1. phase[e] = "confirmed"
        BY <3>1, <3>2 DEF Stale, AgentInv, Phases
      <4>2. journal'[e] = [journal[e] EXCEPT !.state = "expired"]
        BY <1>2, <3>2 DEF ExpireStale
      <4> QED
        BY <3>1, <4>1, <4>2 DEF JournalEntries
    <3>3. CASE ~Stale(journal[e])
      BY <1>2, <3>3 DEF ExpireStale
    <3> QED
      BY <3>2, <3>3
  <2> QED
    BY <1>1, <2>1, <2>2, QuietKept
<1>3. CASE Tick \/ \E g \in Gates : FlipGate(g)
  <2>1. UNCHANGED <<journal, commits, undone>>
    BY <1>3 DEF Tick, FlipGate, history
  <2> QED
    BY <1>1, <2>1, QuietKept
<1> QED
  BY <1>2, <1>3 DEF Environment

\* Every step keeps agents, credit and responders in order.
LEMMA StepKept ==
  ASSUME ContainmentInv, CNext \/ UNCHANGED cvars
  PROVE  Kept
<1>1. /\ revoked \subseteq issued /\ recorded \in Seq(Entries)
      /\ undoneAlone \subseteq Entries /\ tainted \subseteq Entries
  BY DEF ContainmentInv
<1>2. ASSUME NEW d \in Delegations, SubDelegate(d) PROVE Kept
  <2>1. /\ UNCHANGED <<vars, revoked, recorded, under, phase, responder, undoneAlone, tainted>>
        /\ issued \subseteq issued'
    BY <1>2 DEF SubDelegate
  <2>2. UNCHANGED undone
    BY <2>1 DEF vars, history
  <2> QED
    BY <1>1, <2>1, <2>2, JournalStill, CreditFrame, NobodyResponds
<1>3. ASSUME NEW e \in Entries,
             \/ \E d \in Delegations : RecordAction(e, d)
             \/ Allow(e) \/ Refuse(e) \/ Execute(e) \/ ExecuteFails(e) \/ Confirm(e)
      PROVE  Kept
  <2>1. /\ UNCHANGED <<issued, revoked, responder, undone, undoneAlone>> /\ tainted' \subseteq Entries
    BY <1>1, <1>3 DEF RecordAction, Allow, Refuse, Execute, ExecuteFails, Confirm, OpenJournal,
                      Abandon, Commit, vars, history
  <2> QED
    BY <1>1, <1>3, <2>1, AgentsKept, CreditFrame, NobodyResponds
<1>4. ASSUME NEW e \in Entries, NEW done \in SUBSET StepNames, UndoOne(e, done) PROVE Kept
  <2>1. UNCHANGED <<issued, revoked, recorded, responder, tainted>>
    BY <1>4, Zenon DEF UndoOne, control
  <2> QED
    BY <1>1, <1>4, <2>1, UndoOneKept, NobodyResponds
<1>5. ASSUME NEW r \in Responders, NEW op \in {"contain", "undo_all"}, NEW d \in Delegations,
             Begin(r, op, d)
      PROVE  Kept
  <2>1. /\ UNCHANGED <<vars, issued, revoked, recorded, under, phase, undone, undoneAlone, tainted>>
        /\ responder[r].pc = "idle" /\ \E y : responder' = [responder EXCEPT ![r] = y]
    BY <1>5 DEF Begin, Set, control, vars, history
  <2>2. responder[r].reversed = <<>>
    BY <2>1 DEF ContainmentInv, ResponderInv, CascadeInv
  <2>3. responder'[r] \in ResponderStates /\ responder'[r].reversed = <<>> /\ ResponderInv(r)'
    BY <1>5, BeginKept
  <2>4. \A s \in Responders : responder'[s].reversed = responder[s].reversed
    BY <2>1, <2>2, <2>3 DEF ContainmentInv
  <2> QED
    BY <1>1, <2>1, <2>3, <2>4, JournalStill, CreditFrame, OneResponds
<1>6. ASSUME NEW r \in Responders,
             \/ \E d \in Delegations : Revoke(r, d) \/ Collect(r, d)
             \/ Select(r) \/ Report(r)
      PROVE  Kept
  <2>1. /\ UNCHANGED <<vars, issued, recorded, under, phase, undone, undoneAlone, tainted>>
        /\ revoked \subseteq revoked' /\ \E y : responder' = [responder EXCEPT ![r] = y]
    BY <1>6 DEF Revoke, Collect, Select, Report, Set, control, vars, history, CascadeOver
  <2>2. /\ responder'[r] \in ResponderStates /\ ResponderInv(r)'
        /\ responder'[r].reversed = responder[r].reversed /\ revoked' \subseteq issued'
    <3>1. ASSUME NEW d \in Delegations, Collect(r, d) \/ Select(r) \/ Report(r)
          PROVE  revoked' = revoked
      BY <3>1 DEF Collect, Select, Report, control, CascadeOver
    <3> QED
      BY <1>1, <1>6, <2>1, <3>1, RevokeKept, CollectKept, SelectKept, ReportKept DEF Select, Report, control, CascadeOver
  <2>3. \A s \in Responders : responder'[s].reversed = responder[s].reversed
    BY <2>1, <2>2 DEF ContainmentInv
  <2> QED
    BY <1>1, <2>1, <2>2, <2>3, JournalStill, CreditFrame, OneResponds
<1>7. ASSUME NEW r \in Responders, NEW done \in SUBSET StepNames, CascadeReverse(r, done)
      PROVE  Kept
  <2>1. UNCHANGED <<issued, revoked, recorded, undoneAlone, tainted>>
        /\ \E y : responder' = [responder EXCEPT ![r] = y]
    BY <1>7, Zenon DEF CascadeReverse, Set, control, CascadeOver
  <2> QED
    BY <1>1, <1>7, <2>1, CascadeReverseKept, OneResponds
<1>8. ASSUME NEW r \in Responders, CascadeSkip(r) PROVE Kept
  <2>1. UNCHANGED <<issued, revoked, recorded, undoneAlone, tainted>>
        /\ \E y : responder' = [responder EXCEPT ![r] = y]
    BY <1>8 DEF CascadeSkip, Refuses, Set, control, CascadeOver
  <2>2. \A s \in Responders : responder'[s].reversed = responder[s].reversed
    BY <1>8, <2>1, CascadeSkipKept DEF ContainmentInv
  <2> QED
    BY <1>1, <1>8, <2>1, <2>2, CascadeSkipKept, CreditFrame, OneResponds
<1>9. CASE Environment
  <2>1. UNCHANGED <<issued, revoked, recorded, responder, undoneAlone, tainted>>
    BY <1>9 DEF Environment, control
  <2> QED
    BY <1>1, <1>9, <2>1, EnvironmentKept, CreditFrame, NobodyResponds
<1>10. CASE UNCHANGED cvars
  <2>1. UNCHANGED <<vars, issued, revoked, recorded, under, phase, responder, undone, undoneAlone, tainted>>
    BY <1>10 DEF cvars, control, vars, history
  <2> QED
    BY <1>1, <2>1, JournalStill, CreditFrame, NobodyResponds
<1> QED
  BY <1>2, <1>3, <1>4, <1>5, <1>6, <1>7, <1>8, <1>9, <1>10 DEF CNext, Respond

LEMMA ContainmentInit == CInit => ContainmentInv
<1> SUFFICES ASSUME CInit PROVE ContainmentInv
  OBVIOUS
<1>1. JournalInv
  BY InvInit DEF CInit
<1>2. AuthorityInv
  BY AuthorityInit
<1>3. \A r \in Responders : responder[r] = Idle
  BY DEF CInit
<1>4. Idle \in ResponderStates
  BY DEF Idle, ResponderStates
<1>5. ASSUME NEW e \in Entries PROVE AgentInv(e) /\ CreditInv(e)
  <2>1. /\ journal[e].state = "none" /\ commits[e] = 0 /\ undone[e] = 0 /\ phase[e] = "idle"
    BY DEF CInit, Init, NoEntry
  <2>2. \A r \in Responders : e \notin Seqs!ToSet(responder[r].reversed)
    BY <1>3 DEF Idle, Seqs!ToSet
  <2> QED
    BY <2>1, <2>2 DEF AgentInv, CreditInv, CInit
<1>6. ASSUME NEW r \in Responders PROVE ResponderInv(r)
  BY <1>3 DEF ResponderInv, CascadeInv, CaughtInv, Idle, Seqs!ToSet
<1> QED
  BY <1>1, <1>2, <1>3, <1>4, <1>5, <1>6 DEF ContainmentInv, CInit

\* Agents, responders and single undos, in any number and however they interleave,
\* keep the journal, the report of each responder and the credit for each undo in step.
THEOREM ContainmentInvariant == CSpec => []ContainmentInv
<1>1. ContainmentInv /\ [CNext]_cvars => ContainmentInv'
  <2> SUFFICES ASSUME ContainmentInv, [CNext]_cvars PROVE ContainmentInv'
    OBVIOUS
  <2>1. AuthorityInv'
    BY AuthorityKept DEF ContainmentInv
  <2>2. Kept /\ JournalInv'
    BY StepKept, JournalKept
  <2> QED
    BY <2>1, <2>2 DEF Kept, Outsiders, ContainmentInv
<1> QED
  BY <1>1, ContainmentInit, PTL DEF CSpec

\* A report of full containment means that this very call undid everything it selected.
THEOREM ContainedStaysUndone == CSpec => []ContainedMeansUndone
<1>1. ContainmentInv => ContainedMeansUndone
  <2> SUFFICES ASSUME ContainmentInv, NEW r \in Responders, FullyContained(responder[r])
               PROVE  /\ Seqs!ToSet(responder[r].reversed) = responder[r].selected
                      /\ \A e \in responder[r].selected : ~Standing(e)
    BY DEF ContainedMeansUndone
  <2>1. PICK x \in ResponderStates : x = responder[r]
    BY DEF ContainmentInv
  <2>2. CascadeInv(x) /\ x.pc = "done" /\ x.failed = {} /\ ~x.stopped /\ x.skipped = {}
    BY <2>1 DEF ContainmentInv, ResponderInv, FullyContained
  <2>3. x.todo = <<>> /\ Seqs!ToSet(<<>>) = {}
    BY <2>2 DEF CascadeInv, Seqs!ToSet
  <2>4. Seqs!ToSet(x.reversed) = x.selected /\ x.selected \subseteq Entries
    BY <2>2, <2>3 DEF CascadeInv, ResponderStates
  <2>5. \A e \in x.selected : undone[e] # 0
    BY <2>1, <2>4 DEF ContainmentInv, CreditInv
  <2> QED
    BY <2>1, <2>4, <2>5 DEF Standing
<1> QED
  BY <1>1, ContainmentInvariant, PTL

\* What stands under the revoked grants after a report of full containment was in flight
\* when the set was selected, or its undo had failed or been found too late before.
THEOREM OnlyInFlightEscaped == CSpec => []OnlyInFlightEscapes
<1>1. ContainmentInv => OnlyInFlightEscapes
  <2> SUFFICES ASSUME ContainmentInv, NEW r \in Responders, FullyContained(responder[r]),
                      responder[r].op = "contain",
                      NEW e \in Entries, Standing(e), under[e] \in responder[r].scope
               PROVE  e \in responder[r].escaping
    BY DEF OnlyInFlightEscapes
  <2>1. PICK x \in ResponderStates : x = responder[r]
    BY DEF ContainmentInv
  <2>2. CascadeInv(x) /\ CaughtInv(x) /\ x.pc = "done" /\ x.failed = {} /\ ~x.stopped /\ x.skipped = {}
    BY <2>1 DEF ContainmentInv, ResponderInv, FullyContained
  <2>3. x.todo = <<>> /\ Seqs!ToSet(<<>>) = {}
    BY <2>2 DEF CascadeInv, Seqs!ToSet
  <2>4. Seqs!ToSet(x.reversed) = x.selected
    BY <2>2, <2>3 DEF CascadeInv
  <2>5. e \notin x.selected
    BY <2>1, <2>4 DEF ContainmentInv, CreditInv, Standing
  <2> QED
    BY <2>1, <2>2, <2>5 DEF CaughtInv, Standing, Acted
<1> QED
  BY <1>1, ContainmentInvariant, PTL

\* Whoever undoes it, an action is undone once, one party takes the credit, and every
\* cascade goes from the newest action to the oldest.
THEOREM UndoneOnceInOrderForGood == CSpec => []UndoneOnceInOrder
<1>1. ContainmentInv => CTypeOK
  <2> SUFFICES ASSUME ContainmentInv PROVE CTypeOK
    OBVIOUS
  <2>1. ASSUME NEW r \in Responders
        PROVE  LET x == responder[r]
               IN /\ DOMAIN x = DOMAIN Idle
                  /\ x.pc \in {"idle", "revoke", "collect", "select", "cascade", "done"}
                  /\ x.scope \subseteq issued
                  /\ x.left \subseteq x.scope
                  /\ Seqs!ToSet(x.todo) \subseteq x.selected
                  /\ x.failed \cup x.skipped \cup Seqs!ToSet(x.reversed) \subseteq x.selected
    <3>1. PICK x \in ResponderStates : x = responder[r]
      BY DEF ContainmentInv
    <3>2. DOMAIN x = DOMAIN Idle
      BY DEF ResponderStates, Idle
    <3>3. x.pc \in {"idle", "revoke", "collect", "select", "cascade", "done"}
      BY DEF ResponderStates
    <3>4. x.scope \subseteq issued /\ x.left \subseteq x.scope /\ CascadeInv(x)
      BY <3>1 DEF ContainmentInv, ResponderInv
    <3> QED
      BY <3>1, <3>2, <3>3, <3>4 DEF CascadeInv
  <2> QED
    BY <2>1 DEF CTypeOK, ContainmentInv, JournalInv, AuthorityInv
<1>2. ContainmentInv => CreditedOnce
  <2> SUFFICES ASSUME ContainmentInv, NEW e \in Entries
               PROVE  /\ undone[e] \in {0, 1}
                      /\ undone[e] = Cardinality({r \in Responders : e \in Seqs!ToSet(responder[r].reversed)})
                                     + IF e \in undoneAlone THEN 1 ELSE 0
    BY DEF CreditedOnce
  <2> DEFINE By == {r \in Responders : e \in Seqs!ToSet(responder[r].reversed)}
  <2>1. CreditInv(e) /\ undone[e] \in {0, 1}
    <3>1. AgentInv(e) /\ CreditInv(e) /\ undone[e] \in Nat /\ undone[e] <= commits[e]
      BY DEF ContainmentInv, JournalInv, TypeOK, UndoneOncePerCommit
    <3> QED
      BY <3>1 DEF AgentInv
  <2>2. Cardinality({}) = 0 /\ \A r : Cardinality({r}) = 1
    BY FS_EmptySet, FS_Singleton
  <2>3. By = {} \/ \E r \in Responders : By = {r}
    BY <2>1 DEF CreditInv
  <2>4. By = {} => Cardinality(By) = 0 /\ (undone[e] = 0 <=> e \notin undoneAlone)
    <3>1. By = {} => \A r \in Responders : e \notin Seqs!ToSet(responder[r].reversed)
      OBVIOUS
    <3>2. By = {} => (undone[e] = 0 <=> e \notin undoneAlone)
      BY <2>1, <3>1 DEF CreditInv
    <3> QED
      BY <2>2, <3>2
  <2>5. ASSUME NEW r \in Responders, By = {r}
        PROVE  undone[e] = 1 /\ e \notin undoneAlone /\ Cardinality(By) = 1
    BY <2>1, <2>2, <2>5 DEF CreditInv
  <2> QED
    BY <2>1, <2>3, <2>4, <2>5
<1>3. ContainmentInv => NewestUndoneFirst
  BY DEF ContainmentInv, ResponderInv, CascadeInv, Newer, NewestUndoneFirst
<1> QED
  BY <1>1, <1>2, <1>3, ContainmentInvariant, PTL DEF UndoneOnceInOrder

-----------------------------------------------------------------------------
(* The account of a cascade.                                               *)

\* What is to do is there once, and nowhere in the report.
AccountInv(x) ==
  /\ IsFiniteSet(x.failed) /\ IsFiniteSet(x.skipped)
  /\ \A i, j \in DOMAIN x.todo : i # j => x.todo[i] # x.todo[j]
  /\ \A i \in DOMAIN x.todo : x.todo[i] \notin x.failed \cup x.skipped
  /\ Cardinality(x.selected) =
       Len(x.todo) + Len(x.reversed) + Cardinality(x.failed) + Cardinality(x.skipped)

\* What a step of a responder leaves of the account, where it touches none of it.
LEMMA AccountStill ==
  ASSUME NEW x, NEW y, AccountInv(x), y.todo = x.todo, y.reversed = x.reversed, y.failed = x.failed,
         y.skipped = x.skipped, y.selected = x.selected
  PROVE  AccountInv(y)
BY DEF AccountInv

\* As many entries are selected as the list has places.
LEMMA SelectCounts ==
  ASSUME NEW todo \in Seq(Entries), \A i, j \in DOMAIN todo : i # j => todo[i] # todo[j]
  PROVE  IsFiniteSet(Seqs!ToSet(todo)) /\ Cardinality(Seqs!ToSet(todo)) = Len(todo)
<1>. DEFINE n == Len(todo)
            S == Seqs!ToSet(todo)
<1>1. n \in Nat /\ DOMAIN todo = 1 .. n /\ todo \in [1 .. n -> Entries]
  OBVIOUS
<1>2. S = {todo[i] : i \in 1 .. n}
  BY <1>1 DEF Seqs!ToSet
<1>. HIDE DEF n, S
<1>3. todo \in Bijection(1 .. n, S)
  <2>1. todo \in [1 .. n -> S]
    BY <1>1, <1>2
  <2>2. \A i, j \in 1 .. n : todo[i] = todo[j] => i = j
    BY <1>1
  <2>3. \A s \in S : \E i \in 1 .. n : todo[i] = s
    BY <1>2
  <2>. QED BY <2>1, <2>2, <2>3 DEF Bijection, Injection, Surjection, IsInjective
<1>4. ExistsBijection(1 .. n, S)
  BY <1>3 DEF ExistsBijection
<1>. QED BY <1>1, <1>4, FS_CountingElements, FS_NatBijection DEF n, S

\* One entry of what is to do goes to the report.
LEMMA AccountMoves ==
  ASSUME NEW x \in ResponderStates, AccountInv(x), x.todo # <<>>,
         NEW y, y.todo = Tail(x.todo), y.selected = x.selected,
         \/ /\ y.reversed = Append(x.reversed, Head(x.todo))
            /\ y.failed = x.failed /\ y.skipped = x.skipped
         \/ /\ y.failed = x.failed \cup {Head(x.todo)}
            /\ y.reversed = x.reversed /\ y.skipped = x.skipped
         \/ /\ y.skipped = x.skipped \cup {Head(x.todo)}
            /\ y.reversed = x.reversed /\ y.failed = x.failed
  PROVE  AccountInv(y)
<1>. DEFINE e == Head(x.todo)
            n == Len(x.todo)
            m == Len(x.reversed)
            p == Cardinality(x.failed)
            q == Cardinality(x.skipped)
<1>1. x.todo \in Seq(Entries) /\ x.reversed \in Seq(Entries)
  BY DEF ResponderStates
<1>2. n \in Nat \ {0} /\ m \in Nat /\ DOMAIN x.todo = 1 .. n /\ e = x.todo[1] /\ e \in Entries
  BY <1>1
<1>3. Len(y.todo) = n - 1 /\ DOMAIN y.todo = 1 .. n - 1 /\ \A i \in 1 .. n - 1 : y.todo[i] = x.todo[i + 1]
  BY <1>1, <1>2
<1>4. p \in Nat /\ q \in Nat /\ IsFiniteSet(x.failed) /\ IsFiniteSet(x.skipped)
  BY FS_CardinalityType DEF AccountInv
<1>5. e \notin x.failed /\ e \notin x.skipped
  BY <1>2 DEF AccountInv
<1>6. Cardinality(x.failed \cup {e}) = p + 1 /\ IsFiniteSet(x.failed \cup {e})
      /\ Cardinality(x.skipped \cup {e}) = q + 1 /\ IsFiniteSet(x.skipped \cup {e})
  BY <1>4, <1>5, FS_AddElement
<1>7. Len(Append(x.reversed, e)) = m + 1
  BY <1>1, <1>2
<1>8. Cardinality(x.selected) = n + m + p + q
  BY DEF AccountInv
<1>9. /\ \A i, j \in 1 .. n : i # j => x.todo[i] # x.todo[j]
      /\ \A i \in 1 .. n : x.todo[i] \notin x.failed \cup x.skipped
  BY <1>2 DEF AccountInv
<1>. HIDE DEF e, n, m, p, q
<1>10. \A i \in 1 .. n - 1 : i + 1 \in 1 .. n /\ i + 1 # 1 /\ 1 \in 1 .. n
  BY <1>2
<1>11. \A i, j \in 1 .. n - 1 : i # j => y.todo[i] # y.todo[j]
  <2>1. \A i, j \in 1 .. n - 1 : i # j => i + 1 # j + 1
    OBVIOUS
  <2>. QED BY <1>3, <1>9, <1>10, <2>1
<1>12. \A i \in 1 .. n - 1 : y.todo[i] \notin x.failed \cup x.skipped \cup {e}
  BY <1>2, <1>3, <1>9, <1>10
<1>13. IsFiniteSet(y.failed) /\ IsFiniteSet(y.skipped) /\ y.failed \cup y.skipped \subseteq x.failed \cup x.skipped \cup {e}
  BY <1>4, <1>6 DEF e
<1>14. Cardinality(y.selected) = Len(y.todo) + Len(y.reversed) + Cardinality(y.failed) + Cardinality(y.skipped)
  <2>1. CASE y.reversed = Append(x.reversed, e) /\ y.failed = x.failed /\ y.skipped = x.skipped
    <3>1. n + m + p + q = (n - 1) + (m + 1) + p + q
      BY <1>2, <1>4
    <3>. QED BY <1>3, <1>7, <1>8, <2>1, <3>1 DEF p, q
  <2>2. CASE y.failed = x.failed \cup {e} /\ y.reversed = x.reversed /\ y.skipped = x.skipped
    <3>1. n + m + p + q = (n - 1) + m + (p + 1) + q
      BY <1>2, <1>4
    <3>. QED BY <1>3, <1>6, <1>8, <2>2, <3>1 DEF m, q
  <2>3. CASE y.skipped = x.skipped \cup {e} /\ y.reversed = x.reversed /\ y.failed = x.failed
    <3>1. n + m + p + q = (n - 1) + m + p + (q + 1)
      BY <1>2, <1>4
    <3>. QED BY <1>3, <1>6, <1>8, <2>3, <3>1 DEF m, p
  <2>. QED BY <2>1, <2>2, <2>3 DEF e
<1>. QED BY <1>3, <1>11, <1>12, <1>13, <1>14 DEF AccountInv

\* Whoever takes the step, the account of each responder stays right.
LEMMA AccountKept ==
  ASSUME ContainmentInv, ContainmentInv', [CNext]_cvars, NEW s \in Responders, AccountInv(responder[s])
  PROVE  AccountInv(responder'[s])
<1>. DEFINE x == responder[s]
<1>0. responder \in [Responders -> ResponderStates] /\ responder' \in [Responders -> ResponderStates]
  BY DEF ContainmentInv, ResponderStates
<1>1. ASSUME responder' = responder PROVE AccountInv(responder'[s])
  BY <1>1
<1>2. ASSUME NEW r \in Responders, NEW y, Set(r, y), r # s PROVE AccountInv(responder'[s])
  BY <1>0, <1>2 DEF Set
<1>3. ASSUME NEW y, Set(s, y) PROVE responder'[s] = y
  BY <1>0, <1>3 DEF Set
<1>4. CASE Environment \/ UNCHANGED cvars \/ \E d \in Delegations : SubDelegate(d)
  BY <1>1, <1>4 DEF Environment, cvars, SubDelegate
<1>5. ASSUME NEW e \in Entries,
             \/ \E d \in Delegations : RecordAction(e, d)
             \/ Allow(e) \/ Refuse(e) \/ Execute(e) \/ ExecuteFails(e) \/ Confirm(e)
             \/ \E done \in SUBSET StepNames : UndoOne(e, done)
      PROVE  AccountInv(responder'[s])
  <2>1. responder' = responder
    BY <1>5 DEF RecordAction, Allow, Refuse, Execute, ExecuteFails, Confirm, UndoOne
  <2>. QED BY <1>1, <2>1
<1>6. ASSUME NEW r \in Responders, NEW op, NEW d, Begin(r, op, d) PROVE AccountInv(responder'[s])
  <2>. DEFINE y == [Idle EXCEPT !.op = op, !.scope = Subtree(d), !.left = Subtree(d),
                         !.stopOnError = (op = "undo_all"),
                         !.pc = IF op = "contain" THEN "revoke" ELSE "collect"]
  <2>1. /\ Set(r, y) /\ y.todo = <<>> /\ y.reversed = <<>> /\ y.failed = {} /\ y.skipped = {}
        /\ y.selected = {}
    BY <1>6 DEF Begin, Idle
  <2>. HIDE DEF y
  <2>2. Len(<<>>) = 0 /\ DOMAIN <<>> = {} /\ Cardinality({}) = 0 /\ IsFiniteSet({})
    BY FS_EmptySet
  <2>3. AccountInv(y)
    BY <2>1, <2>2 DEF AccountInv
  <2>. QED BY <1>2, <1>3, <2>1, <2>3
<1>7. ASSUME NEW r \in Responders, (\E d \in Delegations : Revoke(r, d) \/ Collect(r, d)) \/ Report(r)
      PROVE  AccountInv(responder'[s])
  <2>. DEFINE Alike(y) == /\ y.todo = responder[r].todo /\ y.reversed = responder[r].reversed
                          /\ y.failed = responder[r].failed /\ y.skipped = responder[r].skipped
                          /\ y.selected = responder[r].selected
  <2>0. responder[r] \in ResponderStates
    BY <1>0
  <2>1. \E y : Set(r, y) /\ Alike(y)
    <3>1. ASSUME NEW d \in Delegations, Revoke(r, d) PROVE \E y : Set(r, y) /\ Alike(y)
      <4>. DEFINE last == responder[r].left = {d}
                  y == [responder[r] EXCEPT !.left = IF last THEN responder[r].scope ELSE @ \ {d},
                                            !.pc = IF last THEN "collect" ELSE "revoke"]
      <4>1. Set(r, y)
        BY <3>1 DEF Revoke
      <4>2. Alike(y)
        BY <2>0 DEF ResponderStates
      <4>. QED BY <4>1, <4>2
    <3>2. ASSUME NEW d \in Delegations, Collect(r, d) PROVE \E y : Set(r, y) /\ Alike(y)
      <4>1. PICK found : Set(r, [responder[r] EXCEPT !.left = @ \ {d}, !.wanted = @ \o found,
                                   !.pc = IF responder[r].left = {d} THEN "select" ELSE "collect"])
        BY <3>2 DEF Collect
      <4>. DEFINE y == [responder[r] EXCEPT !.left = @ \ {d}, !.wanted = @ \o found,
                                   !.pc = IF responder[r].left = {d} THEN "select" ELSE "collect"]
      <4>2. Alike(y)
        BY <2>0 DEF ResponderStates
      <4>. QED BY <4>1, <4>2
    <3>3. ASSUME Report(r) PROVE \E y : Set(r, y) /\ Alike(y)
      <4>. DEFINE y == [responder[r] EXCEPT !.pc = "done"]
      <4>1. Set(r, y)
        BY <3>3 DEF Report, CascadeOver
      <4>2. Alike(y)
        BY <2>0 DEF ResponderStates
      <4>. QED BY <4>1, <4>2
    <3>. QED BY <1>7, <3>1, <3>2, <3>3
  <2>2. PICK y : Set(r, y) /\ Alike(y)
    BY <2>1
  <2>3. CASE r = s
    <3>1. AccountInv(y)
      BY <2>2, <2>3, AccountStill
    <3>. QED BY <1>3, <2>2, <2>3, <3>1
  <2>. QED BY <1>2, <2>2, <2>3
<1>8. ASSUME NEW r \in Responders, Select(r) PROVE AccountInv(responder'[s])
  <2>0. PICK todo \in LiveNewestFirst(responder[r].wanted) :
          Set(r, [responder[r] EXCEPT !.wanted = <<>>, !.todo = todo, !.selected = Seqs!ToSet(todo), !.pc = "cascade",
                           !.escaping = {e \in Entries : phase[e] \in {"allowed", "executed"}
                                                        \/ journal[e].state \in {"reversal_failed", "expired"}}])
    BY <1>8 DEF Select
  <2>. DEFINE y == [responder[r] EXCEPT !.wanted = <<>>, !.todo = todo, !.selected = Seqs!ToSet(todo), !.pc = "cascade",
                           !.escaping = {e \in Entries : phase[e] \in {"allowed", "executed"}
                                                        \/ journal[e].state \in {"reversal_failed", "expired"}}]
  <2>1. /\ Set(r, y) /\ y.todo = todo /\ y.selected = Seqs!ToSet(todo)
        /\ y.reversed = responder[r].reversed /\ y.failed = responder[r].failed
        /\ y.skipped = responder[r].skipped
    <3>1. responder[r] \in ResponderStates
      BY <1>0
    <3>. QED BY <2>0, <3>1 DEF ResponderStates
  <2>. HIDE DEF y
  <2>2. responder'[r] = y /\ y \in ResponderStates
    BY <1>0, <2>1 DEF Set
  <2>3. todo \in Seq(Entries)
    BY <2>1, <2>2 DEF ResponderStates
  <2>4. \A i, j \in DOMAIN todo : i # j => todo[i] # todo[j]
    <3>1. \A i, j \in DOMAIN todo : i < j =>
            \/ journal[todo[i]].committedAt > journal[todo[j]].committedAt
            \/ TiesKept(responder[r].wanted, todo[i], todo[j])
      BY DEF LiveNewestFirst
    <3>2. \A i \in DOMAIN todo : todo[i] \in Seqs!ToSet(responder[r].wanted)
      BY DEF LiveNewestFirst, Orders, Live
    <3>3. \A e \in Seqs!ToSet(responder[r].wanted) : Position(responder[r].wanted, e) \in Nat
      BY <1>0 DEF ResponderStates, Position, Seqs!ToSet
    <3>4. \A e \in Entries : journal[e].committedAt \in Nat
      BY DEF ContainmentInv, JournalInv, TypeOK, JournalEntries
    <3>5. \A i, j \in DOMAIN todo : i < j => todo[i] # todo[j]
      BY <2>3, <3>1, <3>2, <3>3, <3>4 DEF TiesKept
    <3>6. \A i, j \in DOMAIN todo : i # j => i < j \/ j < i
      BY <2>3
    <3>. QED BY <3>5, <3>6
  <2>5. /\ responder[r].reversed = <<>> /\ responder[r].failed = {} /\ responder[r].skipped = {}
    BY <1>8 DEF Select, ContainmentInv, ResponderInv, CascadeInv
  <2>6. Cardinality(Seqs!ToSet(todo)) = Len(todo) /\ Len(todo) \in Nat
    BY <2>3, <2>4, SelectCounts
  <2>7. Len(<<>>) = 0 /\ Cardinality({}) = 0 /\ IsFiniteSet({})
    BY FS_EmptySet
  <2>8. AccountInv(y)
    BY <2>1, <2>4, <2>5, <2>6, <2>7 DEF AccountInv
  <2>. QED BY <1>2, <2>1, <2>2, <2>8
<1>9. ASSUME NEW r \in Responders, CascadeSkip(r) PROVE AccountInv(responder'[s])
  <2>. DEFINE y == Skip(responder[r])
  <2>1. Set(r, y) /\ responder[r].todo # <<>> /\ responder[r] \in ResponderStates
    BY <1>0, <1>9 DEF CascadeSkip, Refuses, CascadeOver
  <2>2. /\ y.todo = Tail(responder[r].todo) /\ y.selected = responder[r].selected
        /\ y.skipped = responder[r].skipped \cup {Head(responder[r].todo)}
        /\ y.reversed = responder[r].reversed /\ y.failed = responder[r].failed
    BY <2>1 DEF Skip, ResponderStates
  <2>. HIDE DEF y
  <2>3. CASE r = s
    <3>1. AccountInv(y)
      BY <2>1, <2>2, <2>3, AccountMoves
    <3>. QED BY <1>3, <2>1, <2>3, <3>1
  <2>. QED BY <1>2, <2>1, <2>3
<1>10. ASSUME NEW r \in Responders, NEW done, CascadeReverse(r, done) PROVE AccountInv(responder'[s])
  <2>. DEFINE e == Head(responder[r].todo)
              ok == Succeeded(PlannedSteps(journal[e]), done)
              y == [responder[r] EXCEPT !.todo = Tail(@),
                         !.reversed = IF ok THEN Append(@, e) ELSE @,
                         !.failed = IF ok THEN @ ELSE @ \cup {e},
                         !.stopped = ~ok /\ responder[r].stopOnError]
  <2>1. Set(r, y) /\ responder[r].todo # <<>>
    BY <1>10, Zenon DEF CascadeReverse, CascadeOver
  <2>2. responder[r] \in ResponderStates
    BY <1>0
  <2>. HIDE DEF ok
  <2>3. /\ y.todo = Tail(responder[r].todo) /\ y.selected = responder[r].selected
        /\ y.skipped = responder[r].skipped
        /\ y.reversed = (IF ok THEN Append(responder[r].reversed, e) ELSE responder[r].reversed)
        /\ y.failed = (IF ok THEN responder[r].failed ELSE responder[r].failed \cup {e})
    BY <2>2 DEF ResponderStates
  <2>. HIDE DEF y
  <2>4. \/ y.reversed = Append(responder[r].reversed, e) /\ y.failed = responder[r].failed
        \/ y.failed = responder[r].failed \cup {e} /\ y.reversed = responder[r].reversed
    BY <2>3
  <2>5. CASE r = s
    <3>1. AccountInv(y)
      BY <2>1, <2>2, <2>3, <2>4, <2>5, AccountMoves
    <3>. QED BY <1>3, <2>1, <2>5, <3>1
  <2>. QED BY <1>2, <2>1, <2>5
<1>. QED BY <1>4, <1>5, <1>6, <1>7, <1>8, <1>9, <1>10 DEF CNext, Respond

-----------------------------------------------------------------------------
(* Containment and the rights to undo.                                     *)

\* A refusal journals a plan and abandons it at once: the right is lost before it was granted.
LEMMA RefusalIsRightful ==
  ASSUME TypeOK, NEW e \in Entries, Refuse(e)
  PROVE  Rights!RNext
<1>1. PICK kind \in Kinds :
        journal' = [journal EXCEPT ![e] = [PlanFor(journal[e].tool, TRUE, kind) EXCEPT !.state = "abandoned"]]
  BY DEF Refuse, Classified, Classifications, NoBetterThan
<1>. DEFINE y == [PlanFor(journal[e].tool, TRUE, kind) EXCEPT !.state = "abandoned"]
<1>2. y.state = "abandoned" /\ y.tool = journal[e].tool
  BY DEF PlanFor
<1>3. journal' = [journal EXCEPT ![e] = y] /\ UNCHANGED <<applied, undone>>
  BY <1>1 DEF Refuse, history
<1>. HIDE DEF y
<1>4. Standings' = [Standings EXCEPT ![e] = RightTo(y)] /\ Plans' = Plans
  BY <1>2, <1>3, RightMoves
<1>5. RightTo(y) = "lost"
  BY <1>2 DEF RightTo
<1>6. Standings' = [f \in Entries |-> IF f \in {e} THEN "lost" ELSE Standings[f]]
  BY <1>4, <1>5 DEF Standings
<1>7. Rights!Lose({e})
  BY <1>3, <1>4, <1>6 DEF Rights!Lose
<1>. QED BY <1>7 DEF Rights!RNext

\* However agents, single undos and cascades of overlapping scopes race, they keep the
\* rights of the journal they share (ControlPlane and ReversalEngine): no cascade runs a
\* step of an undo that another has used up, or that was abandoned or found expired.
THEOREM ContainmentKeepsRights == CSpec => ImplementsUndoRights
<1>1. CInit => Rights!RInit
  BY RightsInit DEF CInit
<1>2. ContainmentInv /\ [CNext]_cvars => [Rights!RNext]_(Rights!rvars)
  <2>. SUFFICES ASSUME ContainmentInv, [CNext]_cvars PROVE [Rights!RNext]_(Rights!rvars)
    OBVIOUS
  <2>1. TypeOK
    BY DEF ContainmentInv, JournalInv
  <2>. QED BY <2>1, JournalSteps, StepsAreRightful, RefusalIsRightful
<1>. QED BY <1>1, <1>2, ContainmentInvariant, PTL DEF CSpec, ImplementsUndoRights, Rights!RSpec

-----------------------------------------------------------------------------
(* The end of a cascade.                                                   *)

\* Whatever is finite and has a strict order can be listed in it: an element's place
\* is the number of those before it, and one.
LEMMA SortExists ==
  ASSUME NEW S, IsFiniteSet(S), NEW R,
         \A a, b \in S : a # b => <<a, b>> \in R \/ <<b, a>> \in R,
         \A a, b, c \in S : <<a, b>> \in R /\ <<b, c>> \in R => <<a, c>> \in R,
         \A a \in S : <<a, a>> \notin R
  PROVE  \E q \in Orders(S) : \A i, j \in DOMAIN q : i < j => <<q[i], q[j]>> \in R
<1>. DEFINE n == Cardinality(S)
            Smaller(a) == {b \in S : <<b, a>> \in R}
            rank == [a \in S |-> Cardinality(Smaller(a)) + 1]
<1>1. n \in Nat
  BY FS_CardinalityType
<1>2. \A a \in S : IsFiniteSet(Smaller(a)) /\ Cardinality(Smaller(a)) \in Nat
  BY FS_Subset, FS_CardinalityType
<1>3. ASSUME NEW a \in S, NEW b \in S, <<a, b>> \in R
      PROVE  rank[a] < rank[b]
  <2>1. Smaller(a) \subseteq Smaller(b) /\ Smaller(a) # Smaller(b)
    <3>1. a \in Smaller(b) /\ a \notin Smaller(a)
      BY <1>3
    <3>. QED BY <1>3, <3>1
  <2>2. Cardinality(Smaller(a)) <= Cardinality(Smaller(b)) /\ Cardinality(Smaller(a)) # Cardinality(Smaller(b))
    BY <1>2, <2>1, FS_Subset
  <2>. QED BY <1>2, <2>2
<1>4. ASSUME NEW a \in S PROVE rank[a] \in 1 .. n
  <2>1. Smaller(a) \subseteq S /\ Smaller(a) # S
    OBVIOUS
  <2>2. Cardinality(Smaller(a)) <= n /\ Cardinality(Smaller(a)) # n
    BY <2>1, FS_Subset
  <2>. QED BY <1>1, <1>2, <2>2
<1>. HIDE DEF Smaller
<1>5. rank \in [S -> 1 .. n] /\ \A a \in S : rank[a] \in Int
  <2>1. rank \in [S -> 1 .. n]
    BY <1>4
  <2>. HIDE DEF rank, n
  <2>. QED BY <1>1, <2>1
<1>. HIDE DEF rank
<1>6. \A a, b \in S : rank[a] = rank[b] => a = b
  <2>. SUFFICES ASSUME NEW a \in S, NEW b \in S, a # b PROVE rank[a] # rank[b]
    OBVIOUS
  <2>1. <<a, b>> \in R \/ <<b, a>> \in R
    OBVIOUS
  <2>2. rank[a] < rank[b] \/ rank[b] < rank[a]
    BY <1>3, <2>1
  <2>. QED BY <1>5, <2>2
<1>7. rank \in Injection(S, 1 .. n)
  BY <1>5, <1>6 DEF Injection, IsInjective
<1>8. IsFiniteSet(1 .. n) /\ Cardinality(1 .. n) = n
  BY <1>1, FS_Interval
<1>9. rank \in Surjection(S, 1 .. n)
  BY <1>7, <1>8, FS_Injection DEF n
<1>10. \A i \in 1 .. n : \E a \in S : rank[a] = i
  BY <1>9 DEF Surjection
<1>. DEFINE q == [i \in 1 .. n |-> CHOOSE a \in S : rank[a] = i]
<1>11. \A i \in 1 .. n : q[i] \in S /\ rank[q[i]] = i
  BY <1>10
<1>12. q \in Orders(S) /\ DOMAIN q = 1 .. n
  BY <1>11 DEF Orders
<1>. HIDE DEF q
<1>13. ASSUME NEW i \in 1 .. n, NEW j \in 1 .. n, i < j PROVE <<q[i], q[j]>> \in R
  <2>1. q[i] # q[j]
    BY <1>1, <1>11, <1>13
  <2>2. <<q[j], q[i]>> \in R => rank[q[j]] < rank[q[i]]
    BY <1>3, <1>11
  <2>3. <<q[j], q[i]>> \in R => j < i
    BY <1>11, <2>2
  <2>. QED BY <1>1, <1>11, <1>13, <2>1, <2>3
<1>. QED BY <1>12, <1>13

\* The place of an element tells the element.
LEMMA PositionTells ==
  ASSUME NEW S, NEW s \in Seq(S), NEW e \in Seqs!ToSet(s)
  PROVE  Position(s, e) \in Nat /\ s[Position(s, e)] = e
BY DEF Position, Seqs!ToSet

\* The actions recorded under a grant can be listed in the order of recording.
LEMMA SomeRecorded ==
  ASSUME ContainmentInv, NEW d \in Delegations
  PROVE  RecordedUnder(d) # {}
<1>. DEFINE S == {e \in Seqs!ToSet(recorded) : under[e] = d}
            R == {p \in S \X S : Position(recorded, p[1]) < Position(recorded, p[2])}
<1>1. recorded \in Seq(Entries)
  BY DEF ContainmentInv
<1>2. IsFiniteSet(S)
  BY <1>1, HeldIsFinite, FS_Subset
<1>3. \A a \in S : Position(recorded, a) \in Int /\ recorded[Position(recorded, a)] = a
  BY <1>1, PositionTells
<1>4. \A a, b \in S : <<a, b>> \in R <=> Position(recorded, a) < Position(recorded, b)
  OBVIOUS
<1>5. \A a, b \in S : a # b => Position(recorded, a) # Position(recorded, b)
  BY <1>3
<1>. HIDE DEF S, R
<1>6. \A a, b \in S : a # b => <<a, b>> \in R \/ <<b, a>> \in R
  BY <1>3, <1>4, <1>5
<1>7. \A a, b, c \in S : <<a, b>> \in R /\ <<b, c>> \in R => <<a, c>> \in R
  BY <1>3, <1>4
<1>8. \A a \in S : <<a, a>> \notin R
  BY <1>3, <1>4
<1>9. PICK q \in Orders(S) : \A i, j \in DOMAIN q : i < j => <<q[i], q[j]>> \in R
  BY <1>2, <1>6, <1>7, <1>8, SortExists
<1>10. \A i \in DOMAIN q : q[i] \in S
  BY <1>9 DEF Orders
<1>11. \A i, j \in DOMAIN q : i < j => Position(recorded, q[i]) < Position(recorded, q[j])
  BY <1>4, <1>9, <1>10
<1>. QED BY <1>9, <1>11 DEF RecordedUnder, S

\* The committed entries can be listed newest first, ties in the order of collection.
LEMMA SomeOrder ==
  ASSUME ContainmentInv, NEW wanted \in Seq(Entries)
  PROVE  LiveNewestFirst(wanted) # {}
<1>. DEFINE S == Live(wanted)
            Earlier(a, b) == \/ journal[a].committedAt > journal[b].committedAt
                             \/ TiesKept(wanted, a, b)
            R == {p \in S \X S : Earlier(p[1], p[2])}
<1>1. IsFiniteSet(S) /\ S \subseteq Seqs!ToSet(wanted) /\ S \subseteq Entries
  BY HeldIsFinite, FS_Subset DEF Live
<1>2. \A a \in S : Position(wanted, a) \in Int /\ wanted[Position(wanted, a)] = a
  BY <1>1, PositionTells
<1>3. \A a \in S : journal[a].committedAt \in Int
  BY <1>1 DEF ContainmentInv, JournalInv, TypeOK, JournalEntries
<1>4. \A a, b \in S : <<a, b>> \in R <=> Earlier(a, b)
  OBVIOUS
<1>5. \A a, b \in S : a # b => Position(wanted, a) # Position(wanted, b)
  BY <1>2
<1>. HIDE DEF S, R
<1>6. \A a, b \in S : a # b => Earlier(a, b) \/ Earlier(b, a)
  BY <1>2, <1>3, <1>5 DEF TiesKept
<1>7. \A a, b, c \in S : Earlier(a, b) /\ Earlier(b, c) => Earlier(a, c)
  BY <1>2, <1>3 DEF TiesKept
<1>8. \A a \in S : ~Earlier(a, a)
  BY <1>2, <1>3 DEF TiesKept
<1>. HIDE DEF Earlier
<1>9. PICK q \in Orders(S) : \A i, j \in DOMAIN q : i < j => <<q[i], q[j]>> \in R
  <2>1. \A a, b \in S : a # b => <<a, b>> \in R \/ <<b, a>> \in R
    BY <1>4, <1>6
  <2>2. \A a, b, c \in S : <<a, b>> \in R /\ <<b, c>> \in R => <<a, c>> \in R
    BY <1>4, <1>7
  <2>3. \A a \in S : <<a, a>> \notin R
    BY <1>4, <1>8
  <2>. QED BY <1>1, <2>1, <2>2, <2>3, SortExists
<1>10. \A i \in DOMAIN q : q[i] \in S
  BY <1>9 DEF Orders
<1>11. \A i, j \in DOMAIN q : i < j => Earlier(q[i], q[j])
  BY <1>4, <1>9, <1>10
<1>. QED BY <1>9, <1>11 DEF LiveNewestFirst, S, Earlier

\* The grants that exist include the parents, and any of them have one above the rest.
WalkInv ==
  /\ ParentClosed(issued)
  /\ \A S \in SUBSET issued : S # {} => \E d \in S : Chain[d] \cap S = {d}

\* A walk that goes on has grants left.
LeftInv(x) == x.pc \in {"revoke", "collect"} => x.left # {} /\ x.left \subseteq x.scope

\* What a responder has executed an undo of.
Tried(x) == Seqs!ToSet(x.reversed) \cup x.failed

\* The responders that have not tried an entry have a run of it left.
RoomInv(e) ==
  runs[e] + Cardinality({r \in Responders : e \notin Tried(responder[r])}) <= MaxRuns

\* What a step of a responder does to its progress.
Moves(x, y) ==
  \/ /\ x.pc = "revoke" /\ y.scope = x.scope /\ y.wanted = x.wanted
     /\ \E d \in x.left : IF x.left = {d} THEN y.pc = "collect" /\ y.left = x.scope
                                          ELSE y.pc = "revoke" /\ y.left = x.left \ {d}
  \/ /\ x.pc = "collect" /\ y.scope = x.scope
     /\ \E d \in x.left : IF x.left = {d} THEN y.pc = "select"
                                          ELSE y.pc = "collect" /\ y.left = x.left \ {d}
  \/ x.pc = "select" /\ y.pc = "cascade"
  \/ x.pc = "cascade" /\ x.todo # <<>> /\ y.pc = "cascade" /\ y.todo = Tail(x.todo)
  \/ x.pc = "cascade" /\ y.pc = "done"

LEMMA RespondMoves ==
  ASSUME ContainmentInv, NEW r \in Responders, Respond(r)
  PROVE  /\ \A s \in Responders : s # r => responder'[s] = responder[s]
         /\ Moves(responder[r], responder'[r])
         /\ Tried(responder[r]) \subseteq Tried(responder'[r])
         /\ runs' = runs \/ \E done \in SUBSET StepNames : CascadeReverse(r, done)
<1>. DEFINE x == responder[r]
<1>0. x \in ResponderStates /\ responder \in [Responders -> ResponderStates]
  BY DEF ContainmentInv
<1>1. ASSUME NEW y, Set(r, y)
      PROVE  responder'[r] = y /\ \A s \in Responders : s # r => responder'[s] = responder[s]
  BY <1>0, <1>1 DEF Set
<1>2. ASSUME NEW d \in Delegations, Revoke(r, d)
      PROVE  \E y : Set(r, y) /\ Moves(x, y) /\ Tried(x) \subseteq Tried(y) /\ runs' = runs
  <2>. DEFINE last == x.left = {d}
              y == [x EXCEPT !.left = IF last THEN x.scope ELSE @ \ {d},
                             !.pc = IF last THEN "collect" ELSE "revoke"]
  <2>1. Set(r, y) /\ x.pc = "revoke" /\ d \in x.left /\ runs' = runs
    BY <1>2 DEF Revoke, NextInWalk, vars, history
  <2>2. /\ y.scope = x.scope /\ y.wanted = x.wanted /\ y.reversed = x.reversed /\ y.failed = x.failed
        /\ y.left = (IF last THEN x.scope ELSE x.left \ {d})
        /\ y.pc = (IF last THEN "collect" ELSE "revoke")
    BY <1>0 DEF ResponderStates
  <2>. HIDE DEF x, y
  <2>. QED BY <2>1, <2>2 DEF Moves, Tried
<1>3. ASSUME NEW d \in Delegations, Collect(r, d)
      PROVE  \E y : Set(r, y) /\ Moves(x, y) /\ Tried(x) \subseteq Tried(y) /\ runs' = runs
  <2>1. PICK found : Set(r, [x EXCEPT !.left = @ \ {d}, !.wanted = @ \o found,
                               !.pc = IF x.left = {d} THEN "select" ELSE "collect"])
    BY <1>3 DEF Collect
  <2>. DEFINE y == [x EXCEPT !.left = @ \ {d}, !.wanted = @ \o found,
                             !.pc = IF x.left = {d} THEN "select" ELSE "collect"]
  <2>2. x.pc = "collect" /\ d \in x.left /\ runs' = runs
    BY <1>3 DEF Collect, NextInWalk, vars, history
  <2>3. /\ y.scope = x.scope /\ y.reversed = x.reversed /\ y.failed = x.failed
        /\ y.left = x.left \ {d} /\ y.pc = (IF x.left = {d} THEN "select" ELSE "collect")
    BY <1>0 DEF ResponderStates
  <2>. HIDE DEF x
  <2>4. Moves(x, y) /\ Tried(x) \subseteq Tried(y)
    <3>. HIDE DEF y
    <3>. QED BY <2>2, <2>3 DEF Moves, Tried
  <2>. QED BY <2>1, <2>2, <2>4
<1>4. ASSUME Select(r)
      PROVE  \E y : Set(r, y) /\ Moves(x, y) /\ Tried(x) \subseteq Tried(y) /\ runs' = runs
  <2>1. PICK todo : Set(r, [x EXCEPT !.wanted = <<>>, !.todo = todo, !.selected = Seqs!ToSet(todo), !.pc = "cascade",
                           !.escaping = {e \in Entries : phase[e] \in {"allowed", "executed"}
                                                        \/ journal[e].state \in {"reversal_failed", "expired"}}])
    BY <1>4 DEF Select
  <2>. DEFINE y == [x EXCEPT !.wanted = <<>>, !.todo = todo, !.selected = Seqs!ToSet(todo), !.pc = "cascade",
                           !.escaping = {e \in Entries : phase[e] \in {"allowed", "executed"}
                                                        \/ journal[e].state \in {"reversal_failed", "expired"}}]
  <2>2. x.pc = "select" /\ runs' = runs
    BY <1>4 DEF Select, vars, history
  <2>3. y.reversed = x.reversed /\ y.failed = x.failed /\ y.pc = "cascade"
    BY <1>0 DEF ResponderStates
  <2>. HIDE DEF x
  <2>4. Moves(x, y) /\ Tried(x) \subseteq Tried(y)
    <3>. HIDE DEF y
    <3>. QED BY <2>2, <2>3 DEF Moves, Tried
  <2>. QED BY <2>1, <2>2, <2>4
<1>5. ASSUME NEW done \in SUBSET StepNames, CascadeReverse(r, done)
      PROVE  \E y : Set(r, y) /\ Moves(x, y) /\ Tried(x) \subseteq Tried(y)
  <2>. DEFINE e == Head(x.todo)
              ok == Succeeded(PlannedSteps(journal[e]), done)
              y == [x EXCEPT !.todo = Tail(@),
                         !.reversed = IF ok THEN Append(@, e) ELSE @,
                         !.failed = IF ok THEN @ ELSE @ \cup {e},
                         !.stopped = ~ok /\ x.stopOnError]
  <2>1. Set(r, y) /\ x.pc = "cascade" /\ x.todo # <<>>
    BY <1>5, Zenon DEF CascadeReverse, CascadeOver
  <2>2. x.todo \in Seq(Entries) /\ x.reversed \in Seq(Entries)
    BY <1>0 DEF ResponderStates
  <2>3. e \in Entries
    BY <2>1, <2>2
  <2>. HIDE DEF ok
  <2>4. /\ y.todo = Tail(x.todo) /\ y.pc = x.pc
        /\ y.reversed = (IF ok THEN Append(x.reversed, e) ELSE x.reversed)
        /\ y.failed = (IF ok THEN x.failed ELSE x.failed \cup {e})
    BY <1>0 DEF ResponderStates
  <2>. HIDE DEF y, x, e
  <2>5. Seqs!ToSet(Append(x.reversed, e)) = Seqs!ToSet(x.reversed) \cup {e}
    BY <2>2, <2>3, AppendHolds
  <2>6. Tried(x) \subseteq Tried(y)
    BY <2>4, <2>5 DEF Tried
  <2>7. Moves(x, y)
    BY <2>1, <2>4 DEF Moves
  <2>. QED BY <2>1, <2>6, <2>7
<1>6. ASSUME CascadeSkip(r)
      PROVE  \E y : Set(r, y) /\ Moves(x, y) /\ Tried(x) \subseteq Tried(y) /\ runs' = runs
  <2>. DEFINE y == Skip(x)
  <2>1. Set(r, y) /\ x.pc = "cascade" /\ x.todo # <<>>
    BY <1>6 DEF CascadeSkip, CascadeOver
  <2>2. runs' = runs
    BY <1>6 DEF CascadeSkip, ReverseExpired, vars, history
  <2>3. y.todo = Tail(x.todo) /\ y.pc = x.pc /\ y.reversed = x.reversed /\ y.failed = x.failed
    BY <1>0 DEF Skip, ResponderStates
  <2>. HIDE DEF x, y
  <2>. QED BY <2>1, <2>2, <2>3 DEF Moves, Tried
<1>7. ASSUME Report(r)
      PROVE  \E y : Set(r, y) /\ Moves(x, y) /\ Tried(x) \subseteq Tried(y) /\ runs' = runs
  <2>. DEFINE y == [x EXCEPT !.pc = "done"]
  <2>1. Set(r, y) /\ x.pc = "cascade" /\ runs' = runs
    BY <1>7 DEF Report, vars, history
  <2>2. y.pc = "done" /\ y.reversed = x.reversed /\ y.failed = x.failed
    BY <1>0 DEF ResponderStates
  <2>. HIDE DEF x, y
  <2>. QED BY <2>1, <2>2 DEF Moves, Tried
<1>8. \E y : /\ Set(r, y) /\ Moves(x, y) /\ Tried(x) \subseteq Tried(y)
             /\ runs' = runs \/ \E done \in SUBSET StepNames : CascadeReverse(r, done)
  BY <1>2, <1>3, <1>4, <1>5, <1>6, <1>7, Zenon DEF Respond
<1>. QED BY <1>1, <1>8

\* Such a step leaves less to go.
LEMMA MovesAreNearer ==
  ASSUME NEW x \in ResponderStates, NEW y \in ResponderStates, Moves(x, y), LeftInv(x), AccountInv(y)
  PROVE  StepsToGo(y) < StepsToGo(x)
<1>. DEFINE n == Cardinality(Entries)
<1>1. /\ IsFiniteSet(x.left) /\ IsFiniteSet(x.scope) /\ IsFiniteSet(y.left) /\ IsFiniteSet(y.selected)
      /\ Cardinality(y.selected) <= n
  BY FiniteAssumption, FS_Subset DEF ResponderStates
<1>2. /\ n \in Nat /\ Cardinality(x.left) \in Nat /\ Cardinality(x.scope) \in Nat
      /\ Cardinality(y.left) \in Nat /\ Cardinality(y.selected) \in Nat
  BY <1>1, FiniteAssumption, FS_CardinalityType
<1>3. /\ Len(x.todo) \in Nat /\ Len(y.todo) \in Nat /\ Len(y.reversed) \in Nat
      /\ x.todo \in Seq(Entries)
  BY DEF ResponderStates
<1>4. Len(y.todo) <= n
  <2>1. Cardinality(y.failed) \in Nat /\ Cardinality(y.skipped) \in Nat
    BY FS_CardinalityType DEF AccountInv
  <2>2. Cardinality(y.selected) =
          Len(y.todo) + Len(y.reversed) + Cardinality(y.failed) + Cardinality(y.skipped)
    BY DEF AccountInv
  <2>3. Len(y.todo) + Len(y.reversed) + Cardinality(y.failed) + Cardinality(y.skipped) <= n
    BY <1>1, <2>2
  <2>4. \A a, b, c, d \in Nat : a + b + c + d <= n => a <= n
    <3>. HIDE DEF n
    <3>. QED BY <1>2
  <2>. HIDE DEF n
  <2>. QED BY <1>3, <2>1, <2>3, <2>4
<1>5. ASSUME NEW d \in x.left
      PROVE  /\ Cardinality(x.left) >= 1
             /\ y.left = x.left \ {d} => Cardinality(y.left) = Cardinality(x.left) - 1
  <2>1. Cardinality(x.left \ {d}) = Cardinality(x.left) - 1
    BY <1>1, <1>5, FS_RemoveElement
  <2>2. Cardinality(x.left) # 0
    BY <1>1, <1>5, FS_EmptySet
  <2>3. Cardinality(x.left) >= 1
    BY <1>2, <2>2
  <2>. QED BY <2>1, <2>3
<1>6. CASE x.pc = "revoke"
  <2>1. PICK d \in x.left : \/ y.pc = "collect" /\ y.left = x.scope
                            \/ y.pc = "revoke" /\ y.left = x.left \ {d} /\ y.scope = x.scope
    BY <1>6 DEF Moves
  <2>2. StepsToGo(x) = Cardinality(x.left) + Cardinality(x.scope) + n + 2
    BY <1>6 DEF StepsToGo
  <2>3. CASE y.pc = "collect" /\ y.left = x.scope
    <3>1. StepsToGo(y) = Cardinality(x.scope) + n + 2
      BY <2>3 DEF StepsToGo
    <3>. HIDE DEF n
    <3>. QED BY <1>2, <1>5, <2>2, <3>1
  <2>4. CASE y.pc = "revoke" /\ y.left = x.left \ {d} /\ y.scope = x.scope
    <3>1. StepsToGo(y) = Cardinality(y.left) + Cardinality(x.scope) + n + 2
      BY <2>4 DEF StepsToGo
    <3>2. Cardinality(y.left) = Cardinality(x.left) - 1
      BY <1>5, <2>4
    <3>. HIDE DEF n
    <3>. QED BY <1>2, <2>2, <3>1, <3>2
  <2>. QED BY <2>1, <2>3, <2>4
<1>7. CASE x.pc = "collect"
  <2>1. PICK d \in x.left : \/ y.pc = "select"
                            \/ y.pc = "collect" /\ y.left = x.left \ {d}
    BY <1>7 DEF Moves
  <2>2. StepsToGo(x) = Cardinality(x.left) + n + 2
    BY <1>7 DEF StepsToGo
  <2>3. CASE y.pc = "select"
    <3>1. StepsToGo(y) = n + 2
      BY <2>3 DEF StepsToGo
    <3>. HIDE DEF n
    <3>. QED BY <1>2, <1>5, <2>2, <3>1
  <2>4. CASE y.pc = "collect" /\ y.left = x.left \ {d}
    <3>1. StepsToGo(y) = Cardinality(y.left) + n + 2
      BY <2>4 DEF StepsToGo
    <3>2. Cardinality(y.left) = Cardinality(x.left) - 1
      BY <1>5, <2>4
    <3>. HIDE DEF n
    <3>. QED BY <1>2, <2>2, <3>1, <3>2
  <2>. QED BY <2>1, <2>3, <2>4
<1>8. CASE x.pc = "select"
  <2>1. StepsToGo(x) = n + 2 /\ StepsToGo(y) = Len(y.todo) + 1
    BY <1>8 DEF Moves, StepsToGo
  <2>. HIDE DEF n
  <2>. QED BY <1>2, <1>3, <1>4, <2>1
<1>9. CASE x.pc = "cascade"
  <2>1. StepsToGo(x) = Len(x.todo) + 1
    BY <1>9 DEF StepsToGo
  <2>2. CASE y.pc = "done"
    <3>1. StepsToGo(y) = 0
      BY <2>2 DEF StepsToGo
    <3>. QED BY <1>3, <2>1, <3>1
  <2>3. CASE x.todo # <<>> /\ y.pc = "cascade" /\ y.todo = Tail(x.todo)
    <3>1. StepsToGo(y) = Len(y.todo) + 1
      BY <2>3 DEF StepsToGo
    <3>2. Len(y.todo) = Len(x.todo) - 1
      BY <1>3, <2>3
    <3>. QED BY <1>3, <2>1, <3>1, <3>2
  <2>. QED BY <1>9, <2>2, <2>3 DEF Moves
<1>. QED BY <1>6, <1>7, <1>8, <1>9 DEF Moves

ProgressInv ==
  /\ WalkInv
  /\ \A r \in Responders : LeftInv(responder[r])
  /\ \A e \in Entries : RoomInv(e)

\* Who moves a responder, and who executes an undo.
LEMMA WhoMoves ==
  ASSUME [CNext]_cvars
  PROVE  \/ UNCHANGED <<responder, runs>>
         \/ \E e \in Entries, done \in SUBSET StepNames : UndoOne(e, done)
         \/ \E r \in Responders, op \in {"contain", "undo_all"}, d \in Delegations : Begin(r, op, d)
         \/ \E r \in Responders : Respond(r)
<1>1. ASSUME NEW d \in Delegations, SubDelegate(d) PROVE UNCHANGED <<responder, runs>>
  BY <1>1 DEF SubDelegate, vars, history
<1>2. ASSUME NEW e \in Entries, NEW d \in Delegations, RecordAction(e, d)
      PROVE  UNCHANGED <<responder, runs>>
  BY <1>2 DEF RecordAction, vars, history
<1>3. ASSUME NEW e \in Entries, Allow(e) \/ Refuse(e) PROVE UNCHANGED <<responder, runs>>
  BY <1>3 DEF Allow, Refuse, OpenJournal, history
<1>4. ASSUME NEW e \in Entries, Execute(e) \/ ExecuteFails(e) PROVE UNCHANGED <<responder, runs>>
  BY <1>4 DEF Execute, ExecuteFails, Abandon, vars, history
<1>5. ASSUME NEW e \in Entries, Confirm(e) PROVE UNCHANGED <<responder, runs>>
  BY <1>5 DEF Confirm, Commit
<1>6. CASE Environment
  BY <1>6 DEF Environment, Tick, FlipGate, ExpireStale, history
<1>7. CASE UNCHANGED cvars
  BY <1>7 DEF cvars, vars, history
<1>. QED BY <1>1, <1>2, <1>3, <1>4, <1>5, <1>6, <1>7, Zenon DEF CNext

\* Grants are only ever issued under grants that exist.
LEMMA IssuedGrows ==
  ASSUME [CNext]_cvars
  PROVE  issued' = issued \/ \E d \in Delegations : SubDelegate(d)
<1>1. ASSUME NEW e \in Entries,
             \/ \E d \in Delegations : RecordAction(e, d)
             \/ Allow(e) \/ Refuse(e) \/ Execute(e) \/ ExecuteFails(e) \/ Confirm(e)
             \/ \E done \in SUBSET StepNames : UndoOne(e, done)
      PROVE  issued' = issued
  BY <1>1 DEF RecordAction, Allow, Refuse, Execute, ExecuteFails, Confirm, UndoOne, control
<1>2. ASSUME NEW r \in Responders, NEW op, NEW d, Begin(r, op, d) PROVE issued' = issued
  BY <1>2 DEF Begin, control
<1>3. ASSUME NEW r \in Responders, Respond(r) PROVE issued' = issued
  BY <1>3 DEF Respond, Revoke, Collect, Select, CascadeReverse, CascadeSkip, Report, control
<1>4. CASE Environment \/ UNCHANGED cvars
  BY <1>4 DEF Environment, cvars, control
<1>. QED BY <1>1, <1>2, <1>3, <1>4, Zenon DEF CNext

\* So no walk of a subtree is ever left without a first grant.
LEMMA WalkKept ==
  ASSUME AuthorityInv, WalkInv, [CNext]_cvars
  PROVE  WalkInv'
<1>1. CASE issued' = issued
  BY <1>1 DEF WalkInv, ParentClosed
<1>2. ASSUME NEW d \in Delegations, SubDelegate(d) PROVE WalkInv'
  <2>1. issued' = issued \cup {d} /\ d \notin issued /\ ParentOf[d] \in issued /\ issued \subseteq Delegations
    BY <1>2 DEF SubDelegate, AuthorityInv
  <2>2. ParentClosed(issued')
    BY <2>1 DEF WalkInv, ParentClosed
  <2>3. ASSUME NEW x \in issued PROVE d \notin Chain[x]
    <3>1. \A y \in Chain[x] : x \in issued /\ ParentClosed(issued) => y \in issued
      BY <2>1 DEF Chain
    <3>. QED BY <2>1, <3>1 DEF WalkInv
  <2>4. ASSUME NEW S \in SUBSET issued', S # {} PROVE \E x \in S : Chain[x] \cap S = {x}
    <3>1. CASE S \ {d} = {}
      <4>1. S = {d} /\ d \in Chain[d]
        BY <2>4, <3>1, OwnChain
      <4>. QED BY <4>1
    <3>2. CASE S \ {d} # {}
      <4>1. PICK x \in S \ {d} : Chain[x] \cap (S \ {d}) = {x}
        BY <2>1, <3>2 DEF WalkInv
      <4>2. d \notin Chain[x]
        BY <2>1, <2>3
      <4>. QED BY <4>1, <4>2
    <3>. QED BY <3>1, <3>2
  <2>. QED BY <2>2, <2>4 DEF WalkInv
<1>. QED BY <1>1, <1>2, IssuedGrows

\* A walk that goes on has grants left.
LEMMA LeftKept ==
  ASSUME ContainmentInv, [CNext]_cvars, NEW s \in Responders, LeftInv(responder[s])
  PROVE  LeftInv(responder'[s])
<1>0. responder \in [Responders -> ResponderStates]
  BY DEF ContainmentInv
<1>1. CASE responder'[s] = responder[s]
  BY <1>1
<1>2. ASSUME NEW r \in Responders, NEW op, NEW d \in Delegations, Begin(r, op, d)
      PROVE  LeftInv(responder'[s])
  <2>. DEFINE y == [Idle EXCEPT !.op = op, !.scope = Subtree(d), !.left = Subtree(d),
                         !.stopOnError = (op = "undo_all"),
                         !.pc = IF op = "contain" THEN "revoke" ELSE "collect"]
  <2>1. Set(r, y) /\ d \in issued
    BY <1>2 DEF Begin
  <2>2. y.left = Subtree(d) /\ y.scope = Subtree(d)
    BY DEF Idle
  <2>. HIDE DEF y
  <2>3. d \in Subtree(d)
    BY <2>1, OwnChain DEF Subtree
  <2>4. LeftInv(y)
    BY <2>2, <2>3 DEF LeftInv
  <2>5. responder'[r] = y /\ (s # r => responder'[s] = responder[s])
    BY <1>0, <2>1 DEF Set
  <2>. QED BY <2>4, <2>5
<1>3. ASSUME NEW r \in Responders, Respond(r) PROVE LeftInv(responder'[s])
  <2>1. CASE r # s
    BY <1>3, <2>1, RespondMoves
  <2>2. CASE r = s
    <3>1. Moves(responder[s], responder'[s])
      BY <1>3, <2>2, RespondMoves
    <3>. QED BY <3>1 DEF Moves, LeftInv
  <2>. QED BY <2>1, <2>2
<1>4. ASSUME NEW e \in Entries, NEW done, UndoOne(e, done) PROVE LeftInv(responder'[s])
  BY <1>4 DEF UndoOne
<1>5. CASE responder' = responder
  BY <1>5
<1>. QED BY <1>2, <1>3, <1>4, <1>5, WhoMoves, Zenon

\* An entry keeps a run for each responder that has not tried it: a responder tries an
\* entry once, and single undos stay below what the responders need.
LEMMA RoomKept ==
  ASSUME ContainmentInv, [CNext]_cvars, \A s \in Responders : AccountInv(responder[s]),
         NEW e \in Entries, RoomInv(e)
  PROVE  RoomInv(e)'
<1>. DEFINE Untried == {r \in Responders : e \notin Tried(responder[r])}
            After == {r \in Responders : e \notin Tried(responder'[r])}
<1>0. /\ responder \in [Responders -> ResponderStates] /\ runs \in [Entries -> Nat] /\ MaxRuns \in Int
      /\ runs[e] \in Nat
  BY ToolsAssumption DEF ContainmentInv, JournalInv, TypeOK
<1>1. /\ IsFiniteSet(Untried) /\ IsFiniteSet(After) /\ Cardinality(Responders) \in Nat
      /\ Cardinality(Untried) \in Nat /\ Cardinality(After) \in Nat
      /\ Cardinality(Untried) <= Cardinality(Responders)
  BY FiniteAssumption, FS_Subset, FS_CardinalityType
<1>2. After \subseteq Untried => Cardinality(After) <= Cardinality(Untried)
  BY <1>1, FS_Subset
<1>3. RoomInv(e) <=> runs[e] + Cardinality(Untried) <= MaxRuns
  BY DEF RoomInv
<1>4. RoomInv(e)' <=> runs'[e] + Cardinality(After) <= MaxRuns
  BY DEF RoomInv, Tried
<1>. HIDE DEF Untried, After
<1>5. ASSUME After \subseteq Untried, runs'[e] = runs[e] PROVE RoomInv(e)'
  BY <1>0, <1>1, <1>2, <1>3, <1>4, <1>5
<1>6. CASE UNCHANGED <<responder, runs>>
  <2>1. After = Untried
    BY <1>6 DEF After, Untried
  <2>. QED BY <1>5, <1>6, <2>1
<1>7. ASSUME NEW f \in Entries, NEW done \in SUBSET StepNames, UndoOne(f, done) PROVE RoomInv(e)'
  <2>1. /\ runs' = [runs EXCEPT ![f] = @ + 1] /\ responder' = responder
        /\ runs[f] + Cardinality(Responders) < MaxRuns
    BY <1>7, Zenon DEF UndoOne, Reverse
  <2>2. After = Untried
    BY <2>1 DEF After, Untried
  <2>3. runs'[e] = IF f = e THEN runs[e] + 1 ELSE runs[e]
    BY <1>0, <2>1
  <2>4. CASE f = e
    BY <1>0, <1>1, <1>4, <2>1, <2>2, <2>3, <2>4
  <2>. QED BY <1>5, <2>2, <2>3, <2>4
<1>8. ASSUME NEW r \in Responders, NEW op, NEW d \in Delegations, Begin(r, op, d) PROVE RoomInv(e)'
  <2>1. runs' = runs /\ responder[r].pc = "idle" /\ \A s \in Responders : s # r => responder'[s] = responder[s]
    BY <1>0, <1>8 DEF Begin, Set, vars, history
  <2>2. responder[r].reversed = <<>> /\ responder[r].failed = {}
    BY <2>1 DEF ContainmentInv, ResponderInv, CascadeInv
  <2>3. Tried(responder[r]) = {}
    BY <2>2 DEF Tried, Seqs!ToSet
  <2>4. After \subseteq Untried
    BY <2>1, <2>3 DEF After, Untried
  <2>. QED BY <1>5, <2>1, <2>4
<1>9. ASSUME NEW r \in Responders, Respond(r) PROVE RoomInv(e)'
  <2>1. /\ \A s \in Responders : s # r => responder'[s] = responder[s]
        /\ Tried(responder[r]) \subseteq Tried(responder'[r])
        /\ runs' = runs \/ \E done \in SUBSET StepNames : CascadeReverse(r, done)
    BY <1>9, RespondMoves
  <2>2. After \subseteq Untried
    BY <2>1 DEF After, Untried
  <2>3. ASSUME NEW done \in SUBSET StepNames, CascadeReverse(r, done) PROVE RoomInv(e)'
    <3>. DEFINE x == responder[r]
                f == Head(x.todo)
                ok == Succeeded(PlannedSteps(journal[f]), done)
                y == [x EXCEPT !.todo = Tail(@),
                               !.reversed = IF ok THEN Append(@, f) ELSE @,
                               !.failed = IF ok THEN @ ELSE @ \cup {f},
                               !.stopped = ~ok /\ x.stopOnError]
    <3>1. x \in ResponderStates /\ x.todo # <<>> /\ Reverse(f, FALSE, done) /\ Set(r, y)
      BY <1>0, <2>3, Zenon DEF CascadeReverse, CascadeOver
    <3>2. x.todo \in Seq(Entries) /\ x.reversed \in Seq(Entries)
      BY <1>0 DEF ResponderStates
    <3>3. f \in Entries
      BY <3>1, <3>2
    <3>4. runs' = [runs EXCEPT ![f] = @ + 1]
      BY <3>1, Zenon DEF Reverse
    <3>5. runs'[e] = IF f = e THEN runs[e] + 1 ELSE runs[e]
      BY <1>0, <3>3, <3>4
    <3>6. CASE f # e
      BY <1>5, <2>2, <3>5, <3>6
    <3>7. CASE f = e
      <4>1. undone[f] = 0
        BY <3>1, <3>3, UndoIsFirst
      <4>2. f \notin Seqs!ToSet(x.reversed)
        BY <3>3, <4>1 DEF ContainmentInv, CreditInv
      <4>3. f \notin x.failed
        <5>1. 1 \in DOMAIN x.todo /\ f = x.todo[1]
          BY <3>1, <3>2
        <5>. QED BY <5>1 DEF AccountInv
      <4>4. r \in Untried
        BY <3>7, <4>2, <4>3 DEF Untried, Tried
      <4>. HIDE DEF ok
      <4>5. /\ y.reversed = (IF ok THEN Append(x.reversed, f) ELSE x.reversed)
            /\ y.failed = (IF ok THEN x.failed ELSE x.failed \cup {f})
        BY <3>1 DEF ResponderStates
      <4>6. responder'[r] = y
        BY <1>0, <3>1 DEF Set
      <4>. HIDE DEF y, x, f
      <4>7. Seqs!ToSet(Append(x.reversed, f)) = Seqs!ToSet(x.reversed) \cup {f}
        BY <3>2, <3>3, AppendHolds
      <4>8. f \in Tried(y)
        BY <4>5, <4>7 DEF Tried
      <4>9. After \subseteq Untried \ {r}
        BY <2>2, <3>7, <4>6, <4>8 DEF After
      <4>10. Cardinality(Untried \ {r}) = Cardinality(Untried) - 1 /\ IsFiniteSet(Untried \ {r})
        BY <1>1, <4>4, FS_RemoveElement
      <4>11. Cardinality(After) <= Cardinality(Untried \ {r})
        BY <4>9, <4>10, FS_Subset
      <4>12. Cardinality(After) <= Cardinality(Untried) - 1
        BY <4>10, <4>11
      <4>. QED BY <1>0, <1>1, <1>3, <1>4, <3>5, <3>7, <4>12
    <3>. QED BY <3>6, <3>7
  <2>. QED BY <1>5, <2>1, <2>2, <2>3
<1>. QED BY <1>6, <1>7, <1>8, <1>9, WhoMoves

\* A responder that is under way can take its next step.
LEMMA CanGoOn ==
  ASSUME ContainmentInv, ProgressInv, NEW r \in Responders, AccountInv(responder[r]), Underway(r)
  PROVE  CanRespond(r)
<1>. DEFINE x == responder[r]
            e == Head(x.todo)
<1>1. x \in ResponderStates /\ ResponderInv(r) /\ LeftInv(x)
  BY DEF ContainmentInv, ProgressInv
<1>2. ASSUME x.pc \in {"revoke", "collect"} PROVE \E d \in Delegations : NextInWalk(x, d)
  <2>1. x.left # {} /\ x.left \subseteq issued /\ x.left \subseteq Delegations
    BY <1>1, <1>2 DEF LeftInv, ResponderInv, ResponderStates
  <2>2. PICK d \in x.left : Chain[d] \cap x.left = {d}
    BY <2>1 DEF ProgressInv, WalkInv
  <2>. QED BY <2>1, <2>2 DEF NextInWalk
<1>3. CASE x.pc = "revoke"
  BY <1>2, <1>3 DEF CanRespond
<1>4. CASE x.pc = "collect"
  <2>1. PICK d \in Delegations : NextInWalk(x, d)
    BY <1>2, <1>4
  <2>2. RecordedUnder(d) # {}
    BY SomeRecorded
  <2>. QED BY <1>4, <2>1, <2>2 DEF CanRespond
<1>5. CASE x.pc = "select"
  <2>1. LiveNewestFirst(x.wanted) # {}
    BY <1>1, SomeOrder DEF ResponderStates
  <2>. QED BY <1>5, <2>1 DEF CanRespond
<1>6. CASE x.pc = "cascade"
  <2>. SUFFICES ASSUME x.todo # <<>>, HasLiveUndo(journal[e]), ~IsExpired(journal[e]),
                       GatesOpen(journal[e])
                PROVE  CanReverse(e, FALSE, {})
    BY <1>6, Zenon DEF CanRespond, CascadeOver, Refuses, FindsExpired
  <2>1. x.todo \in Seq(Entries)
    BY <1>1 DEF ResponderStates
  <2>2. e \in Entries /\ 1 \in DOMAIN x.todo /\ e = x.todo[1]
    BY <2>1
  <2>. HIDE DEF e
  <2>3. undone[e] = 0
    <3>1. /\ undone[e] \in Nat /\ commits[e] \in Nat /\ AgentInv(e)
      BY <2>2 DEF ContainmentInv, JournalInv, TypeOK
    <3>2. undone[e] < commits[e]
      BY <2>2 DEF ContainmentInv, JournalInv, HasLiveUndo
    <3>. QED BY <3>1, <3>2 DEF AgentInv
  <2>4. e \notin Tried(x)
    <3>1. e \notin Seqs!ToSet(x.reversed)
      BY <2>2, <2>3 DEF ContainmentInv, CreditInv
    <3>. QED BY <2>2, <3>1 DEF Tried, AccountInv
  <2>5. runs[e] < MaxRuns
    <3>. DEFINE Untried == {s \in Responders : e \notin Tried(responder[s])}
    <3>1. runs[e] + Cardinality(Untried) <= MaxRuns
      BY <2>2 DEF ProgressInv, RoomInv
    <3>2. r \in Untried
      BY <2>4
    <3>3. IsFiniteSet(Untried)
      BY FiniteAssumption, FS_Subset
    <3>. HIDE DEF Untried
    <3>4. Cardinality(Untried) \in Nat /\ Cardinality(Untried) # 0
      BY <3>2, <3>3, FS_CardinalityType, FS_EmptySet
    <3>5. runs[e] \in Nat /\ MaxRuns \in Nat
      BY <2>2, ToolsAssumption DEF ContainmentInv, JournalInv, TypeOK
    <3>. QED BY <3>1, <3>4, <3>5
  <2>6. Executable(journal[e], {})
    BY DEF Executable
  <2>. QED BY <2>5, <2>6 DEF CanReverse
<1>7. x.pc \in {"revoke", "collect", "select", "cascade"}
  BY <1>1 DEF Underway, ResponderStates
<1>. QED BY <1>3, <1>4, <1>5, <1>6, <1>7

LEMMA ProgressInit == CInit => (\A s \in Responders : AccountInv(responder[s])) /\ ProgressInv
<1>. SUFFICES ASSUME CInit PROVE (\A s \in Responders : AccountInv(responder[s])) /\ ProgressInv
  OBVIOUS
<1>1. \A s \in Responders : responder[s] = Idle
  BY DEF CInit
<1>2. AccountInv(Idle)
  <2>1. Len(<<>>) = 0 /\ DOMAIN <<>> = {} /\ Cardinality({}) = 0 /\ IsFiniteSet({})
    BY FS_EmptySet
  <2>. QED BY <2>1 DEF AccountInv, Idle
<1>3. LeftInv(Idle)
  BY DEF LeftInv, Idle
<1>4. WalkInv
  <2>1. issued = {d \in Delegations : ParentOf[d] = d}
    BY DEF CInit
  <2>2. ParentClosed(issued)
    BY <2>1 DEF ParentClosed
  <2>3. ASSUME NEW d \in issued PROVE Chain[d] = {d}
    <3>1. {d} \in SUBSET Delegations /\ d \in {d} /\ ParentClosed({d})
      BY <2>1 DEF ParentClosed
    <3>2. Chain[d] \subseteq {d}
      BY <2>1, <3>1 DEF Chain
    <3>3. d \in Chain[d]
      BY <2>1, OwnChain
    <3>. QED BY <3>2, <3>3
  <2>. QED BY <2>2, <2>3 DEF WalkInv
<1>5. ASSUME NEW e \in Entries PROVE RoomInv(e)
  <2>1. runs[e] = 0 /\ MaxRuns \in Nat
    BY ToolsAssumption DEF CInit, Init
  <2>2. Cardinality({r \in Responders : e \notin Tried(responder[r])}) <= Cardinality(Responders)
    BY FiniteAssumption, FS_Subset
  <2>3. /\ Cardinality({r \in Responders : e \notin Tried(responder[r])}) \in Nat
        /\ Cardinality(Responders) \in Nat
    BY FiniteAssumption, FS_Subset, FS_CardinalityType
  <2>. QED BY <2>1, <2>2, <2>3, FiniteAssumption DEF RoomInv
<1>. QED BY <1>1, <1>2, <1>3, <1>4, <1>5 DEF ProgressInv

\* A containment ends whatever anyone else does (ControlPlane.contain, undo_all and
\* ReversalEngine.reverse_cascade): each responder can always take its next step, every
\* step that moves it leaves it fewer, at most twice the grants, the entries and two, and
\* what it selected is still to do or in its report, in one place and once.
THEOREM CascadesAlwaysEnd == CSpec => CascadesEnd
<1>. DEFINE Accounts == \A s \in Responders : AccountInv(responder[s])
            Free == \A r \in Responders : Underway(r) => CanRespond(r)
            Nearer == \A r \in Responders :
                        Underway(r) /\ responder'[r] # responder[r] =>
                          StepsToGo(responder'[r]) < StepsToGo(responder[r])
<1>1. CInit => Accounts /\ ProgressInv
  BY ProgressInit
<1>2. ContainmentInv /\ ContainmentInv' /\ Accounts /\ [CNext]_cvars => Accounts'
  BY AccountKept
<1>3. ContainmentInv /\ Accounts /\ ProgressInv /\ [CNext]_cvars => ProgressInv'
  <2>. SUFFICES ASSUME ContainmentInv, Accounts, ProgressInv, [CNext]_cvars PROVE ProgressInv'
    OBVIOUS
  <2>1. WalkInv'
    BY WalkKept DEF ContainmentInv, ProgressInv
  <2>2. \A s \in Responders : LeftInv(responder'[s])
    BY LeftKept DEF ProgressInv
  <2>3. \A e \in Entries : RoomInv(e)'
    BY RoomKept DEF ProgressInv
  <2>4. \A s \in Responders : LeftInv(responder[s])'
    BY <2>2 DEF LeftInv
  <2>. QED BY <2>1, <2>3, <2>4 DEF ProgressInv
<1>4. ContainmentInv /\ Accounts => CascadeIsAccounted
  BY DEF ContainmentInv, ResponderInv, CascadeInv, AccountInv, CascadeIsAccounted
<1>5. ContainmentInv /\ Accounts /\ ProgressInv => Free
  BY CanGoOn
<1>6. ContainmentInv /\ ContainmentInv' /\ Accounts' /\ ProgressInv /\ [CNext]_cvars => [Nearer]_cvars
  <2>. SUFFICES ASSUME ContainmentInv, ContainmentInv', Accounts', ProgressInv, CNext,
                       NEW r \in Responders, Underway(r), responder'[r] # responder[r]
                PROVE  StepsToGo(responder'[r]) < StepsToGo(responder[r])
    OBVIOUS
  <2>1. responder[r] \in ResponderStates /\ responder'[r] \in ResponderStates
    BY DEF ContainmentInv, ResponderStates
  <2>2. AccountInv(responder'[r]) /\ LeftInv(responder[r])
    BY DEF ProgressInv, AccountInv
  <2>3. Moves(responder[r], responder'[r])
    <3>1. ASSUME NEW s \in Responders, NEW op, NEW d, Begin(s, op, d) PROVE FALSE
      <4>1. responder[s].pc = "idle" /\ (s # r => responder'[r] = responder[r])
        BY <3>1 DEF Begin, Set, ContainmentInv
      <4>. QED BY <4>1 DEF Underway
    <3>2. PICK s \in Responders : Respond(s)
      BY <3>1, WhoMoves DEF UndoOne
    <3>3. s = r
      BY <3>2, RespondMoves
    <3>. QED BY <3>2, <3>3, RespondMoves
  <2>. QED BY <2>1, <2>2, <2>3, MovesAreNearer
<1>. HIDE DEF Accounts, Free, Nearer
<1>7. CSpec => []CascadeIsAccounted /\ []Free /\ [][Nearer]_cvars
  BY <1>1, <1>2, <1>3, <1>4, <1>5, <1>6, ContainmentInvariant, PTL DEF CSpec
<1>. QED BY <1>7 DEF CascadesEnd, Free, Nearer

-----------------------------------------------------------------------------
(* The workspace.                                                          *)

Contents == Entries \cup {"old", "absent"}

WTypeOK ==
  /\ TypeOK
  /\ command \in [Entries -> Commands]
  /\ shell \in [Entries -> [at : Nat \ {0}, cwd : Dirs]]
  /\ disk \in [Files -> Contents]
  /\ index \subseteq InRoot
  /\ DOMAIN trees = Entries
  /\ \/ restoring = NotRestoring
     \/ restoring \in [entry : Entries, present : SUBSET InRoot, step : {"listed", "checked out"}]
  /\ before \in [Entries -> [Files -> Contents]]
  /\ calm \in Entries \cup {Nobody} /\ listedUnder \in Contents
  /\ events \in Seq({"snapshot", "commit", "undo", "half undo"} \X Entries)

\* What is undone was journaled, and what is journaled was snapshotted.
JournaledInv ==
  \A e \in Entries :
    /\ journal[e].tool = ClassifyCommand(command[e])
    /\ journal[e].state # "none" => Happened("snapshot", e) /\ journal[e].kind = KindOf(journal[e].tool)
    /\ Happened("undo", e) => journal[e].state = "reversed"

\* The tree of a local command is what git sees of the disk of that time.
TreesInv ==
  \A e \in Entries :
    trees[e] = IF Happened("snapshot", e) /\ journal[e].tool = "local"
               THEN [f \in {g \in Unignored(before[e]) : before[e][g] # "absent"} |-> before[e][f]]
               ELSE NoTree

\* A command writes after its snapshot, so what a snapshot holds of it was taken later.
OriginInv ==
  \A e \in Entries, f \in Files :
    /\ disk[f] = e => Happened("snapshot", e)
    /\ before[e][f] # e
    /\ \A x \in Entries :
         Happened("snapshot", x) /\ before[x][f] = e => Before(<<"snapshot", e>>, <<"snapshot", x>>)

\* What a restore owes that began on a disk b and listed the files under a rule file v.
Owed(b, v) == {f \in Unignored(b) : b[f] # "absent" \/ f \notin Rules[v]}

\* A restore in progress: what it has yet to take away was present when it began.
RestoringInv ==
  restoring.step # "none" =>
    LET e == restoring.entry
        waiting == IF restoring.step = "listed" THEN restoring.present ELSE Created
    IN /\ HasLiveUndo(journal[e])
       /\ calm \in {e, Nobody}
       /\ restoring.present # {} => \A f \in Coverable : disk[f] = e => f \in waiting
       /\ calm = e =>
            IF restoring.step = "listed"
            THEN \A f \in InRoot \ Rules[listedUnder] : f \in waiting \/ disk[f] = "absent"
            ELSE \A f \in Owed(before[e], listedUnder) : f \in waiting \/ disk[f] = before[e][f]

CalmInv ==
  calm \in Entries =>
    /\ Happened("snapshot", calm)
    /\ restoring.step = "none" => \A f \in Owed(before[calm], listedUnder) : disk[f] = before[calm][f]

\* A command planned after e and before its undo, whose restore began or ended since.
Spoiled(e) ==
  \E x \in Entries :
    /\ Before(<<"snapshot", e>>, <<"snapshot", x>>) /\ Before(<<"snapshot", x>>, <<"undo", e>>)
    /\ runs[x] > 0 \/ restoring.entry = x
    /\ ~Before(<<"undo", x>>, <<"undo", e>>)

\* Unless that happened, no file and no later snapshot holds what an undone command wrote.
GoneInv ==
  \A e \in Entries : Happened("undo", e) /\ ~Spoiled(e) =>
    \A f \in Coverable :
      /\ disk[f] # e
      /\ \A x \in Entries : Before(<<"undo", e>>, <<"snapshot", x>>) => before[x][f] # e

WorkspaceInv ==
  WTypeOK /\ JournaledInv /\ TreesInv /\ OriginInv /\ RestoringInv /\ CalmInv /\ GoneInv

-----------------------------------------------------------------------------
(* Steps.                                                                  *)

\* The reaches, and what can be undone of them.
LEMMA ToolKinds ==
  ASSUME NEW t \in Tools
  PROVE  KindOf(t) \in Kinds /\ SpecOf[t].kind = KindOf(t) /\ (IsUndoable(KindOf(t)) <=> t = "local")
<1>1. t \in {"read_only", "local", "unknown", "escapes"}
  BY WorkspaceAssumption DEF Reaches
<1>2. SpecOf[t].kind = KindOf(t)
  BY WorkspaceAssumption
<1>. QED BY <1>1, <1>2 DEF KindOf, Kinds, IsUndoable

\* A restore is of an entry.
LEMMA StepOf ==
  ASSUME WTypeOK
  PROVE  /\ restoring.step # "none" => /\ restoring.entry \in Entries /\ restoring.present \subseteq InRoot
                                      /\ restoring.step \in {"listed", "checked out"}
         /\ restoring.step = "none" => restoring = NotRestoring
         /\ NotRestoring.step = "none" /\ NotRestoring.entry = Nobody /\ Nobody \notin Entries
<1>1. NotRestoring.step = "none" /\ NotRestoring.entry = Nobody
  BY DEF NotRestoring
<1>2. Nobody \notin Entries
  BY WorkspaceAssumption DEF Nobody
<1>3. \/ restoring = NotRestoring
      \/ restoring \in [entry : Entries, present : SUBSET InRoot, step : {"listed", "checked out"}]
  BY DEF WTypeOK
<1>4. CASE restoring = NotRestoring
  BY <1>1, <1>2, <1>4
<1>5. CASE restoring \in [entry : Entries, present : SUBSET InRoot, step : {"listed", "checked out"}]
  BY <1>1, <1>2, <1>5
<1>. QED BY <1>3, <1>4, <1>5

\* A file that no rules match is seen under any of them.
LEMMA CoverableIsSeen ==
  ASSUME WTypeOK
  PROVE  /\ Coverable \subseteq InRoot /\ InRoot \subseteq Files /\ RuleFile \in Files
         /\ Coverable \subseteq Unignored(disk)
         /\ \A e \in Entries : Coverable \subseteq Unignored(before[e])
<1>1. Coverable \subseteq InRoot /\ InRoot \subseteq Files
  BY DEF Coverable, InRoot
<1>2. RuleFile \in Files /\ DOMAIN Rules = Contents
  BY WorkspaceAssumption DEF Contents
<1>3. \A v \in Contents, f \in Coverable : f \notin Rules[v]
  BY <1>2 DEF Coverable
<1>4. disk \in [Files -> Contents] /\ \A e \in Entries : before[e] \in [Files -> Contents]
  BY DEF WTypeOK
<1>. HIDE DEF Contents
<1>5. disk[RuleFile] \in Contents /\ \A e \in Entries : before[e][RuleFile] \in Contents
  BY <1>2, <1>4
<1>. QED BY <1>1, <1>2, <1>3, <1>5 DEF Unignored

\* What a live undo is: of a local command, which was snapshotted and not undone, by one step.
LEMMA LiveIs ==
  ASSUME WTypeOK, JournaledInv, NEW e \in Entries, HasLiveUndo(journal[e])
  PROVE  /\ journal[e].state \in {"committed", "reversal_failed"} /\ journal[e].tool = "local"
         /\ Happened("snapshot", e) /\ ~Happened("undo", e)
         /\ DOMAIN PlannedSteps(journal[e]) = {1}
<1>1. journal[e].state \in {"committed", "reversal_failed"} /\ IsUndoable(journal[e].kind)
  BY DEF HasLiveUndo
<1>2. journal[e].tool \in Tools
  BY DEF WTypeOK, TypeOK, JournalEntries
<1>3. Happened("snapshot", e) /\ journal[e].kind = KindOf(journal[e].tool) /\ ~Happened("undo", e)
  BY <1>1 DEF JournaledInv
<1>4. journal[e].tool = "local"
  BY <1>1, <1>2, <1>3, ToolKinds
<1>5. PlannedSteps(journal[e]) = SpecOf["local"].steps
  BY <1>1, <1>4 DEF PlannedSteps
<1>. QED BY <1>1, <1>3, <1>4, <1>5, WorkspaceAssumption

\* What the workspace does to the journal, the engine allows.
LEMMA WorkspaceSteps ==
  ASSUME WTypeOK, GNext
  PROVE  Next \/ UNCHANGED vars
<1>1. ASSUME NEW e \in Entries, NEW captured \in BOOLEAN, Guard(e, captured) PROVE Next
  <2>1. journal[e].tool \in Tools
    BY DEF WTypeOK, TypeOK, JournalEntries
  <2>2. KindOf(journal[e].tool) \in Kinds
    BY <2>1, ToolKinds
  <2>3. OpenJournal(e, captured, KindOf(journal[e].tool))
    BY <1>1 DEF Guard
  <2>. QED BY <2>2, <2>3 DEF Next
<1>2. ASSUME NEW e \in Entries, ConfirmCommand(e) PROVE Next
  BY <1>2 DEF ConfirmCommand, Next
<1>3. ASSUME NEW e \in Entries, RestoreFails(e) PROVE Next
  <2>1. {} \in SUBSET StepNames /\ Reverse(e, FALSE, {})
    BY <1>3 DEF RestoreFails
  <2>. QED BY <2>1 DEF Next
<1>4. ASSUME RestoreRemove PROVE Next
  <2>1. restoring.entry \in Entries
    BY <1>4, StepOf DEF RestoreRemove
  <2>2. Reverse(restoring.entry, FALSE, {1})
    BY <1>4 DEF RestoreRemove
  <2>3. journal[restoring.entry].tool \in Tools
    BY <2>1 DEF WTypeOK, TypeOK, JournalEntries
  <2>4. 1 \in DOMAIN PlannedSteps(journal[restoring.entry])
    BY <2>2 DEF Reverse, CanReverse, Executable
  <2>5. 1 \in StepNames
    <3>1. PlannedSteps(journal[restoring.entry]) = <<>> \/
          PlannedSteps(journal[restoring.entry]) = SpecOf[journal[restoring.entry].tool].steps
      BY DEF PlannedSteps
    <3>. QED BY <2>3, <2>4, <3>1, SpecTypes
  <2>. QED BY <2>1, <2>2, <2>5 DEF Next
<1>5. ASSUME NEW e \in Entries, Snapshot(e) PROVE UNCHANGED vars
  BY <1>5 DEF Snapshot
<1>6. ASSUME NEW e \in Entries, NEW skip, NEW written, NEW deleted, RunFragment(e, skip, written, deleted)
      PROVE  UNCHANGED vars
  BY <1>6 DEF RunFragment
<1>7. ASSUME NEW e \in Entries, NEW list, RestoreBegin(e, list) PROVE UNCHANGED vars
  BY <1>7 DEF RestoreBegin
<1>8. ASSUME NEW f \in Files, Stage(f) PROVE UNCHANGED vars
  BY <1>8 DEF Stage
<1>9. ASSUME RestoreCheckout PROVE UNCHANGED vars
  BY <1>9 DEF RestoreCheckout
<1>. QED BY <1>1, <1>2, <1>3, <1>4, <1>5, <1>6, <1>7, <1>8, <1>9 DEF GNext

\* The order of events when one is added.
LEMMA Logged ==
  ASSUME NEW S, events \in Seq(S), NEW what, NEW e, <<what, e>> \in S, Log(what, e)
  PROVE  /\ \A w, x : Happened(w, x)' <=> Happened(w, x) \/ <<w, x>> = <<what, e>>
         /\ \A a, b : Before(a, b)' <=> Before(a, b) \/ (b = <<what, e>> /\ \E i \in DOMAIN events : events[i] = a)
<1>. DEFINE n == Len(events)
            ev == <<what, e>>
<1>1. n \in Nat /\ DOMAIN events = 1 .. n
  OBVIOUS
<1>2. /\ DOMAIN events' = 1 .. n + 1
      /\ events'[n + 1] = ev
      /\ \A i \in 1 .. n : events'[i] = events[i]
  BY <1>1 DEF Log
<1>. HIDE DEF n, ev
<1>3. \A i : i \in 1 .. n + 1 <=> i \in 1 .. n \/ i = n + 1
  BY <1>1
<1>4. ASSUME NEW w, NEW x PROVE Happened(w, x)' <=> Happened(w, x) \/ <<w, x>> = ev
  BY <1>1, <1>2, <1>3 DEF Happened
<1>5. ASSUME NEW a, NEW b
      PROVE  Before(a, b)' <=> Before(a, b) \/ (b = ev /\ \E i \in DOMAIN events : events[i] = a)
  <2>1. \A i, j \in 1 .. n + 1 : i < j => i \in 1 .. n
    BY <1>1
  <2>2. \A i \in 1 .. n : i < n + 1
    BY <1>1
  <2>. QED BY <1>1, <1>2, <1>3, <2>1, <2>2 DEF Before
<1>. QED BY <1>4, <1>5 DEF ev

\* Where a fragment leads.
LEMMA DirTypes ==
  ASSUME NEW cwd \in Dirs, NEW f \in Fragments
  PROVE  MovesTo(cwd, f) \subseteq Dirs
<1>1. \A s \in Spellings : LeadsTo(cwd, s) \subseteq Dirs
  BY DEF LeadsTo, Spellings, Dirs
<1>2. f.args \subseteq Spellings /\ "down" \in Spellings
  BY DEF Fragments, Spellings
<1>3. "above" \in Dirs
  BY DEF Dirs
<1>. DEFINE there == IF f.args = {} THEN {"above"}
                     ELSE UNION {LeadsTo(cwd, IF a = "name" THEN "down" ELSE a) : a \in f.args}
<1>4. there \subseteq Dirs
  BY <1>1, <1>2, <1>3
<1>5. MovesTo(cwd, f) = IF f.behind = {}
                        THEN IF f.program = "navigator" THEN there ELSE {cwd}
                        ELSE {cwd} \cup (IF "navigator" \in f.behind \cup {f.program} THEN there ELSE {})
  BY DEF MovesTo
<1>. HIDE DEF there
<1>. QED BY <1>4, <1>5

\* What a tree holds.
LEMMA TreeIs ==
  ASSUME TreesInv, NEW e \in Entries
  PROVE  /\ DOMAIN trees[e] \subseteq InRoot /\ InRoot \subseteq Files
         /\ \A f \in DOMAIN trees[e] : trees[e][f] = before[e][f]
         /\ Happened("snapshot", e) /\ journal[e].tool = "local" =>
              \A f \in Unignored(before[e]) : f \in DOMAIN trees[e] <=> before[e][f] # "absent"
<1>. DEFINE local == Happened("snapshot", e) /\ journal[e].tool = "local"
            S == {g \in Unignored(before[e]) : before[e][g] # "absent"}
<1>1. trees[e] = IF local THEN [f \in S |-> before[e][f]] ELSE NoTree
  BY DEF TreesInv
<1>2. Unignored(before[e]) \subseteq InRoot /\ InRoot \subseteq Files
  BY DEF Unignored, InRoot
<1>3. CASE local
  BY <1>1, <1>2, <1>3
<1>4. CASE ~local
  BY <1>1, <1>2, <1>4 DEF NoTree
<1>. QED BY <1>3, <1>4

LEMMA WorkspaceTypes ==
  ASSUME WTypeOK, TreesInv, GNext
  PROVE  WTypeOK'
<1>. DEFINE Pairs == {"snapshot", "commit", "undo", "half undo"} \X Entries
            During == [entry : Entries, present : SUBSET InRoot, step : {"listed", "checked out"}]
<1>1. TypeOK'
  <2>1. TypeOK /\ [Next]_vars
    BY WorkspaceSteps DEF WTypeOK
  <2>. QED BY <2>1, TypeNext
<1>2. ASSUME command' \in [Entries -> Commands], shell' \in [Entries -> [at : Nat \ {0}, cwd : Dirs]],
             disk' \in [Files -> Contents], index' \subseteq InRoot, DOMAIN trees' = Entries,
             restoring' = NotRestoring \/ restoring' \in During,
             before' \in [Entries -> [Files -> Contents]], calm' \in Entries \cup {Nobody},
             listedUnder' \in Contents, events' \in Seq(Pairs)
      PROVE  WTypeOK'
  BY <1>1, <1>2 DEF WTypeOK, InRoot, NotRestoring, Contents, Nobody
<1>3. /\ command \in [Entries -> Commands] /\ shell \in [Entries -> [at : Nat \ {0}, cwd : Dirs]]
      /\ disk \in [Files -> Contents] /\ index \subseteq InRoot /\ DOMAIN trees = Entries
      /\ restoring = NotRestoring \/ restoring \in During
      /\ before \in [Entries -> [Files -> Contents]] /\ calm \in Entries \cup {Nobody} /\ listedUnder \in Contents
      /\ events \in Seq(Pairs)
  BY DEF WTypeOK
<1>4. ASSUME NEW what \in {"snapshot", "commit", "undo", "half undo"}, NEW e \in Entries, Log(what, e)
      PROVE  events' \in Seq(Pairs)
  <2>1. <<what, e>> \in Pairs
    OBVIOUS
  <2>. DEFINE ev == <<what, e>>
  <2>2. events' = Append(events, ev)
    BY <1>4 DEF Log
  <2>. HIDE DEF Pairs, ev
  <2>3. events \in Seq(Pairs) /\ ev \in Pairs
    BY <1>3, <2>1 DEF ev
  <2>4. \A s \in Seq(Pairs), x \in Pairs : Append(s, x) \in Seq(Pairs)
    BY AppendProperties
  <2>. QED BY <2>2, <2>3, <2>4
<1>. HIDE DEF Pairs, During
<1>5. ASSUME NEW e \in Entries, Snapshot(e) PROVE WTypeOK'
  <2>1. events' \in Seq(Pairs)
    BY <1>4, <1>5 DEF Snapshot
  <2>2. DOMAIN trees' = Entries
    BY <1>3, <1>5 DEF Snapshot
  <2>3. before' \in [Entries -> [Files -> Contents]]
    BY <1>3, <1>5 DEF Snapshot
  <2>. QED BY <1>2, <1>3, <1>5, <2>1, <2>2, <2>3 DEF Snapshot
<1>6. ASSUME NEW e \in Entries, NEW captured \in BOOLEAN, Guard(e, captured) PROVE WTypeOK'
  BY <1>2, <1>3, <1>6 DEF Guard, workspace, ghosts
<1>7. ASSUME NEW e \in Entries, NEW skip \in BOOLEAN, NEW written \in SUBSET Files, NEW deleted,
             RunFragment(e, skip, written, deleted)
      PROVE  WTypeOK'
  <2>1. disk' \in [Files -> Contents]
    <3>1. disk' = [x \in Files |-> IF x \in deleted THEN "absent" ELSE IF x \in written THEN e ELSE disk[x]]
      BY <1>7 DEF RunFragment
    <3>. QED BY <1>3, <3>1 DEF Contents
  <2>2. calm' \in Entries \cup {Nobody}
    BY <1>3, <1>7 DEF RunFragment
  <2>3. shell' \in [Entries -> [at : Nat \ {0}, cwd : Dirs]]
    <3>. DEFINE f == command[e][shell[e].at]
    <3>1. f \in Fragments
      <4>1. command[e] \in Seq(Fragments)
        BY <1>3, WorkspaceAssumption
      <4>2. shell[e].at \in Nat \ {0}
        BY <1>3
      <4>3. shell[e].at <= Len(command[e])
        BY <1>7 DEF RunFragment
      <4>. QED BY <4>1, <4>2, <4>3
    <3>2. shell[e].cwd \in Dirs /\ shell[e].at + 1 \in Nat \ {0}
      BY <1>3
    <3>3. PICK cwd \in (IF skip \/ f.body = "heredoc" THEN {shell[e].cwd} ELSE MovesTo(shell[e].cwd, f)) :
            shell' = [shell EXCEPT ![e] = [at |-> @.at + 1, cwd |-> cwd]]
      BY <1>7 DEF RunFragment
    <3>4. cwd \in Dirs
      BY <3>1, <3>2, <3>3, DirTypes
    <3>. QED BY <1>3, <3>2, <3>3, <3>4
  <2>. QED BY <1>2, <1>3, <1>7, <2>1, <2>2, <2>3 DEF RunFragment
<1>8. ASSUME NEW e \in Entries, ConfirmCommand(e) PROVE WTypeOK'
  <2>1. events' \in Seq(Pairs)
    BY <1>4, <1>8 DEF ConfirmCommand
  <2>. QED BY <1>2, <1>3, <1>8, <2>1 DEF ConfirmCommand, workspace
<1>9. ASSUME NEW e \in Entries, RestoreFails(e) PROVE WTypeOK'
  BY <1>2, <1>3, <1>9 DEF RestoreFails
<1>10. ASSUME NEW e \in Entries, NEW list \in BOOLEAN, RestoreBegin(e, list) PROVE WTypeOK'
  <2>1. Listed \subseteq InRoot /\ disk[RuleFile] \in Contents
    BY <1>3, WorkspaceAssumption DEF Listed, Unignored
  <2>2. restoring' \in During
    BY <1>10, <2>1 DEF RestoreBegin, During
  <2>3. calm' \in Entries \cup {Nobody}
    BY <1>10 DEF RestoreBegin
  <2>. QED BY <1>2, <1>3, <1>10, <2>1, <2>2, <2>3 DEF RestoreBegin
<1>11. ASSUME NEW f \in Files, Stage(f) PROVE WTypeOK'
  BY <1>2, <1>3, <1>11 DEF Stage, ghosts
<1>12. ASSUME RestoreCheckout PROVE WTypeOK'
  <2>1. restoring' \in During
    <3>1. restoring \in During
      BY <1>3, <1>12, StepOf DEF RestoreCheckout
    <3>. QED BY <1>12, <3>1 DEF RestoreCheckout, During
  <2>2. disk' \in [Files -> Contents]
    <3>. DEFINE tree == trees[restoring.entry]
    <3>1. restoring.entry \in Entries
      BY <1>12, StepOf DEF RestoreCheckout
    <3>2. \A f \in DOMAIN tree : f \in Files /\ tree[f] = before[restoring.entry][f]
      BY <3>1, TreeIs
    <3>3. disk' = [f \in Files |-> IF f \in DOMAIN tree THEN tree[f] ELSE disk[f]]
      BY <1>12 DEF RestoreCheckout
    <3>. HIDE DEF tree
    <3>. QED BY <1>3, <3>1, <3>2, <3>3
  <2>. QED BY <1>2, <1>3, <1>12, <2>1, <2>2 DEF RestoreCheckout, ghosts
<1>13. ASSUME RestoreRemove PROVE WTypeOK'
  <2>1. restoring.entry \in Entries
    BY <1>13, StepOf DEF RestoreRemove
  <2>2. events' \in Seq(Pairs)
    BY <1>4, <1>13, <2>1 DEF RestoreRemove
  <2>3. disk' \in [Files -> Contents]
    <3>1. disk' = [f \in Files |-> IF f \in Created THEN "absent" ELSE disk[f]]
      BY <1>13 DEF RestoreRemove
    <3>. QED BY <1>3, <3>1 DEF Contents
  <2>. QED BY <1>2, <1>3, <1>13, <2>2, <2>3 DEF RestoreRemove
<1>. QED BY <1>5, <1>6, <1>7, <1>8, <1>9, <1>10, <1>11, <1>12, <1>13 DEF GNext

\* A step that opens, commits or undoes an entry changes no other, and no tool.
LEMMA EntryMoves ==
  ASSUME WTypeOK, NEW e \in Entries, NEW x \in JournalEntries, x.tool = journal[e].tool,
         journal' = [journal EXCEPT ![e] = x]
  PROVE  /\ journal'[e] = x
         /\ \A d \in Entries : journal'[d].tool = journal[d].tool
         /\ \A d \in Entries : d # e => journal'[d] = journal[d]
BY DEF WTypeOK, TypeOK

\* No step changes a text; snapshots alone change what was captured, and snapshots,
\* commits and undos are the events.
LEMMA WhatSteps ==
  ASSUME GNext
  PROVE  /\ command' = command
         /\ (\E e \in Entries : Snapshot(e)) \/ (before' = before /\ trees' = trees)
         /\ \/ events' = events
            \/ \E e \in Entries : Snapshot(e) /\ Log("snapshot", e)
            \/ \E e \in Entries : Log("commit", e)
            \/ RestoreRemove /\ \E what \in {"undo", "half undo"} : Log(what, restoring.entry)
<1>1. ASSUME NEW e \in Entries, Snapshot(e) PROVE command' = command /\ Log("snapshot", e)
  BY <1>1 DEF Snapshot
<1>2. ASSUME NEW e \in Entries, NEW captured, Guard(e, captured)
      PROVE  command' = command /\ before' = before /\ trees' = trees /\ events' = events
  BY <1>2 DEF Guard, workspace, ghosts
<1>3. ASSUME NEW e \in Entries, NEW skip, NEW written, NEW deleted, RunFragment(e, skip, written, deleted)
      PROVE  command' = command /\ before' = before /\ trees' = trees /\ events' = events
  BY <1>3 DEF RunFragment
<1>4. ASSUME NEW e \in Entries, ConfirmCommand(e)
      PROVE  command' = command /\ before' = before /\ trees' = trees /\ Log("commit", e)
  BY <1>4 DEF ConfirmCommand, workspace
<1>5. ASSUME NEW e \in Entries, RestoreFails(e)
      PROVE  command' = command /\ before' = before /\ trees' = trees /\ events' = events
  BY <1>5 DEF RestoreFails
<1>6. ASSUME NEW e \in Entries, NEW list, RestoreBegin(e, list)
      PROVE  command' = command /\ before' = before /\ trees' = trees /\ events' = events
  BY <1>6 DEF RestoreBegin
<1>7. ASSUME NEW f \in Files, Stage(f)
      PROVE  command' = command /\ before' = before /\ trees' = trees /\ events' = events
  BY <1>7 DEF Stage, ghosts
<1>8. ASSUME RestoreCheckout
      PROVE  command' = command /\ before' = before /\ trees' = trees /\ events' = events
  BY <1>8 DEF RestoreCheckout, ghosts
<1>9. ASSUME RestoreRemove
      PROVE  /\ command' = command /\ before' = before /\ trees' = trees
             /\ \E what \in {"undo", "half undo"} : Log(what, restoring.entry)
  BY <1>9 DEF RestoreRemove
<1>. QED BY <1>1, <1>2, <1>3, <1>4, <1>5, <1>6, <1>7, <1>8, <1>9 DEF GNext

LEMMA JournaledKept ==
  ASSUME WTypeOK, JournaledInv, GNext
  PROVE  JournaledInv' /\ \A e \in Entries : journal'[e].tool = journal[e].tool
<1>. DEFINE Pairs == {"snapshot", "commit", "undo", "half undo"} \X Entries
            SameTools == \A d \in Entries : journal'[d].tool = journal[d].tool
            Of(d) == /\ journal'[d].state # "none" => Happened("snapshot", d)' /\ journal'[d].kind = KindOf(journal'[d].tool)
                     /\ Happened("undo", d)' => journal'[d].state = "reversed"
<1>1. \A d \in Entries :
        /\ journal[d].tool = ClassifyCommand(command[d])
        /\ journal[d].state # "none" => Happened("snapshot", d) /\ journal[d].kind = KindOf(journal[d].tool)
        /\ Happened("undo", d) => journal[d].state = "reversed"
  BY DEF JournaledInv
<1>2. command' = command
  BY WhatSteps
<1>3. ASSUME SameTools, \A d \in Entries : Of(d) PROVE JournaledInv' /\ SameTools
  BY <1>1, <1>2, <1>3 DEF JournaledInv, ClassifyCommand
<1>4. ASSUME NEW what \in {"snapshot", "commit", "undo", "half undo"}, NEW e \in Entries, Log(what, e)
      PROVE  \A w, x : Happened(w, x)' <=> Happened(w, x) \/ (w = what /\ x = e)
  <2>1. <<what, e>> \in Pairs /\ events \in Seq(Pairs)
    BY DEF WTypeOK
  <2>2. \A w, x : <<w, x>> = <<what, e>> <=> w = what /\ x = e
    OBVIOUS
  <2>. HIDE DEF Pairs
  <2>3. \A w, x : Happened(w, x)' <=> Happened(w, x) \/ <<w, x>> = <<what, e>>
    BY <1>4, <2>1, Logged
  <2>. QED BY <2>2, <2>3
<1>5. ASSUME events' = events PROVE \A w, x : Happened(w, x)' <=> Happened(w, x)
  BY <1>5 DEF Happened
<1>. HIDE DEF Pairs
<1>6. journal \in [Entries -> JournalEntries]
  BY DEF WTypeOK, TypeOK
<1>7. ASSUME NEW e \in Entries, Snapshot(e) PROVE JournaledInv' /\ SameTools
  <2>1. journal' = journal /\ Log("snapshot", e)
    BY <1>7 DEF Snapshot, vars
  <2>2. \A w, x : Happened(w, x)' <=> Happened(w, x) \/ (w = "snapshot" /\ x = e)
    BY <1>4, <2>1
  <2>3. \A d \in Entries : Of(d)
    BY <1>1, <2>1, <2>2
  <2>. QED BY <1>3, <2>1, <2>3
<1>8. ASSUME NEW e \in Entries, NEW captured \in BOOLEAN, Guard(e, captured) PROVE JournaledInv' /\ SameTools
  <2>. DEFINE t == journal[e].tool
              x == PlanFor(t, captured, KindOf(t))
  <2>1. /\ Happened("snapshot", e) /\ journal[e].state = "none" /\ journal' = [journal EXCEPT ![e] = x]
        /\ events' = events
    BY <1>8 DEF Guard, OpenJournal, ghosts
  <2>2. t \in Tools
    BY <1>6 DEF JournalEntries
  <2>3. x.kind = KindOf(t) /\ x.tool = t
    BY <2>2, ToolKinds DEF PlanFor
  <2>4. x \in JournalEntries
    BY <2>2, ToolKinds, PlanTypes
  <2>5. ~Happened("undo", e)
    BY <1>1, <2>1
  <2>. HIDE DEF x
  <2>6. /\ journal'[e] = x /\ SameTools
        /\ \A d \in Entries : d # e => journal'[d] = journal[d]
    BY <2>1, <2>3, <2>4, EntryMoves
  <2>7. \A d \in Entries : Of(d)
    BY <1>1, <1>5, <2>1, <2>3, <2>5, <2>6
  <2>. QED BY <1>3, <2>6, <2>7
<1>9. ASSUME NEW e \in Entries, ConfirmCommand(e) PROVE JournaledInv' /\ SameTools
  <2>. DEFINE x == Committed(journal[e], TRUE)
  <2>1. /\ journal[e].state = "planned" /\ journal' = [journal EXCEPT ![e] = x] /\ Log("commit", e)
    BY <1>9 DEF ConfirmCommand, Commit
  <2>2. x \in JournalEntries
    BY <1>6, CommitTypes DEF WTypeOK, TypeOK
  <2>3. x.tool = journal[e].tool /\ x.kind = journal[e].kind /\ x.state = "committed"
    BY <1>6 DEF Committed, Settled, JournalEntries
  <2>4. ~Happened("undo", e) /\ Happened("snapshot", e) /\ journal[e].kind = KindOf(journal[e].tool)
    BY <1>1, <2>1
  <2>. HIDE DEF x
  <2>5. \A w, d : Happened(w, d)' <=> Happened(w, d) \/ (w = "commit" /\ d = e)
    BY <1>4, <2>1
  <2>6. /\ journal'[e] = x /\ SameTools
        /\ \A d \in Entries : d # e => journal'[d] = journal[d]
    BY <2>1, <2>2, <2>3, EntryMoves
  <2>7. \A d \in Entries : Of(d)
    BY <1>1, <2>3, <2>4, <2>5, <2>6
  <2>. QED BY <1>3, <2>6, <2>7
<1>10. ASSUME NEW e \in Entries, NEW done, Reverse(e, FALSE, done),
              events' = events \/ \E what \in {"undo", "half undo"} : Log(what, e) /\ done = {1}
       PROVE  JournaledInv' /\ SameTools
  <2>. DEFINE ok == Succeeded(PlannedSteps(journal[e]), done)
              s == IF ok THEN "reversed" ELSE "reversal_failed"
              x == [journal[e] EXCEPT !.state = s]
  <2>1. HasLiveUndo(journal[e]) /\ journal' = [journal EXCEPT ![e].state = s]
    BY <1>10 DEF Reverse, CanReverse
  <2>2. /\ Happened("snapshot", e) /\ ~Happened("undo", e) /\ DOMAIN PlannedSteps(journal[e]) = {1}
        /\ journal[e].kind = KindOf(journal[e].tool)
    BY <1>1, <2>1, LiveIs DEF HasLiveUndo
  <2>3. done = {1} => s = "reversed"
    BY <2>2 DEF Succeeded
  <2>4. s \in JournalStates /\ s # "none"
    BY DEF JournalStates
  <2>. HIDE DEF s, ok
  <2>5. x \in JournalEntries /\ x.tool = journal[e].tool /\ x.kind = journal[e].kind /\ x.state = s
    BY <1>6, <2>4, SetState DEF JournalEntries
  <2>6. journal' = [journal EXCEPT ![e] = x]
    BY <1>6, <2>1
  <2>. HIDE DEF x
  <2>7. /\ journal'[e] = x /\ SameTools
        /\ \A d \in Entries : d # e => journal'[d] = journal[d]
    BY <2>5, <2>6, EntryMoves
  <2>8. CASE events' = events
    <3>1. \A d \in Entries : Of(d)
      BY <1>1, <1>5, <2>2, <2>4, <2>5, <2>7, <2>8
    <3>. QED BY <1>3, <2>7, <3>1
  <2>9. CASE events' # events
    <3>1. PICK what \in {"undo", "half undo"} : Log(what, e) /\ done = {1}
      BY <1>10, <2>9
    <3>2. \A w, d : Happened(w, d)' <=> Happened(w, d) \/ (w = what /\ d = e)
      <4>1. what \in {"snapshot", "commit", "undo", "half undo"}
        OBVIOUS
      <4>. QED BY <1>4, <3>1, <4>1
    <3>3. ASSUME NEW d \in Entries, d # e PROVE Of(d)
      <4>1. journal'[d] = journal[d] /\ \A w : Happened(w, d)' <=> Happened(w, d)
        BY <2>7, <3>2, <3>3
      <4>. QED BY <1>1, <4>1
    <3>4. Of(e)
      BY <1>1, <2>2, <2>3, <2>4, <2>5, <2>7, <3>1, <3>2
    <3>. QED BY <1>3, <2>7, <3>3, <3>4
  <2>. QED BY <2>8, <2>9
<1>11. ASSUME NEW e \in Entries, RestoreFails(e) PROVE JournaledInv' /\ SameTools
  BY <1>10, <1>11 DEF RestoreFails
<1>12. ASSUME RestoreRemove PROVE JournaledInv' /\ SameTools
  <2>1. restoring.entry \in Entries
    BY <1>12, StepOf DEF RestoreRemove
  <2>. QED BY <1>10, <1>12, <2>1 DEF RestoreRemove
<1>13. ASSUME journal' = journal, events' = events PROVE JournaledInv' /\ SameTools
  <2>1. \A d \in Entries : Of(d)
    BY <1>1, <1>5, <1>13
  <2>. QED BY <1>3, <1>13, <2>1
<1>14. ASSUME NEW e \in Entries, NEW skip, NEW written, NEW deleted, RunFragment(e, skip, written, deleted)
       PROVE  JournaledInv' /\ SameTools
  BY <1>13, <1>14 DEF RunFragment, vars
<1>15. ASSUME NEW e \in Entries, NEW list, RestoreBegin(e, list) PROVE JournaledInv' /\ SameTools
  BY <1>13, <1>15 DEF RestoreBegin, vars
<1>16. ASSUME NEW f \in Files, Stage(f) PROVE JournaledInv' /\ SameTools
  BY <1>13, <1>16 DEF Stage, vars, ghosts
<1>17. ASSUME RestoreCheckout PROVE JournaledInv' /\ SameTools
  BY <1>13, <1>17 DEF RestoreCheckout, vars, ghosts
<1>. QED BY <1>7, <1>8, <1>9, <1>11, <1>12, <1>14, <1>15, <1>16, <1>17 DEF GNext

\* What an event adds, and what the rest leaves as it was.
LEMMA EventsGrow ==
  ASSUME WTypeOK, GNext
  PROVE  /\ \A w, x : Happened(w, x) => Happened(w, x)'
         /\ \A a, b : Before(a, b) => Before(a, b)'
<1>. DEFINE Pairs == {"snapshot", "commit", "undo", "half undo"} \X Entries
<1>1. ASSUME NEW what \in {"snapshot", "commit", "undo", "half undo"}, NEW e \in Entries, Log(what, e)
      PROVE  /\ \A w, x : Happened(w, x) => Happened(w, x)'
             /\ \A a, b : Before(a, b) => Before(a, b)'
  <2>1. <<what, e>> \in Pairs /\ events \in Seq(Pairs)
    BY DEF WTypeOK
  <2>. HIDE DEF Pairs
  <2>. QED BY <1>1, <2>1, Logged
<1>2. ASSUME events' = events
      PROVE  /\ \A w, x : Happened(w, x) => Happened(w, x)'
             /\ \A a, b : Before(a, b) => Before(a, b)'
  BY <1>2 DEF Happened, Before
<1>3. ASSUME RestoreRemove PROVE \E what \in {"undo", "half undo"} : Log(what, restoring.entry) /\ restoring.entry \in Entries
  BY <1>3, StepOf DEF RestoreRemove
<1>4. events' = events \/ \E what \in {"snapshot", "commit", "undo", "half undo"}, e \in Entries : Log(what, e)
  <2>1. CASE RestoreRemove
    BY <1>3, <2>1
  <2>2. CASE ~RestoreRemove
    BY <2>2, WhatSteps
  <2>. QED BY <2>1, <2>2
<1>. QED BY <1>1, <1>2, <1>4

\* Every step but a snapshot leaves the snapshots as they are.
LEMMA SnapshotsStay ==
  ASSUME WTypeOK, GNext, ~\E e \in Entries : Snapshot(e)
  PROVE  /\ before' = before /\ trees' = trees
         /\ \A x \in Entries : Happened("snapshot", x)' <=> Happened("snapshot", x)
         /\ \A a, x : Before(a, <<"snapshot", x>>)' <=> Before(a, <<"snapshot", x>>)
<1>. DEFINE Pairs == {"snapshot", "commit", "undo", "half undo"} \X Entries
<1>1. before' = before /\ trees' = trees
  BY WhatSteps
<1>2. ASSUME RestoreRemove PROVE \E what \in {"undo", "half undo"} : Log(what, restoring.entry) /\ restoring.entry \in Entries
  BY <1>2, StepOf DEF RestoreRemove
<1>3. events' = events \/ \E what \in {"commit", "undo", "half undo"}, e \in Entries : Log(what, e)
  <2>1. CASE RestoreRemove
    BY <1>2, <2>1
  <2>2. CASE ~RestoreRemove
    BY <2>2, WhatSteps
  <2>. QED BY <2>1, <2>2
<1>4. ASSUME NEW what \in {"commit", "undo", "half undo"}, NEW e \in Entries, Log(what, e)
      PROVE  /\ \A x \in Entries : Happened("snapshot", x)' <=> Happened("snapshot", x)
             /\ \A a, x : Before(a, <<"snapshot", x>>)' <=> Before(a, <<"snapshot", x>>)
  <2>1. <<what, e>> \in Pairs /\ events \in Seq(Pairs)
    BY DEF WTypeOK
  <2>2. \A x : <<"snapshot", x>> # <<what, e>>
    <3>1. \A x : <<"snapshot", x>>[1] = "snapshot"
      OBVIOUS
    <3>2. <<what, e>>[1] = what
      OBVIOUS
    <3>. QED BY <3>1, <3>2
  <2>. HIDE DEF Pairs
  <2>3. /\ \A w, x : Happened(w, x)' <=> Happened(w, x) \/ <<w, x>> = <<what, e>>
        /\ \A a, b : Before(a, b)' <=> Before(a, b) \/ (b = <<what, e>> /\ \E i \in DOMAIN events : events[i] = a)
    BY <1>4, <2>1, Logged
  <2>4. \A x \in Entries : Happened("snapshot", x)' <=> Happened("snapshot", x)
    BY <2>2, <2>3
  <2>5. \A a, x : Before(a, <<"snapshot", x>>)' <=> Before(a, <<"snapshot", x>>)
    BY <2>2, <2>3
  <2>. QED BY <2>4, <2>5
<1>5. ASSUME events' = events
      PROVE  /\ \A x \in Entries : Happened("snapshot", x)' <=> Happened("snapshot", x)
             /\ \A a, x : Before(a, <<"snapshot", x>>)' <=> Before(a, <<"snapshot", x>>)
  BY <1>5 DEF Happened, Before
<1>. QED BY <1>1, <1>3, <1>4, <1>5

\* A snapshot is logged behind everything else.
LEMMA SnapshotIs ==
  ASSUME WTypeOK, NEW e \in Entries, Snapshot(e)
  PROVE  /\ \A w, x : Happened(w, x)' <=> Happened(w, x) \/ (w = "snapshot" /\ x = e)
         /\ \A w, y, v, x : Before(<<w, y>>, <<v, x>>)' <=> Before(<<w, y>>, <<v, x>>) \/ (v = "snapshot" /\ x = e /\ Happened(w, y))
         /\ journal[e].state = "none" /\ ~Happened("snapshot", e)
         /\ \A x \in Entries : before'[x] = IF x = e THEN disk ELSE before[x]
         /\ disk' = disk /\ journal' = journal /\ runs' = runs /\ restoring' = restoring
         /\ calm' = calm /\ listedUnder' = listedUnder
<1>. DEFINE Pairs == {"snapshot", "commit", "undo", "half undo"} \X Entries
<1>1. <<"snapshot", e>> \in Pairs /\ events \in Seq(Pairs)
  BY DEF WTypeOK
<1>2. \A w, x : <<w, x>> = <<"snapshot", e>> <=> w = "snapshot" /\ x = e
  OBVIOUS
<1>. HIDE DEF Pairs
<1>3. Log("snapshot", e)
  BY DEF Snapshot
<1>4. /\ \A w, x : Happened(w, x)' <=> Happened(w, x) \/ <<w, x>> = <<"snapshot", e>>
      /\ \A a, b : Before(a, b)' <=> Before(a, b) \/ (b = <<"snapshot", e>> /\ \E i \in DOMAIN events : events[i] = a)
  BY <1>1, <1>3, Logged
<1>5. \A w, y : Happened(w, y) <=> \E i \in DOMAIN events : events[i] = <<w, y>>
  BY DEF Happened
<1>6. \A x \in Entries : before'[x] = IF x = e THEN disk ELSE before[x]
  BY DEF Snapshot, WTypeOK
<1>7. ASSUME NEW w, NEW y, NEW v, NEW x
      PROVE  Before(<<w, y>>, <<v, x>>)' <=> Before(<<w, y>>, <<v, x>>) \/ (v = "snapshot" /\ x = e /\ Happened(w, y))
  BY <1>2, <1>4, <1>5
<1>. QED BY <1>2, <1>4, <1>6, <1>7 DEF Snapshot, vars, history

LEMMA TreesKept ==
  ASSUME WTypeOK, JournaledInv, TreesInv, GNext
  PROVE  TreesInv'
<1>1. \A e \in Entries : journal'[e].tool = journal[e].tool
  BY JournaledKept
<1>. DEFINE Covered(b) == [f \in {g \in Unignored(b) : b[g] # "absent"} |-> b[f]]
<1>2. \A e \in Entries : trees[e] = IF Happened("snapshot", e) /\ journal[e].tool = "local" THEN Covered(before[e]) ELSE NoTree
  BY DEF TreesInv
<1>3. ASSUME \A e \in Entries : trees'[e] = IF Happened("snapshot", e)' /\ journal'[e].tool = "local"
                                            THEN Covered(before'[e]) ELSE NoTree
      PROVE  TreesInv'
  BY <1>3 DEF TreesInv, Unignored, InRoot, NoTree
<1>4. CASE \E e \in Entries : Snapshot(e)
  <2>1. PICK e \in Entries : Snapshot(e)
    BY <1>4
  <2>2. /\ \A w, x : Happened(w, x)' <=> Happened(w, x) \/ (w = "snapshot" /\ x = e)
        /\ ~Happened("snapshot", e) /\ \A x \in Entries : before'[x] = IF x = e THEN disk ELSE before[x]
    BY <2>1, SnapshotIs
  <2>3. TreeNow = Covered(disk)
    <3>1. Unignored(disk) \cap OnDisk = {g \in Unignored(disk) : disk[g] # "absent"}
      BY DEF OnDisk, Unignored, InRoot
    <3>. QED BY <3>1, Zenon DEF TreeNow
  <2>4. trees' = IF journal[e].tool = "local" THEN [trees EXCEPT ![e] = TreeNow] ELSE trees
    BY <2>1 DEF Snapshot
  <2>. HIDE DEF Covered
  <2>5. \A x \in Entries : trees'[x] = IF x = e /\ journal[e].tool = "local" THEN Covered(disk) ELSE trees[x]
    BY <2>3, <2>4 DEF WTypeOK
  <2>. QED BY <1>1, <1>2, <1>3, <2>2, <2>5
<1>5. CASE ~\E e \in Entries : Snapshot(e)
  <2>. HIDE DEF Covered
  <2>. QED BY <1>1, <1>2, <1>3, <1>5, SnapshotsStay
<1>. QED BY <1>4, <1>5

\* Contents are told apart.
LEMMA ContentsApart ==
  \A e \in Entries : e # "absent" /\ e # "old" /\ e # Nobody
BY WorkspaceAssumption DEF Nobody

\* Who may have written what a file holds now.
LEMMA DiskMoves ==
  ASSUME WTypeOK, TreesInv, GNext, NEW f \in Files
  PROVE  \/ disk'[f] = disk[f] \/ disk'[f] = "absent"
         \/ disk'[f] \in Entries /\ journal[disk'[f]].state = "planned"
         \/ /\ RestoreCheckout /\ f \in DOMAIN trees[restoring.entry]
            /\ disk'[f] = before[restoring.entry][f]
<1>0. disk = [x \in Files |-> disk[x]]
  BY DEF WTypeOK
<1>1. ASSUME NEW e \in Entries, NEW skip, NEW written, NEW deleted, RunFragment(e, skip, written, deleted)
      PROVE  disk'[f] = disk[f] \/ disk'[f] = "absent" \/ (disk'[f] \in Entries /\ journal[disk'[f]].state = "planned")
  <2>1. journal[e].state = "planned"
    BY <1>1 DEF RunFragment
  <2>2. disk' = [x \in Files |-> IF x \in deleted THEN "absent" ELSE IF x \in written THEN e ELSE disk[x]]
    BY <1>1 DEF RunFragment
  <2>. QED BY <2>1, <2>2
<1>2. ASSUME RestoreCheckout
      PROVE  disk'[f] = disk[f] \/ (f \in DOMAIN trees[restoring.entry] /\ disk'[f] = before[restoring.entry][f])
  <2>. DEFINE tree == trees[restoring.entry]
  <2>1. restoring.entry \in Entries
    BY <1>2, StepOf DEF RestoreCheckout
  <2>2. \A x \in DOMAIN tree : tree[x] = before[restoring.entry][x]
    BY <2>1, TreeIs
  <2>3. disk' = [x \in Files |-> IF x \in DOMAIN tree THEN tree[x] ELSE disk[x]]
    BY <1>2 DEF RestoreCheckout
  <2>. QED BY <2>2, <2>3
<1>3. ASSUME RestoreRemove PROVE disk'[f] = disk[f] \/ disk'[f] = "absent"
  BY <1>3 DEF RestoreRemove
<1>4. disk' = disk \/ (\E e \in Entries, skip \in BOOLEAN, written \in SUBSET Files :
                        \E deleted \in {{}, written} : RunFragment(e, skip, written, deleted))
      \/ RestoreCheckout \/ RestoreRemove
  BY DEF GNext, Snapshot, Guard, ConfirmCommand, RestoreFails, RestoreBegin, Stage, workspace
<1>. QED BY <1>1, <1>2, <1>3, <1>4

\* An entry that is being restored has a live undo.
LEMMA BeingRestored ==
  ASSUME WTypeOK, JournaledInv, RestoringInv, restoring.step # "none"
  PROVE  LET e == restoring.entry
         IN /\ e \in Entries /\ HasLiveUndo(journal[e]) /\ Happened("snapshot", e) /\ ~Happened("undo", e)
            /\ journal[e].tool = "local" /\ journal[e].state \in {"committed", "reversal_failed"}
<1>1. restoring.entry \in Entries /\ HasLiveUndo(journal[restoring.entry])
  BY StepOf DEF RestoringInv
<1>. QED BY <1>1, LiveIs

LEMMA OrderIs ==
  ASSUME NEW v, NEW x, NEW w, NEW y, WTypeOK
  PROVE  /\ Before(<<v, x>>, <<w, y>>) => Happened(v, x) /\ Happened(w, y)
         /\ Happened(v, x) /\ Happened(w, y) /\ <<v, x>> # <<w, y>> =>
              Before(<<v, x>>, <<w, y>>) \/ Before(<<w, y>>, <<v, x>>)
<1>1. \A i, j \in DOMAIN events : i = j \/ i < j \/ j < i
  <2>1. \A S : \A s \in Seq(S) : DOMAIN s = 1 .. Len(s) /\ Len(s) \in Nat
    OBVIOUS
  <2>2. DOMAIN events = 1 .. Len(events) /\ Len(events) \in Nat
    BY <2>1 DEF WTypeOK
  <2>. QED BY <2>2
<1>. QED BY <1>1 DEF Before, Happened

LEMMA OriginKept ==
  ASSUME WTypeOK, JournaledInv, TreesInv, RestoringInv, OriginInv, GNext
  PROVE  OriginInv'
<1>1. ASSUME NEW e \in Entries, NEW f \in Files, disk'[f] = e PROVE Happened("snapshot", e)'
  <2>1. Happened("snapshot", e)
    <3>1. CASE disk'[f] = disk[f]
      BY <1>1, <3>1 DEF OriginInv
    <3>2. CASE disk'[f] = "absent"
      BY <1>1, <3>2, ContentsApart
    <3>3. CASE journal[e].state = "planned"
      BY <3>3 DEF JournaledInv
    <3>4. CASE RestoreCheckout /\ before[restoring.entry][f] = e
      <4>1. restoring.entry \in Entries /\ Happened("snapshot", restoring.entry)
        BY <3>4, BeingRestored DEF RestoreCheckout
      <4>2. Before(<<"snapshot", e>>, <<"snapshot", restoring.entry>>)
        BY <3>4, <4>1 DEF OriginInv
      <4>. QED BY <4>2, OrderIs
    <3>. QED BY <1>1, <3>1, <3>2, <3>3, <3>4, DiskMoves
  <2>. QED BY <2>1, EventsGrow
<1>2. CASE \E d \in Entries : Snapshot(d)
  <2>1. PICK d \in Entries : Snapshot(d)
    BY <1>2
  <2>2. /\ ~Happened("snapshot", d) /\ \A x \in Entries : before'[x] = IF x = d THEN disk ELSE before[x]
        /\ \A w, y, v, x : Before(<<w, y>>, <<v, x>>)' <=> Before(<<w, y>>, <<v, x>>) \/ (v = "snapshot" /\ x = d /\ Happened(w, y))
        /\ \A w, x : Happened(w, x)' <=> Happened(w, x) \/ (w = "snapshot" /\ x = d)
    BY <2>1, SnapshotIs
  <2>3. ASSUME NEW e \in Entries, NEW f \in Files
        PROVE  before'[e][f] # e
    BY <2>2 DEF OriginInv
  <2>4. ASSUME NEW e \in Entries, NEW f \in Files, NEW x \in Entries, Happened("snapshot", x)', before'[x][f] = e
        PROVE  Before(<<"snapshot", e>>, <<"snapshot", x>>)'
    <3>1. CASE x = d
      <4>1. Happened("snapshot", e)
        BY <2>2, <2>4, <3>1 DEF OriginInv
      <4>. QED BY <2>2, <3>1, <4>1
    <3>2. CASE x # d
      <4>1. Happened("snapshot", x) /\ before[x][f] = e
        BY <2>2, <2>4, <3>2
      <4>2. Before(<<"snapshot", e>>, <<"snapshot", x>>)
        BY <4>1 DEF OriginInv
      <4>. QED BY <2>2, <4>2
    <3>. QED BY <3>1, <3>2
  <2>. QED BY <1>1, <2>3, <2>4 DEF OriginInv
<1>3. CASE ~\E d \in Entries : Snapshot(d)
  <2>1. /\ before' = before
        /\ \A x \in Entries : Happened("snapshot", x)' <=> Happened("snapshot", x)
        /\ \A a, x : Before(a, <<"snapshot", x>>)' <=> Before(a, <<"snapshot", x>>)
    BY <1>3, SnapshotsStay
  <2>. QED BY <1>1, <2>1 DEF OriginInv
<1>. QED BY <1>2, <1>3

\* A fragment that writes is of a command that is not being restored.
LEMMA FragmentIs ==
  ASSUME WTypeOK, NEW d \in Entries, NEW skip, NEW written \in SUBSET Files, NEW deleted \in {{}, written},
         RunFragment(d, skip, written, deleted)
  PROVE  /\ journal[d].state = "planned"
         /\ \A f \in Files, e \in Entries : e # d /\ disk'[f] = e => disk[f] = e
         /\ calm' = Nobody \/ (calm' = calm /\ disk' = disk)
         /\ journal' = journal /\ trees' = trees /\ before' = before /\ restoring' = restoring
         /\ listedUnder' = listedUnder
<1>1. disk' = [x \in Files |-> IF x \in deleted THEN "absent" ELSE IF x \in written THEN d ELSE disk[x]]
  BY DEF RunFragment
<1>2. calm' = IF written # {} THEN Nobody ELSE calm
  BY DEF RunFragment
<1>3. written = {} => disk' = disk
  BY <1>1 DEF WTypeOK
<1>4. \A f \in Files, e \in Entries : e # d /\ disk'[f] = e => disk[f] = e
  BY <1>1, ContentsApart
<1>. QED BY <1>2, <1>3, <1>4 DEF RunFragment, vars

\* A restore keeps track of what is left to take away.
LEMMA RestoringKept ==
  ASSUME WTypeOK, JournaledInv, TreesInv, OriginInv, RestoringInv, GNext
  PROVE  RestoringInv'
<1>. DEFINE r == restoring.entry
            waiting == IF restoring.step = "listed" THEN restoring.present ELSE Created
            waitingThen == IF restoring'.step = "listed" THEN restoring'.present ELSE Created'
<1>1. restoring.step # "none" =>
        /\ HasLiveUndo(journal[r]) /\ calm \in {r, Nobody}
        /\ restoring.present # {} => \A f \in Coverable : disk[f] = r => f \in waiting
        /\ calm = r =>
             IF restoring.step = "listed"
             THEN \A f \in InRoot \ Rules[listedUnder] : f \in waiting \/ disk[f] = "absent"
             ELSE \A f \in Owed(before[r], listedUnder) : f \in waiting \/ disk[f] = before[r][f]
  BY DEF RestoringInv
<1>2. ASSUME restoring'.step # "none" =>
               /\ HasLiveUndo(journal'[restoring'.entry]) /\ calm' \in {restoring'.entry, Nobody}
               /\ restoring'.present # {} => \A f \in Coverable : disk'[f] = restoring'.entry => f \in waitingThen
               /\ calm' = restoring'.entry =>
                    IF restoring'.step = "listed"
                    THEN \A f \in InRoot \ Rules[listedUnder'] : f \in waitingThen \/ disk'[f] = "absent"
                    ELSE \A f \in Owed(before'[restoring'.entry], listedUnder') :
                           f \in waitingThen \/ disk'[f] = before'[restoring'.entry][f]
      PROVE  RestoringInv'
  BY <1>2 DEF RestoringInv, HasLiveUndo, Nobody, Coverable, InRoot, Owed, Unignored
<1>3. /\ Coverable \subseteq InRoot /\ InRoot \subseteq Files /\ Coverable \subseteq Unignored(disk)
      /\ \A e \in Entries : Coverable \subseteq Unignored(before[e])
  BY CoverableIsSeen
<1>4. restoring.step # "none" => r \in Entries /\ Happened("snapshot", r) /\ journal[r].tool = "local"
                                 /\ journal[r].state \in {"committed", "reversal_failed"}
  BY BeingRestored
<1>5. ASSUME NEW e \in Entries, Snapshot(e) PROVE RestoringInv'
  <2>1. /\ journal[e].state = "none" /\ \A x \in Entries : before'[x] = IF x = e THEN disk ELSE before[x]
        /\ disk' = disk /\ journal' = journal /\ restoring' = restoring /\ calm' = calm
        /\ listedUnder' = listedUnder
    BY <1>5, SnapshotIs
  <2>2. restoring.step # "none" => r # e /\ before'[r] = before[r] /\ trees'[r] = trees[r]
    <3>1. trees' = IF journal[e].tool = "local" THEN [trees EXCEPT ![e] = TreeNow] ELSE trees
      BY <1>5 DEF Snapshot
    <3>. QED BY <1>4, <2>1, <3>1 DEF WTypeOK
  <2>3. restoring.step # "none" => waitingThen = waiting
    BY <2>1, <2>2 DEF Created
  <2>. HIDE DEF waiting, waitingThen
  <2>. QED BY <1>1, <1>2, <2>1, <2>2, <2>3
<1>6. ASSUME restoring' = restoring, restoring.step = "none" PROVE RestoringInv'
  BY <1>2, <1>6
<1>7. ASSUME NEW e \in Entries, NEW captured, Guard(e, captured) PROVE RestoringInv'
  BY <1>6, <1>7 DEF Guard, workspace
<1>8. ASSUME NEW e \in Entries, ConfirmCommand(e) PROVE RestoringInv'
  BY <1>6, <1>8 DEF ConfirmCommand, workspace
<1>9. ASSUME NEW d \in Entries, NEW skip, NEW written \in SUBSET Files, NEW deleted \in {{}, written},
             RunFragment(d, skip, written, deleted)
      PROVE  RestoringInv'
  <2>1. /\ journal[d].state = "planned"
        /\ \A f \in Files, e \in Entries : e # d /\ disk'[f] = e => disk[f] = e
        /\ calm' = Nobody \/ (calm' = calm /\ disk' = disk)
        /\ journal' = journal /\ trees' = trees /\ before' = before /\ restoring' = restoring
        /\ listedUnder' = listedUnder
    BY <1>9, FragmentIs
  <2>2. waitingThen = waiting
    BY <2>1 DEF Created
  <2>3. restoring.step # "none" => r # d /\ r # Nobody
    BY <1>4, <2>1, ContentsApart
  <2>. HIDE DEF waiting, waitingThen
  <2>. QED BY <1>1, <1>2, <1>3, <1>4, <2>1, <2>2, <2>3
<1>10. ASSUME NEW e \in Entries, NEW list \in BOOLEAN, RestoreBegin(e, list) PROVE RestoringInv'
  <2>1. /\ restoring' = [entry |-> e, present |-> IF list THEN Listed ELSE {}, step |-> "listed"]
        /\ calm' = IF list THEN e ELSE Nobody
        /\ HasLiveUndo(journal[e]) /\ journal' = journal /\ disk' = disk
        /\ listedUnder' = disk[RuleFile]
    BY <1>10 DEF RestoreBegin, vars
  <2>2. \A f \in Unignored(disk) : disk[f] # "absent" => f \in Listed
    BY <1>3 DEF Unignored, Listed, OnDisk
  <2>3. e # Nobody /\ e # "absent"
    BY ContentsApart
  <2>4. /\ restoring'.entry = e /\ restoring'.present = IF list THEN Listed ELSE {}
        /\ restoring'.step = "listed" /\ waitingThen = restoring'.present
    BY <2>1
  <2>. HIDE DEF waiting, waitingThen
  <2>5. restoring'.present # {} => \A f \in Coverable : disk'[f] = e => f \in waitingThen
    BY <1>3, <2>1, <2>2, <2>3, <2>4
  <2>6. calm' = e => \A f \in InRoot \ Rules[listedUnder'] : f \in waitingThen \/ disk'[f] = "absent"
    BY <2>1, <2>2, <2>3, <2>4 DEF Unignored
  <2>7. calm' \in {e, Nobody}
    BY <2>1
  <2>. QED BY <1>2, <2>1, <2>4, <2>5, <2>6, <2>7
<1>11. ASSUME NEW f \in Files, Stage(f) PROVE RestoringInv'
  <2>1. /\ restoring' = restoring /\ trees' = trees /\ before' = before /\ disk' = disk /\ journal' = journal
        /\ calm' = calm /\ listedUnder' = listedUnder
    BY <1>11 DEF Stage, vars, ghosts
  <2>2. waitingThen = waiting
    BY <2>1 DEF Created
  <2>. HIDE DEF waiting, waitingThen
  <2>. QED BY <1>1, <1>2, <2>1, <2>2
<1>12. ASSUME RestoreCheckout PROVE RestoringInv'
  <2>. DEFINE tree == trees[r]
  <2>1. /\ restoring.step = "listed" /\ restoring' = [restoring EXCEPT !.step = "checked out"]
        /\ disk' = [f \in Files |-> IF f \in DOMAIN tree THEN tree[f] ELSE disk[f]]
        /\ journal' = journal /\ trees' = trees /\ before' = before /\ calm' = calm
        /\ listedUnder' = listedUnder
    BY <1>12 DEF RestoreCheckout, vars, ghosts
  <2>2. restoring \in [entry : Entries, present : SUBSET InRoot, step : {"listed", "checked out"}]
    BY <2>1, StepOf DEF WTypeOK
  <2>3. /\ restoring'.entry = r /\ restoring'.present = restoring.present /\ restoring'.step = "checked out"
        /\ waitingThen = restoring.present \ DOMAIN tree /\ waiting = restoring.present
    BY <2>1, <2>2 DEF Created
  <2>4. /\ \A f \in DOMAIN tree : tree[f] = before[r][f]
        /\ \A f \in Unignored(before[r]) : f \in DOMAIN tree <=> before[r][f] # "absent"
    BY <1>4, <2>1, TreeIs
  <2>5. \A f \in Coverable : before[r][f] # r
    BY <1>3, <1>4, <2>1 DEF OriginInv
  <2>. HIDE DEF waiting, waitingThen, tree
  <2>6. ASSUME restoring'.present # {}, NEW f \in Coverable, disk'[f] = r PROVE f \in waitingThen
    BY <1>1, <1>3, <2>1, <2>3, <2>4, <2>5, <2>6
  <2>7. ASSUME calm' = r, NEW f \in Owed(before'[r], listedUnder')
        PROVE  f \in waitingThen \/ disk'[f] = before'[r][f]
    <3>1. f \in Unignored(before[r]) /\ f \in InRoot /\ (before[r][f] # "absent" \/ f \notin Rules[listedUnder])
      BY <2>1, <2>7 DEF Owed, Unignored
    <3>2. CASE f \in DOMAIN tree
      BY <1>3, <2>1, <2>4, <3>1, <3>2
    <3>3. CASE f \notin DOMAIN tree
      <4>1. before[r][f] = "absent" /\ f \in InRoot \ Rules[listedUnder]
        BY <2>4, <3>1, <3>3
      <4>2. f \in waiting \/ disk[f] = "absent"
        BY <1>1, <2>1, <2>7, <4>1
      <4>. QED BY <1>3, <2>1, <2>3, <3>3, <4>1, <4>2
    <3>. QED BY <3>2, <3>3
  <2>8. HasLiveUndo(journal'[r]) /\ calm' \in {r, Nobody}
    BY <1>1, <2>1
  <2>9. restoring'.entry = r /\ restoring'.step = "checked out"
    BY <2>3
  <2>. HIDE DEF r
  <2>. QED BY <1>2, <2>6, <2>7, <2>8, <2>9
<1>13. ASSUME restoring' = NotRestoring PROVE RestoringInv'
  BY <1>2, <1>13, StepOf
<1>14. ASSUME NEW e \in Entries, RestoreFails(e) PROVE RestoringInv'
  BY <1>13, <1>14 DEF RestoreFails
<1>15. ASSUME RestoreRemove PROVE RestoringInv'
  BY <1>13, <1>15 DEF RestoreRemove
<1>. QED BY <1>5, <1>7, <1>8, <1>9, <1>10, <1>11, <1>12, <1>14, <1>15 DEF GNext

\* The disk that an undisturbed restore leaves.
LEMMA CalmKept ==
  ASSUME WTypeOK, JournaledInv, TreesInv, RestoringInv, CalmInv, GNext
  PROVE  CalmInv'
<1>1. calm \in Entries => Happened("snapshot", calm) /\ 
        (restoring.step = "none" => \A f \in Owed(before[calm], listedUnder) : disk[f] = before[calm][f])
  BY DEF CalmInv
<1>2. ASSUME calm' \in Entries =>
               /\ Happened("snapshot", calm')
               /\ restoring'.step = "none" =>
                    \A f \in Owed(before'[calm'], listedUnder') : disk'[f] = before'[calm'][f]
      PROVE  CalmInv'
  <2>1. calm' \in Entries => (Happened("snapshot", calm))'
    <3>. DEFINE c == calm'
    <3>1. Happened("snapshot", c) => \E i \in DOMAIN events : events[i] = <<"snapshot", c>>
      BY DEF Happened
    <3>2. calm' \in Entries => \E i \in DOMAIN events : events[i] = <<"snapshot", c>>
      BY <1>2, <3>1
    <3>3. (\E i \in DOMAIN events : events[i] = <<"snapshot", c>>) => \E i \in DOMAIN events' : events'[i] = <<"snapshot", c>>
      <4>. HIDE DEF c
      <4>1. Happened("snapshot", c) => (\E i \in DOMAIN events' : events'[i] = <<"snapshot", c>>)
        BY EventsGrow DEF Happened
      <4>. QED BY <4>1 DEF Happened
    <3>. QED BY <3>2, <3>3 DEF Happened
  <2>. QED BY <1>2, <2>1 DEF CalmInv, Owed, Unignored, InRoot
<1>3. \A b, v, f : f \in Owed(b, v) => f \in Unignored(b) /\ f \in Files
  BY DEF Owed, Unignored, InRoot
<1>4. Nobody \notin Entries
  BY ContentsApart
<1>5. ASSUME NEW e \in Entries, Snapshot(e) PROVE CalmInv'
  <2>1. /\ ~Happened("snapshot", e) /\ \A x \in Entries : before'[x] = IF x = e THEN disk ELSE before[x]
        /\ disk' = disk /\ restoring' = restoring /\ calm' = calm /\ listedUnder' = listedUnder
    BY <1>5, SnapshotIs
  <2>2. calm \in Entries => calm # e
    BY <1>1, <2>1
  <2>. QED BY <1>1, <1>2, <2>1, <2>2
<1>6. ASSUME calm' = calm, before' = before, restoring' = restoring, disk' = disk, listedUnder' = listedUnder
      PROVE  CalmInv'
  BY <1>1, <1>2, <1>6
<1>7. ASSUME NEW e \in Entries, NEW captured, Guard(e, captured) PROVE CalmInv'
  BY <1>6, <1>7 DEF Guard, workspace, ghosts
<1>8. ASSUME NEW e \in Entries, ConfirmCommand(e) PROVE CalmInv'
  BY <1>6, <1>8 DEF ConfirmCommand, workspace
<1>9. ASSUME calm' = Nobody PROVE CalmInv'
  BY <1>2, <1>4, <1>9
<1>10. ASSUME NEW d \in Entries, NEW skip, NEW written \in SUBSET Files, NEW deleted \in {{}, written},
             RunFragment(d, skip, written, deleted)
      PROVE  CalmInv'
  <2>1. calm' = Nobody \/ (calm' = calm /\ disk' = disk)
    BY <1>10, FragmentIs
  <2>2. before' = before /\ restoring' = restoring /\ listedUnder' = listedUnder
    BY <1>10, FragmentIs
  <2>. QED BY <1>6, <1>9, <2>1, <2>2
<1>11. ASSUME NEW e \in Entries, NEW list \in BOOLEAN, RestoreBegin(e, list) PROVE CalmInv'
  <2>1. /\ restoring' = [entry |-> e, present |-> IF list THEN Listed ELSE {}, step |-> "listed"]
        /\ calm' = e \/ calm' = Nobody
        /\ HasLiveUndo(journal[e])
    BY <1>11 DEF RestoreBegin
  <2>2. restoring'.step # "none" /\ Happened("snapshot", e)
    BY <2>1, LiveIs
  <2>. QED BY <1>2, <1>9, <2>1, <2>2
<1>12. ASSUME NEW f \in Files, Stage(f) PROVE CalmInv'
  BY <1>6, <1>12 DEF Stage, ghosts
<1>13. ASSUME RestoreCheckout PROVE CalmInv'
  <2>1. restoring.step = "listed" /\ restoring' = [restoring EXCEPT !.step = "checked out"] /\ calm' = calm
    BY <1>13 DEF RestoreCheckout, ghosts
  <2>2. restoring \in [entry : Entries, present : SUBSET InRoot, step : {"listed", "checked out"}]
    BY <2>1, StepOf DEF WTypeOK
  <2>3. restoring'.step # "none"
    BY <2>1, <2>2
  <2>. QED BY <1>1, <1>2, <2>1, <2>3
<1>14. ASSUME NEW e \in Entries, RestoreFails(e) PROVE CalmInv'
  BY <1>9, <1>14 DEF RestoreFails
<1>15. ASSUME RestoreRemove PROVE CalmInv'
  <2>. DEFINE r == restoring.entry
  <2>1. /\ restoring.step = "checked out" /\ restoring.step # "listed" /\ calm' = calm /\ before' = before
        /\ listedUnder' = listedUnder
        /\ disk' = [f \in Files |-> IF f \in Created THEN "absent" ELSE disk[f]]
    BY <1>15 DEF RestoreRemove
  <2>2. r \in Entries /\ Happened("snapshot", r) /\ journal[r].tool = "local" /\ r # Nobody
    BY <1>4, <2>1, BeingRestored
  <2>3. /\ calm \in {r, Nobody}
        /\ calm = r => \A f \in Owed(before[r], listedUnder) : f \in Created \/ disk[f] = before[r][f]
    BY <2>1 DEF RestoringInv
  <2>4. \A f \in Unignored(before[r]) : f \in Created => before[r][f] = "absent"
    BY <2>2, TreeIs DEF Created
  <2>5. calm = r => \A f \in Owed(before'[r], listedUnder') : disk'[f] = before'[r][f]
    BY <1>3, <2>1, <2>3, <2>4
  <2>. HIDE DEF r
  <2>6. calm' = Nobody \/ calm' = r
    BY <2>1, <2>3
  <2>. QED BY <1>2, <1>9, <2>1, <2>2, <2>5, <2>6
<1>. QED BY <1>5, <1>7, <1>8, <1>10, <1>11, <1>12, <1>13, <1>14, <1>15 DEF GNext

\* An undo is the last one of its entry.
LEMMA UndoneStays ==
  ASSUME WTypeOK, JournaledInv, RestoringInv, GNext, NEW e \in Entries, Happened("undo", e)
  PROVE  \A a : Before(a, <<"undo", e>>)' <=> Before(a, <<"undo", e>>)
<1>. DEFINE Pairs == {"snapshot", "commit", "undo", "half undo"} \X Entries
<1>1. ASSUME NEW what \in {"snapshot", "commit", "undo", "half undo"}, NEW d \in Entries, Log(what, d),
             what # "undo" \/ d # e
      PROVE  \A a : Before(a, <<"undo", e>>)' <=> Before(a, <<"undo", e>>)
  <2>1. <<what, d>> \in Pairs /\ events \in Seq(Pairs)
    BY DEF WTypeOK
  <2>2. \A w, x, v, y : <<w, x>> = <<v, y>> => w = v /\ x = y
    OBVIOUS
  <2>3. <<"undo", e>> # <<what, d>>
    BY <1>1, <2>2
  <2>. HIDE DEF Pairs
  <2>4. \A a, b : Before(a, b)' <=> Before(a, b) \/ (b = <<what, d>> /\ \E i \in DOMAIN events : events[i] = a)
    BY <1>1, <2>1, Logged
  <2>. QED BY <2>3, <2>4
<1>2. ASSUME events' = events PROVE \A a : Before(a, <<"undo", e>>)' <=> Before(a, <<"undo", e>>)
  BY <1>2 DEF Before
<1>3. CASE RestoreRemove
  <2>1. restoring.entry \in Entries /\ ~Happened("undo", restoring.entry)
    BY <1>3, BeingRestored DEF RestoreRemove
  <2>2. PICK what \in {"undo", "half undo"} : Log(what, restoring.entry)
    BY <1>3 DEF RestoreRemove
  <2>3. restoring.entry # e
    BY <2>1
  <2>. QED BY <1>1, <2>1, <2>2, <2>3
<1>4. CASE ~RestoreRemove
  <2>1. events' = events \/ \E what \in {"snapshot", "commit"}, d \in Entries : Log(what, d)
    BY <1>4, WhatSteps
  <2>2. CASE events' = events
    BY <1>2, <2>2
  <2>3. CASE events' # events
    <3>1. PICK what \in {"snapshot", "commit"}, d \in Entries : Log(what, d)
      BY <2>1, <2>3
    <3>. QED BY <1>1, <3>1
  <2>. QED BY <2>2, <2>3
<1>. QED BY <1>3, <1>4

\* A restore that has begun stays one that began, or ended.
LEMMA AttemptsStay ==
  ASSUME WTypeOK, GNext, NEW x \in Entries, runs[x] > 0 \/ restoring.entry = x
  PROVE  runs'[x] > 0 \/ restoring'.entry = x
<1>1. runs \in [Entries -> Nat]
  BY DEF WTypeOK, TypeOK
<1>2. ASSUME NEW e \in Entries, NEW done, Reverse(e, FALSE, done)
      PROVE  runs'[e] > 0 /\ (x # e => runs'[x] = runs[x])
  BY <1>1, <1>2 DEF Reverse, CanReverse
<1>3. ASSUME NEW e \in Entries, RestoreFails(e) PROVE runs'[x] > 0 \/ restoring'.entry = x
  <2>1. runs'[e] > 0 /\ (x # e => runs'[x] = runs[x])
    BY <1>2, <1>3 DEF RestoreFails
  <2>2. restoring.entry \in {e, Nobody}
    BY <1>3 DEF RestoreFails
  <2>. QED BY <2>1, <2>2, ContentsApart
<1>4. ASSUME RestoreRemove PROVE runs'[x] > 0 \/ restoring'.entry = x
  <2>1. restoring.entry \in Entries
    BY <1>4, StepOf DEF RestoreRemove
  <2>2. runs'[restoring.entry] > 0 /\ (x # restoring.entry => runs'[x] = runs[x])
    BY <1>2, <1>4, <2>1 DEF RestoreRemove
  <2>. QED BY <2>2
<1>5. ASSUME NEW e \in Entries, NEW list, RestoreBegin(e, list) PROVE runs'[x] > 0 \/ restoring'.entry = x
  <2>1. restoring.entry = Nobody /\ runs' = runs
    BY <1>5, StepOf DEF RestoreBegin, vars, history
  <2>. QED BY <2>1, ContentsApart
<1>6. ASSUME RestoreCheckout PROVE runs'[x] > 0 \/ restoring'.entry = x
  <2>1. restoring.step = "listed" /\ restoring' = [restoring EXCEPT !.step = "checked out"] /\ runs' = runs
    BY <1>6 DEF RestoreCheckout, vars, history
  <2>2. restoring \in [entry : Entries, present : SUBSET InRoot, step : {"listed", "checked out"}]
    BY <2>1, StepOf DEF WTypeOK
  <2>. QED BY <2>1, <2>2
<1>7. ASSUME runs' = runs, restoring' = restoring PROVE runs'[x] > 0 \/ restoring'.entry = x
  BY <1>7
<1>8. ASSUME NEW e \in Entries, Snapshot(e) PROVE runs'[x] > 0 \/ restoring'.entry = x
  BY <1>7, <1>8 DEF Snapshot, vars, history
<1>9. ASSUME NEW e \in Entries, NEW captured, Guard(e, captured) PROVE runs'[x] > 0 \/ restoring'.entry = x
  BY <1>7, <1>9 DEF Guard, OpenJournal, workspace, history
<1>10. ASSUME NEW e \in Entries, NEW skip, NEW written, NEW deleted, RunFragment(e, skip, written, deleted)
       PROVE  runs'[x] > 0 \/ restoring'.entry = x
  BY <1>7, <1>10 DEF RunFragment, vars, history
<1>11. ASSUME NEW e \in Entries, ConfirmCommand(e) PROVE runs'[x] > 0 \/ restoring'.entry = x
  BY <1>7, <1>11 DEF ConfirmCommand, Commit, workspace
<1>12. ASSUME NEW f \in Files, Stage(f) PROVE runs'[x] > 0 \/ restoring'.entry = x
  BY <1>7, <1>12 DEF Stage, vars, history
<1>. QED BY <1>3, <1>4, <1>5, <1>6, <1>8, <1>9, <1>10, <1>11, <1>12 DEF GNext

LEMMA SpoiledStays ==
  ASSUME WTypeOK, JournaledInv, RestoringInv, GNext, NEW e \in Entries, Happened("undo", e), Spoiled(e)
  PROVE  Spoiled(e)'
<1>1. PICK x \in Entries : /\ Before(<<"snapshot", e>>, <<"snapshot", x>>) /\ Before(<<"snapshot", x>>, <<"undo", e>>)
                           /\ runs[x] > 0 \/ restoring.entry = x
                           /\ ~Before(<<"undo", x>>, <<"undo", e>>)
  BY DEF Spoiled
<1>2. Before(<<"snapshot", e>>, <<"snapshot", x>>)'
  BY <1>1, EventsGrow
<1>3. Before(<<"snapshot", x>>, <<"undo", e>>)' /\ ~Before(<<"undo", x>>, <<"undo", e>>)'
  BY <1>1, UndoneStays
<1>4. runs'[x] > 0 \/ restoring'.entry = x
  BY <1>1, AttemptsStay
<1>. QED BY <1>2, <1>3, <1>4 DEF Spoiled

\* What an undo has taken away: nothing of the command is left in what snapshots cover.
LEMMA UndoTakes ==
  ASSUME WTypeOK, JournaledInv, TreesInv, RestoringInv, GNext, NEW e \in Entries,
         ~Happened("undo", e), Happened("undo", e)'
  PROVE  /\ \A f \in Coverable : disk'[f] # e
         /\ ~\E d \in Entries : Snapshot(d)
<1>. DEFINE Pairs == {"snapshot", "commit", "undo", "half undo"} \X Entries
<1>1. ASSUME NEW what \in {"snapshot", "commit", "undo", "half undo"}, NEW d \in Entries, Log(what, d)
      PROVE  what = "undo" /\ d = e
  <2>1. <<what, d>> \in Pairs /\ events \in Seq(Pairs)
    BY DEF WTypeOK
  <2>2. \A w, x, v, y : <<w, x>> = <<v, y>> => w = v /\ x = y
    OBVIOUS
  <2>. HIDE DEF Pairs
  <2>3. \A w, x : Happened(w, x)' <=> Happened(w, x) \/ <<w, x>> = <<what, d>>
    BY <1>1, <2>1, Logged
  <2>. QED BY <2>2, <2>3
<1>2. events' # events
  BY DEF Happened
<1>3. ~\E d \in Entries : Snapshot(d)
  BY <1>1 DEF Snapshot
<1>4. ~\E d \in Entries : ConfirmCommand(d)
  BY <1>1 DEF ConfirmCommand
<1>5. RestoreRemove
  BY <1>2, <1>3, <1>4 DEF GNext, Guard, RunFragment, RestoreFails, RestoreBegin, Stage, RestoreCheckout, ghosts
<1>6. restoring.entry \in Entries
  BY <1>5, StepOf DEF RestoreRemove
<1>7. restoring.entry = e /\ restoring.present # {} /\ restoring.step = "checked out"
  BY <1>1, <1>5, <1>6 DEF RestoreRemove
<1>8. \A f \in Coverable : disk[f] = e => f \in Created
  BY <1>7 DEF RestoringInv
<1>9. disk' = [f \in Files |-> IF f \in Created THEN "absent" ELSE disk[f]]
  BY <1>5 DEF RestoreRemove
<1>10. Coverable \subseteq Files
  BY DEF Coverable, InRoot
<1>. QED BY <1>3, <1>8, <1>9, <1>10, ContentsApart

\* What was taken away comes back from no snapshot but one that spoils the undo.
LEMMA GoneKept ==
  ASSUME WTypeOK, JournaledInv, TreesInv, OriginInv, RestoringInv, GoneInv, GNext
  PROVE  GoneInv'
<1>1. Coverable \subseteq Files
  BY DEF Coverable, InRoot
<1>2. ASSUME NEW e \in Entries, Happened("undo", e), ~Spoiled(e)
      PROVE  \A f \in Coverable : disk[f] # e /\ \A x \in Entries : Before(<<"undo", e>>, <<"snapshot", x>>) => before[x][f] # e
  BY <1>2 DEF GoneInv
<1>3. ASSUME NEW e \in Entries, ~Happened("undo", e), Happened("undo", e)', NEW f \in Coverable
      PROVE  disk'[f] # e /\ \A x \in Entries : Before(<<"undo", e>>, <<"snapshot", x>>)' => before'[x][f] # e
  <2>1. disk'[f] # e /\ ~\E d \in Entries : Snapshot(d)
    BY <1>3, UndoTakes
  <2>2. \A x : Before(<<"undo", e>>, <<"snapshot", x>>)' <=> Before(<<"undo", e>>, <<"snapshot", x>>)
    BY <2>1, SnapshotsStay
  <2>3. \A x : ~Before(<<"undo", e>>, <<"snapshot", x>>)
    BY <1>3, OrderIs
  <2>. QED BY <2>1, <2>2, <2>3
<1>4. ASSUME NEW e \in Entries, Happened("undo", e), ~Spoiled(e), NEW f \in Coverable
      PROVE  disk'[f] # e
  <2>1. disk[f] # e /\ \A x \in Entries : Before(<<"undo", e>>, <<"snapshot", x>>) => before[x][f] # e
    BY <1>2, <1>4
  <2>2. SUFFICES ASSUME disk'[f] = e PROVE FALSE
    OBVIOUS
  <2>3. f \in Files
    BY <1>1
  <2>4. CASE disk'[f] = "absent"
    BY <2>2, <2>4, ContentsApart
  <2>5. CASE journal[e].state = "planned"
    BY <1>4, <2>5 DEF JournaledInv
  <2>6. CASE RestoreCheckout /\ before[restoring.entry][f] = e
    <3>. DEFINE r == restoring.entry
    <3>1. r \in Entries /\ Happened("snapshot", r) /\ ~Happened("undo", r)
      BY <2>6, BeingRestored DEF RestoreCheckout
    <3>2. Before(<<"snapshot", e>>, <<"snapshot", r>>)
      BY <2>3, <2>6, <3>1 DEF OriginInv
    <3>3. ~Before(<<"undo", e>>, <<"snapshot", r>>)
      BY <2>1, <2>6, <3>1
    <3>4. <<"undo", e>> # <<"snapshot", r>>
      <4>1. \A w, x, v, y : <<w, x>> = <<v, y>> => w = v
        OBVIOUS
      <4>. QED BY <4>1
    <3>5. Before(<<"snapshot", r>>, <<"undo", e>>)
      BY <1>4, <3>1, <3>3, <3>4, OrderIs
    <3>6. ~Before(<<"undo", r>>, <<"undo", e>>)
      BY <3>1, OrderIs
    <3>7. Spoiled(e)
      BY <3>1, <3>2, <3>5, <3>6 DEF Spoiled
    <3>. QED BY <1>4, <3>7
  <2>7. disk'[f] = disk[f] \/ disk'[f] = "absent" \/ journal[e].state = "planned"
        \/ (RestoreCheckout /\ before[restoring.entry][f] = e)
    BY <2>2, <2>3, DiskMoves
  <2>. QED BY <2>1, <2>2, <2>4, <2>5, <2>6, <2>7
<1>5. ASSUME NEW e \in Entries, Happened("undo", e), ~Spoiled(e), NEW f \in Coverable, NEW x \in Entries,
             Before(<<"undo", e>>, <<"snapshot", x>>)'
      PROVE  before'[x][f] # e
  <2>1. disk[f] # e /\ (Before(<<"undo", e>>, <<"snapshot", x>>) => before[x][f] # e)
    BY <1>2, <1>5
  <2>2. CASE \E d \in Entries : Snapshot(d)
    <3>1. PICK d \in Entries : Snapshot(d)
      BY <2>2
    <3>2. /\ before'[x] = IF x = d THEN disk ELSE before[x]
          /\ Before(<<"undo", e>>, <<"snapshot", x>>)' => Before(<<"undo", e>>, <<"snapshot", x>>) \/ x = d
      BY <3>1, SnapshotIs
    <3>. QED BY <1>5, <2>1, <3>2
  <2>3. CASE ~\E d \in Entries : Snapshot(d)
    <3>1. before' = before /\ Before(<<"undo", e>>, <<"snapshot", x>>)
      BY <1>5, <2>3, SnapshotsStay
    <3>. QED BY <2>1, <3>1
  <2>. QED BY <2>2, <2>3
<1>6. ASSUME NEW e \in Entries, Happened("undo", e)', ~Spoiled(e)', NEW f \in Coverable
      PROVE  disk'[f] # e /\ \A x \in Entries : Before(<<"undo", e>>, <<"snapshot", x>>)' => before'[x][f] # e
  <2>1. CASE Happened("undo", e)
    <3>1. ~Spoiled(e)
      BY <1>6, <2>1, SpoiledStays
    <3>. QED BY <1>4, <1>5, <2>1, <3>1
  <2>2. CASE ~Happened("undo", e)
    BY <1>3, <1>6, <2>2
  <2>. QED BY <2>1, <2>2
<1>. QED BY <1>6 DEF GoneInv, Coverable, InRoot

-----------------------------------------------------------------------------
(* The invariant.                                                          *)

LEMMA WorkspaceInit == GInit => WorkspaceInv
<1>. SUFFICES ASSUME GInit PROVE WorkspaceInv
  OBVIOUS
<1>1. /\ Init /\ command \in [Entries -> Commands]
      /\ \A e \in Entries : journal[e].tool = ClassifyCommand(command[e])
      /\ shell = [e \in Entries |-> [at |-> 1, cwd |-> "root"]]
      /\ disk \in [Files -> {"absent", "old"}] /\ index = OnDisk \cap Unignored(disk)
      /\ trees = [e \in Entries |-> NoTree] /\ restoring = NotRestoring /\ before = [e \in Entries |-> disk]
      /\ calm = Nobody /\ listedUnder = disk[RuleFile] /\ events = <<>>
  BY DEF GInit
<1>2. WTypeOK
  <2>1. TypeOK
    BY <1>1, TypeInit
  <2>2. disk \in [Files -> Contents] /\ before \in [Entries -> [Files -> Contents]]
    BY <1>1 DEF Contents
  <2>3. index \subseteq InRoot /\ shell \in [Entries -> [at : Nat \ {0}, cwd : Dirs]]
    BY <1>1 DEF Unignored, Dirs
  <2>4. events \in Seq({"snapshot", "commit", "undo", "half undo"} \X Entries)
    BY <1>1
  <2>5. listedUnder \in Contents
    BY <1>1, <2>2, WorkspaceAssumption
  <2>. QED BY <1>1, <2>1, <2>2, <2>3, <2>4, <2>5 DEF WTypeOK
<1>3. \A w, x : ~Happened(w, x)
  BY <1>1 DEF Happened
<1>4. \A e \in Entries : journal[e].state = "none"
  <2>1. journal \in [Entries -> {NoEntry(t) : t \in Tools}]
    BY <1>1 DEF Init
  <2>2. \A t : NoEntry(t).state = "none"
    BY DEF NoEntry
  <2>. HIDE DEF NoEntry
  <2>. QED BY <2>1, <2>2
<1>5. JournaledInv /\ TreesInv
  BY <1>1, <1>3, <1>4 DEF JournaledInv, TreesInv
<1>6. OriginInv
  <2>1. \A e \in Entries, f \in Files : disk[f] # e /\ before[e][f] # e
    <3>1. \A f \in Files : disk[f] \in {"absent", "old"}
      BY <1>1
    <3>. QED BY <1>1, <3>1, ContentsApart
  <2>. QED BY <1>3, <2>1 DEF OriginInv
<1>7. restoring.step = "none" /\ calm \notin Entries
  BY <1>1, ContentsApart DEF NotRestoring
<1>8. RestoringInv /\ CalmInv /\ GoneInv
  BY <1>3, <1>7 DEF RestoringInv, CalmInv, GoneInv
<1>. QED BY <1>2, <1>5, <1>6, <1>8 DEF WorkspaceInv

LEMMA WorkspaceKept == WorkspaceInv /\ [GNext]_gvars => WorkspaceInv'
<1>1. ASSUME WorkspaceInv, GNext PROVE WorkspaceInv'
  <2>1. WTypeOK /\ JournaledInv /\ TreesInv /\ OriginInv /\ RestoringInv /\ CalmInv /\ GoneInv
    BY <1>1 DEF WorkspaceInv
  <2>2. WTypeOK'
    BY <1>1, <2>1, WorkspaceTypes
  <2>3. JournaledInv' /\ TreesInv'
    BY <1>1, <2>1, JournaledKept, TreesKept
  <2>4. OriginInv' /\ RestoringInv'
    BY <1>1, <2>1, OriginKept, RestoringKept
  <2>5. CalmInv' /\ GoneInv'
    BY <1>1, <2>1, CalmKept, GoneKept
  <2>. QED BY <2>2, <2>3, <2>4, <2>5 DEF WorkspaceInv
<1>2. ASSUME WorkspaceInv, UNCHANGED gvars PROVE WorkspaceInv'
  <2>1. /\ UNCHANGED vars /\ command' = command /\ shell' = shell /\ disk' = disk /\ index' = index /\ trees' = trees
        /\ restoring' = restoring /\ before' = before /\ calm' = calm
        /\ listedUnder' = listedUnder /\ events' = events
    BY <1>2 DEF gvars, workspace, ghosts
  <2>2. TypeOK'
    BY <1>2, <2>1, TypeNext DEF WorkspaceInv, WTypeOK
  <2>3. WTypeOK'
    BY <1>2, <2>1, <2>2 DEF WorkspaceInv, WTypeOK, InRoot, NotRestoring, Contents, Nobody
  <2>4. journal' = journal /\ runs' = runs
    BY <2>1 DEF vars, history
  <2>5. JournaledInv' /\ TreesInv'
    BY <1>2, <2>1, <2>4 DEF WorkspaceInv, JournaledInv, TreesInv, Happened, Unignored, InRoot, NoTree, ClassifyCommand
  <2>6. OriginInv'
    BY <1>2, <2>1, <2>4 DEF WorkspaceInv, OriginInv, Happened, Before
  <2>7. RestoringInv'
    BY <1>2, <2>1, <2>4 DEF WorkspaceInv, RestoringInv, Created, HasLiveUndo, Coverable, InRoot, Nobody, Owed, Unignored
  <2>8. CalmInv'
    BY <1>2, <2>1, <2>4 DEF WorkspaceInv, CalmInv, Happened, Owed, Unignored, InRoot
  <2>9. GoneInv'
    BY <1>2, <2>1, <2>4 DEF WorkspaceInv, GoneInv, Spoiled, Happened, Before, Coverable, InRoot
  <2>. QED BY <2>3, <2>5, <2>6, <2>7, <2>8, <2>9 DEF WorkspaceInv
<1>. QED BY <1>1, <1>2

LEMMA WorkspaceInvariant == GSpec => []WorkspaceInv
<1>. QED BY WorkspaceInit, WorkspaceKept, PTL DEF GSpec

LEMMA UndoHolds == WorkspaceInv => UndoIsWhole
<1>. SUFFICES ASSUME WorkspaceInv PROVE UndoIsWhole
  OBVIOUS
<1>0. WTypeOK /\ JournaledInv /\ RestoringInv /\ CalmInv /\ GoneInv
  BY DEF WorkspaceInv
<1>1. RestoreIsExact
  <2>1. SUFFICES ASSUME NEW e \in Entries, journal[e].state = "reversed", calm = e, NEW f \in Owed(before[e], listedUnder)
                 PROVE  disk[f] = before[e][f]
    BY DEF RestoreIsExact, Promised, Owed
  <2>2. restoring.step = "none"
    <3>1. ASSUME restoring.step # "none" PROVE FALSE
      <4>1. calm \in {restoring.entry, Nobody} /\ HasLiveUndo(journal[restoring.entry])
        BY <1>0, <3>1 DEF RestoringInv
      <4>2. restoring.entry = e
        BY <2>1, <4>1, ContentsApart
      <4>. QED BY <2>1, <4>1, <4>2 DEF HasLiveUndo
    <3>. QED BY <3>1
  <2>. QED BY <1>0, <2>1, <2>2 DEF CalmInv
<1>2. ReversedIsGone
  <2>1. SUFFICES ASSUME restoring.step = "none", NEW e \in Entries, Happened("undo", e), LaterOnesFirst(e), NEW f \in Coverable
                 PROVE  disk[f] # e
    BY DEF ReversedIsGone
  <2>2. \A x \in Entries : restoring.entry # x
    BY <1>0, <2>1, StepOf
  <2>3. ASSUME NEW x \in Entries PROVE runs[x] > 0 => runs[x] # 0
    <3>1. runs[x] \in Nat
      BY <1>0 DEF WTypeOK, TypeOK
    <3>. QED BY <3>1
  <2>4. ~Spoiled(e)
    BY <2>1, <2>2, <2>3 DEF Spoiled, LaterOnesFirst
  <2>. QED BY <1>0, <2>1, <2>4 DEF GoneInv
<1>. QED BY <1>1, <1>2 DEF UndoIsWhole

\* An undo that nobody writes into brings back what its tree holds and takes away the rest
\* of what the ignore rules of the snapshot and of the restore show, and what
\* an undo took away does not return, unless by the undo of a command planned after the
\* undone one and before its undo (take_tree, restore_tree, ReversalEngine.reverse).
THEOREM RestoresStayWhole == GSpec => []UndoIsWhole
<1>. QED BY WorkspaceInvariant, UndoHolds, PTL

\* The workspace's undo, in three steps between which commands go on, keeps the rights of
\* the journal too (WorkspaceAdapter and the engine that calls it).
THEOREM WorkspaceKeepsRights == GSpec => ImplementsUndoRights
<1>1. GInit => Rights!RInit
  BY RightsInit DEF GInit
<1>2. WorkspaceInv /\ [GNext]_gvars => [Rights!RNext]_(Rights!rvars)
  <2>. SUFFICES ASSUME WorkspaceInv, [GNext]_gvars PROVE [Rights!RNext]_(Rights!rvars)
    OBVIOUS
  <2>1. TypeOK
    BY DEF WorkspaceInv, WTypeOK
  <2>2. [Next]_vars
    BY WorkspaceSteps DEF WorkspaceInv, gvars
  <2>. QED BY <2>1, <2>2, StepsAreRightful
<1>. QED BY <1>1, <1>2, WorkspaceInvariant, PTL DEF GSpec, ImplementsUndoRights, Rights!RSpec

-----------------------------------------------------------------------------
(* Where commands write.                                                   *)

\* A readable command that is called local stays where the snapshot looks.
CwdInv ==
  \A e \in Entries :
    Readable(command[e]) /\ ClassifyCommand(command[e]) = "local" => shell[e].cwd \in Inside

\* The ranks of the reaches.
LEMMA Ranks ==
  RankOf("read_only") = 1 /\ RankOf("local") = 2 /\ RankOf("unknown") = 3 /\ RankOf("escapes") = 4
<1>1. DOMAIN Reaches = 1 .. 4
  BY DEF Reaches
<1>2. \A i : i \in 1 .. 4 <=> i = 1 \/ i = 2 \/ i = 3 \/ i = 4
  OBVIOUS
<1>3. Reaches[1] = "read_only" /\ Reaches[2] = "local" /\ Reaches[3] = "unknown" /\ Reaches[4] = "escapes"
  BY DEF Reaches
<1>4. RankOf("read_only") = 1
  BY <1>1, <1>2, <1>3 DEF RankOf
<1>5. RankOf("local") = 2
  BY <1>1, <1>2, <1>3 DEF RankOf
<1>6. RankOf("unknown") = 3
  BY <1>1, <1>2, <1>3 DEF RankOf
<1>7. RankOf("escapes") = 4
  BY <1>1, <1>2, <1>3 DEF RankOf
<1>. QED BY <1>4, <1>5, <1>6, <1>7

\* The worst of some reaches is one of them, and none of them is worse.
LEMMA WorstIs ==
  ASSUME NEW S, S \subseteq {"read_only", "local", "unknown", "escapes"}, S # {}
  PROVE  WorstOf(S) \in S /\ \A s \in S : RankOf(s) <= RankOf(WorstOf(S))
<1>1. SUFFICES \E r \in S : \A s \in S : RankOf(s) <= RankOf(r)
  BY DEF WorstOf
<1>2. CASE "escapes" \in S
  BY <1>2, Ranks
<1>3. CASE "escapes" \notin S /\ "unknown" \in S
  <2>1. S \subseteq {"read_only", "local", "unknown"}
    BY <1>3
  <2>. QED BY <1>3, <2>1, Ranks
<1>4. CASE S \subseteq {"read_only", "local"} /\ "local" \in S
  BY <1>4, Ranks
<1>5. CASE S = {"read_only"}
  BY <1>5, Ranks
<1>. QED BY <1>2, <1>3, <1>4, <1>5

\* The reach of a fragment is one of the four.
LEMMA SimpleIs ==
  ASSUME NEW f
  PROVE  ClassifySimple(f) \in {"read_only", "local", "unknown", "escapes"}
BY DEF ClassifySimple

\* What the reach of a command says of each of its fragments.
LEMMA FragmentsOf ==
  ASSUME NEW c, ClassifyCommand(c) \in {"read_only", "local"}, NEW i \in DOMAIN c, c[i].body = "none"
  PROVE  /\ c[i].matches \notin {"escape", "opaque"}
         /\ ClassifyCommand(c) = "read_only" => ClassifySimple(c[i]) = "read_only"
         /\ ClassifyCommand(c) = "local" => /\ ClassifySimple(c[i]) \in {"read_only", "local"}
                                            /\ ~NavigatesAway(c[i])
<1>. DEFINE parts == Parts(c)
            reaches == {"read_only"} \cup {ClassifySimple(f) : f \in parts}
            worst == WorstOf(reaches)
            leftRoot == \E f \in parts : NavigatesAway(f)
<1>1. c[i] \in parts
  BY DEF Parts
<1>2. reaches \subseteq {"read_only", "local", "unknown", "escapes"} /\ reaches # {}
  BY SimpleIs
<1>3. ClassifySimple(c[i]) \in reaches
  BY <1>1
<1>4. ClassifyCommand(c) = IF \E f \in parts : f.matches = "escape" THEN "escapes"
                           ELSE IF \E f \in parts : f.matches = "opaque" THEN "unknown"
                           ELSE IF leftRoot /\ worst # "read_only" THEN "escapes"
                           ELSE worst
  BY DEF ClassifyCommand
<1>. HIDE DEF parts, reaches
<1>5. worst \in reaches /\ RankOf(ClassifySimple(c[i])) <= RankOf(worst)
  BY <1>2, <1>3, WorstIs
<1>. HIDE DEF worst
<1>6. /\ c[i].matches # "escape" /\ c[i].matches # "opaque"
      /\ ClassifyCommand(c) = worst
      /\ worst # "read_only" => ~NavigatesAway(c[i])
  BY <1>1, <1>4
<1>7. ClassifySimple(c[i]) \in {"read_only", "local", "unknown", "escapes"}
  BY SimpleIs
<1>8. worst = "read_only" => ClassifySimple(c[i]) = "read_only"
  BY <1>5, <1>7, Ranks
<1>9. worst = "local" => ClassifySimple(c[i]) \in {"read_only", "local"}
  BY <1>5, <1>7, Ranks
<1>. QED BY <1>6, <1>8, <1>9

\* From inside, a path that is not hidden and is not found to escape leads inside.
LEMMA LeadsInside ==
  ASSUME NEW cwd \in Inside, NEW s \in Spellings, s # "hidden", ~EscapesRoot(s)
  PROVE  LeadsTo(cwd, s) \subseteq Inside
<1>1. LeadsTo("root", "up") = {"above"} /\ LeadsTo("root", "absolute") = {"above"}
  BY DEF LeadsTo
<1>2. EscapesRoot("up") /\ EscapesRoot("absolute")
  BY <1>1 DEF EscapesRoot, Inside
<1>3. s \in {"name", "down", "rooted"}
  BY <1>2 DEF Spellings
<1>4. cwd = "root" \/ cwd = "under"
  BY DEF Inside
<1>. QED BY <1>3, <1>4 DEF LeadsTo, Inside

\* What the classifier reads of a fragment, as Readable has it.
ReadableFragment(f) ==
  /\ "hidden" \notin f.args \cup {f.redirects[j].to : j \in DOMAIN f.redirects}
  /\ f.lead => ~LeavesRoot(f)
  /\ f.redirects # <<>> => /\ Len(f.redirects) = 1 /\ ~f.redirects[1].numbered
                           /\ f.program = "reader"
  /\ f.behind \subseteq {"reader"}
  /\ f.body # "mistaken"

\* A readable fragment has no redirect, or one that is seen.
LEMMA RedirectsAre ==
  ASSUME NEW f \in Fragments, ReadableFragment(f)
  PROVE  \/ DOMAIN f.redirects = {} /\ SeenRedirects(f) = {}
         \/ /\ DOMAIN f.redirects = {1} /\ SeenRedirects(f) = {1} /\ f.program = "reader"
            /\ f.redirects[1].to \in Spellings \ {"hidden"}
            /\ RedirectEscapes(f) <=> EscapesRoot(f.redirects[1].to)
<1>1. f.redirects \in Seq([to : Spellings, numbered : BOOLEAN])
  BY DEF Fragments
<1>2. CASE f.redirects = <<>>
  <2>1. DOMAIN f.redirects = {}
    BY <1>2
  <2>. QED BY <2>1 DEF SeenRedirects
<1>3. CASE f.redirects # <<>>
  <2>1. Len(f.redirects) = 1 /\ ~f.redirects[1].numbered /\ f.program = "reader"
    BY <1>3 DEF ReadableFragment
  <2>2. DOMAIN f.redirects = {1}
    <3>1. 1 .. 1 = {1}
      OBVIOUS
    <3>. QED BY <1>1, <2>1, <3>1
  <2>3. f.redirects[1] \in [to : Spellings, numbered : BOOLEAN]
    <3>1. 1 \in 1 .. Len(f.redirects)
      BY <2>1
    <3>. QED BY <1>1, <3>1, ElementOfSeq
  <2>4. f.redirects[1].to \in Spellings /\ f.redirects[1].to # "hidden"
    BY <2>2, <2>3 DEF ReadableFragment
  <2>5. SeenRedirects(f) = {1}
    BY <2>1, <2>2 DEF SeenRedirects
  <2>6. RedirectEscapes(f) <=> EscapesRoot(f.redirects[1].to)
    BY <2>5 DEF RedirectEscapes
  <2>. QED BY <2>1, <2>2, <2>4, <2>5, <2>6
<1>. QED BY <1>2, <1>3

\* What a fragment writes, of one redirect or none and of programs that write at most to
\* its arguments and where they are run.
LEMMA WritesAre ==
  ASSUME NEW f \in Fragments, NEW cwd, ReadableFragment(f), f.matches = "nothing"
  PROVE  WritesIn(cwd, f) \subseteq
           Redirected(cwd, f)
           \cup (IF f.program = "tool" /\ f.readOnlySub THEN {} ELSE WrittenBy(f.program, cwd, f))
<1>1. WrittenBy("reader", cwd, f) = {}
  BY DEF WrittenBy
<1>2. \A p \in ProgramsOf(f) : p = "reader" \/ (p = f.program /\ ~(f.program = "tool" /\ f.readOnlySub))
  BY DEF ProgramsOf, ReadableFragment
<1>3. WritesIn(cwd, f) = Redirected(cwd, f) \cup UNION {WrittenBy(p, cwd, f) : p \in ProgramsOf(f)}
  BY DEF WritesIn
<1>4. ASSUME NEW x, x \in WritesIn(cwd, f), x \notin Redirected(cwd, f)
      PROVE  ~(f.program = "tool" /\ f.readOnlySub) /\ x \in WrittenBy(f.program, cwd, f)
  <2>1. PICK p \in ProgramsOf(f) : x \in WrittenBy(p, cwd, f)
    BY <1>3, <1>4
  <2>2. p # "reader"
    BY <1>1, <2>1
  <2>. QED BY <1>2, <2>1, <2>2
<1>. QED BY <1>4

\* A readable fragment that is read-only writes nothing.
LEMMA ReadOnlyWrites ==
  ASSUME NEW f \in Fragments, NEW cwd, ReadableFragment(f),
         ClassifySimple(f) = "read_only", f.matches = "nothing"
  PROVE  WritesIn(cwd, f) = {}
<1>1. SeenRedirects(f) = {}
  BY DEF ClassifySimple
<1>2. DOMAIN f.redirects = {}
  BY <1>1, RedirectsAre
<1>3. \/ f.program \in {"header", "navigator", "reader"}
      \/ f.program = "tool" /\ f.readOnlySub
  BY <1>1 DEF ClassifySimple
<1>4. (IF f.program = "tool" /\ f.readOnlySub THEN {} ELSE WrittenBy(f.program, cwd, f)) = {}
  BY <1>3 DEF WrittenBy
<1>5. Redirected(cwd, f) = {}
  BY <1>2 DEF Redirected
<1>. QED BY <1>4, <1>5, WritesAre

\* A readable fragment that is no worse than local, and does not navigate away, writes
\* inside and stays inside.
LEMMA LocalStays ==
  ASSUME NEW f \in Fragments, NEW cwd \in Inside, ReadableFragment(f), f.matches = "nothing",
         ClassifySimple(f) \in {"read_only", "local"}, ~NavigatesAway(f)
  PROVE  WritesIn(cwd, f) \subseteq Inside /\ MovesTo(cwd, f) \subseteq Inside
<1>1. f.args \subseteq Spellings /\ "hidden" \notin f.args /\ f.program \in Programs
  BY DEF Fragments, ReadableFragment
<1>2. \A a \in f.args : ~EscapesRoot(a) => LeadsTo(cwd, a) \subseteq Inside
  BY <1>1, LeadsInside
<1>3. Redirected(cwd, f) \subseteq Inside
  <2>1. CASE DOMAIN f.redirects = {}
    BY <2>1 DEF Redirected
  <2>2. CASE DOMAIN f.redirects # {}
    <3>1. /\ DOMAIN f.redirects = {1} /\ SeenRedirects(f) = {1} /\ f.redirects[1].to \in Spellings \ {"hidden"}
          /\ RedirectEscapes(f) <=> EscapesRoot(f.redirects[1].to)
      BY <2>2, RedirectsAre
    <3>2. ~RedirectEscapes(f)
      BY <3>1 DEF ClassifySimple
    <3>3. LeadsTo(cwd, f.redirects[1].to) \subseteq Inside
      BY <3>1, <3>2, LeadsInside
    <3>. QED BY <3>1, <3>3 DEF Redirected
  <2>. QED BY <2>1, <2>2
<1>4. f.program # "reader" => SeenRedirects(f) = {}
  BY RedirectsAre
<1>5. f.program # "other"
  BY <1>4 DEF ClassifySimple
<1>. DEFINE arguments == Below(UNION {LeadsTo(cwd, a) : a \in f.args})
<1>6. f.program \in {"writer", "tool"} /\ ~(f.program = "tool" /\ f.readOnlySub) => arguments \subseteq Inside
  <2>1. SUFFICES ASSUME f.program \in {"writer", "tool"}, ~(f.program = "tool" /\ f.readOnlySub)
                 PROVE  arguments \subseteq Inside
    OBVIOUS
  <2>2. ~\E a \in f.args : EscapesRoot(a)
    BY <1>4, <2>1 DEF ClassifySimple
  <2>. DEFINE all == UNION {LeadsTo(cwd, a) : a \in f.args}
  <2>3. all \subseteq Inside
    BY <1>2, <2>2
  <2>. HIDE DEF all
  <2>4. Below(all) \subseteq Inside
    BY <2>3 DEF Below, Inside
  <2>. QED BY <2>4 DEF all
<1>7. Below({cwd}) \subseteq Inside
  BY DEF Below, Inside
<1>. DEFINE own == IF f.program = "tool" /\ f.readOnlySub THEN {} ELSE WrittenBy(f.program, cwd, f)
<1>8. own \subseteq Inside
  <2>1. WrittenBy(f.program, cwd, f) = CASE f.program = "writer" -> arguments
                                         [] f.program = "tool" -> arguments \cup Below({cwd})
                                         [] f.program = "other" -> Dirs
                                         [] OTHER -> {}
    BY DEF WrittenBy
  <2>. HIDE DEF arguments
  <2>2. CASE f.program = "tool" /\ f.readOnlySub
    BY <2>2
  <2>3. CASE f.program = "tool" /\ ~f.readOnlySub
    BY <1>6, <1>7, <2>1, <2>3
  <2>4. CASE f.program = "writer"
    BY <1>6, <2>1, <2>4
  <2>5. CASE f.program \notin {"tool", "writer", "other"}
    BY <2>1, <2>5
  <2>. QED BY <1>5, <2>2, <2>3, <2>4, <2>5
<1>9. WritesIn(cwd, f) \subseteq Inside
  <2>1. WritesIn(cwd, f) \subseteq Redirected(cwd, f) \cup own
    BY WritesAre, Zenon
  <2>. HIDE DEF own
  <2>. QED BY <1>3, <1>8, <2>1
<1>. DEFINE dir(a) == IF a = "name" THEN "down" ELSE a
            there == IF f.args = {} THEN {"above"} ELSE UNION {LeadsTo(cwd, dir(a)) : a \in f.args}
<1>10. f.program = "navigator" => f.args # {} /\ ~\E a \in f.args : EscapesRoot(a)
  <2>1. f.program = "navigator" => f.balanced
    BY <1>4 DEF ClassifySimple
  <2>2. f.program = "navigator" => ~LeavesRoot(f)
    BY <2>1 DEF NavigatesAway, ReadableFragment
  <2>. QED BY <2>2 DEF LeavesRoot
<1>11. f.program = "navigator" => there \subseteq Inside
  <2>1. LeadsTo(cwd, "down") \subseteq Inside
    BY DEF LeadsTo, Inside
  <2>2. \A a \in f.args : ~EscapesRoot(a) => LeadsTo(cwd, dir(a)) \subseteq Inside
    BY <1>2, <2>1
  <2>. HIDE DEF dir
  <2>. QED BY <1>10, <2>2
<1>12. MovesTo(cwd, f) = IF f.behind = {}
                         THEN IF f.program = "navigator" THEN there ELSE {cwd}
                         ELSE {cwd} \cup (IF "navigator" \in f.behind \cup {f.program} THEN there ELSE {})
  BY DEF MovesTo
<1>. HIDE DEF there
<1>13. "navigator" \in f.behind => FALSE
  BY DEF ReadableFragment
<1>14. MovesTo(cwd, f) \subseteq Inside
  BY <1>11, <1>12, <1>13
<1>. QED BY <1>9, <1>14

\* One fragment of a readable command that is called local: it writes inside and stays.
LEMMA LocalRuns ==
  ASSUME WTypeOK, CwdInv, NEW e \in Entries, Readable(command[e]),
         NEW skip, NEW written \in SUBSET Files, NEW deleted \in {{}, written},
         RunFragment(e, skip, written, deleted)
  PROVE  /\ ClassifyCommand(command[e]) = "read_only" => disk' = disk
         /\ ClassifyCommand(command[e]) = "local" =>
              /\ \A f \in Files \ InRoot : disk'[f] = disk[f]
              /\ shell'[e].cwd \in Inside
<1>. DEFINE text == command[e]
            i == shell[e].at
            f == text[i]
            here == shell[e].cwd
            over == skip \/ f.body = "heredoc"
            area == {x \in Files : DirOf[x] \in WritesIn(here, f)}
<1>1. text \in Seq(Fragments) /\ i \in Nat \ {0}
  BY WorkspaceAssumption DEF WTypeOK
<1>2. /\ i <= Len(text) /\ written \subseteq area
      /\ over => written = {}
      /\ disk' = [x \in Files |-> IF x \in deleted THEN "absent" ELSE IF x \in written THEN e ELSE disk[x]]
      /\ \E cwd \in (IF over THEN {here} ELSE MovesTo(here, f)) :
           shell' = [shell EXCEPT ![e] = [at |-> @.at + 1, cwd |-> cwd]]
  BY DEF RunFragment
<1>3. i \in DOMAIN text /\ f \in Fragments
  <2>1. i \in 1 .. Len(text)
    BY <1>1, <1>2
  <2>. HIDE DEF text, i
  <2>. QED BY <1>1, <2>1
<1>4. deleted \subseteq written
  OBVIOUS
<1>5. disk = [x \in Files |-> disk[x]] /\ DOMAIN shell = Entries
  BY DEF WTypeOK
<1>6. PICK cwd \in (IF over THEN {here} ELSE MovesTo(here, f)) :
           shell' = [shell EXCEPT ![e] = [at |-> @.at + 1, cwd |-> cwd]]
  BY <1>2
<1>7. shell'[e].cwd = cwd
  BY <1>5, <1>6
<1>8. ReadableFragment(f)
  BY <1>3 DEF Readable, ReadableFragment
<1>9. f.matches \in Texts /\ \A t \in Texts : t \notin {"escape", "opaque"} => t = "nothing"
  BY <1>3 DEF Fragments, Texts
<1>10. ASSUME written = {} PROVE disk' = disk
  <2>1. \A x \in Files : x \notin deleted /\ x \notin written
    BY <1>4, <1>10
  <2>2. disk' = [x \in Files |-> disk[x]]
    BY <1>2, <2>1
  <2>. QED BY <1>5, <2>2
<1>. HIDE DEF text, i, f, here, area
<1>11. CASE over
  <2>1. disk' = disk
    BY <1>2, <1>10, <1>11
  <2>2. cwd = here
    BY <1>6, <1>11
  <2>3. ClassifyCommand(command[e]) = "local" => here \in Inside
    BY DEF CwdInv, here
  <2>. QED BY <1>7, <2>1, <2>2, <2>3
<1>12. CASE ~over
  <2>1. f.body = "none"
    <3>1. f.body \in Bodies
      BY <1>3 DEF Fragments
    <3>. QED BY <1>8, <1>12, <3>1 DEF Bodies, ReadableFragment
  <2>2. cwd \in MovesTo(here, f)
    BY <1>6, <1>12
  <2>3. ClassifyCommand(text) \in {"read_only", "local"} =>
          /\ f.matches \notin {"escape", "opaque"}
          /\ ClassifyCommand(text) = "read_only" => ClassifySimple(f) = "read_only"
          /\ ClassifyCommand(text) = "local" => ClassifySimple(f) \in {"read_only", "local"} /\ ~NavigatesAway(f)
    <3>1. ASSUME ClassifyCommand(text) \in {"read_only", "local"}, text[i].body = "none"
          PROVE  /\ text[i].matches \notin {"escape", "opaque"}
                 /\ ClassifyCommand(text) = "read_only" => ClassifySimple(text[i]) = "read_only"
                 /\ ClassifyCommand(text) = "local" =>
                      ClassifySimple(text[i]) \in {"read_only", "local"} /\ ~NavigatesAway(text[i])
      BY <1>3, <3>1, FragmentsOf
    <3>. QED BY <2>1, <3>1 DEF f
  <2>4. ASSUME ClassifyCommand(text) = "read_only" PROVE disk' = disk
    <3>1. f.matches = "nothing" /\ ClassifySimple(f) = "read_only"
      BY <1>9, <2>3, <2>4
    <3>2. WritesIn(here, f) = {}
      BY <1>3, <1>8, <3>1, ReadOnlyWrites
    <3>3. written = {}
      BY <1>2, <3>2 DEF area
    <3>. QED BY <1>10, <3>3
  <2>5. ASSUME ClassifyCommand(text) = "local"
        PROVE  (\A x \in Files \ InRoot : disk'[x] = disk[x]) /\ shell'[e].cwd \in Inside
    <3>1. f.matches = "nothing" /\ ClassifySimple(f) \in {"read_only", "local"} /\ ~NavigatesAway(f)
      BY <1>9, <2>3, <2>5
    <3>2. here \in Inside
      BY <2>5 DEF CwdInv, here, text
    <3>3. WritesIn(here, f) \subseteq Inside /\ MovesTo(here, f) \subseteq Inside
      BY <1>3, <1>8, <3>1, <3>2, LocalStays
    <3>4. \A x \in written : x \in InRoot
      BY <1>2, <3>3 DEF area, InRoot
    <3>5. \A x \in Files \ InRoot : x \notin written /\ x \notin deleted
      BY <1>4, <3>4
    <3>. QED BY <1>2, <1>7, <2>2, <3>3, <3>5
  <2>. QED BY <2>4, <2>5 DEF text
<1>. QED BY <1>11, <1>12

\* Only running a fragment moves a shell, and no text changes.
LEMMA ShellMoves ==
  ASSUME WTypeOK, GNext, NEW e \in Entries
  PROVE  /\ command' = command
         /\ \/ shell'[e] = shell[e]
            \/ \E skip \in BOOLEAN, written \in SUBSET Files : \E deleted \in {{}, written} :
                 RunFragment(e, skip, written, deleted)
<1>1. ASSUME NEW x \in Entries, Snapshot(x) PROVE command' = command /\ shell' = shell
  BY <1>1 DEF Snapshot
<1>2. ASSUME NEW x \in Entries, NEW captured, Guard(x, captured) PROVE command' = command /\ shell' = shell
  BY <1>2 DEF Guard, workspace
<1>3. ASSUME NEW x \in Entries, ConfirmCommand(x) PROVE command' = command /\ shell' = shell
  BY <1>3 DEF ConfirmCommand, workspace
<1>4. ASSUME NEW x \in Entries, RestoreFails(x) PROVE command' = command /\ shell' = shell
  BY <1>4 DEF RestoreFails
<1>5. ASSUME NEW x \in Entries, NEW list, RestoreBegin(x, list) PROVE command' = command /\ shell' = shell
  BY <1>5 DEF RestoreBegin
<1>6. ASSUME NEW f \in Files, Stage(f) PROVE command' = command /\ shell' = shell
  BY <1>6 DEF Stage
<1>7. ASSUME RestoreCheckout PROVE command' = command /\ shell' = shell
  BY <1>7 DEF RestoreCheckout
<1>8. ASSUME RestoreRemove PROVE command' = command /\ shell' = shell
  BY <1>8 DEF RestoreRemove
<1>9. ASSUME NEW x \in Entries, NEW skip \in BOOLEAN, NEW written \in SUBSET Files,
             NEW deleted \in {{}, written}, RunFragment(x, skip, written, deleted)
      PROVE  command' = command /\ (x = e \/ shell'[e] = shell[e])
  <2>1. DOMAIN shell = Entries
    BY DEF WTypeOK
  <2>2. command' = command /\ \E r : shell' = [shell EXCEPT ![x] = r]
    BY <1>9 DEF RunFragment
  <2>. QED BY <2>1, <2>2
<1>. QED BY <1>1, <1>2, <1>3, <1>4, <1>5, <1>6, <1>7, <1>8, <1>9 DEF GNext

LEMMA CwdKept ==
  ASSUME WTypeOK, CwdInv, GNext \/ UNCHANGED gvars
  PROVE  CwdInv'
<1>1. CASE UNCHANGED gvars
  BY <1>1 DEF CwdInv, gvars, workspace
<1>2. CASE GNext
  <2>1. ASSUME NEW e \in Entries, Readable(command[e]), ClassifyCommand(command[e]) = "local"
        PROVE  shell'[e].cwd \in Inside
    <3>1. CASE shell'[e] = shell[e]
      BY <2>1, <3>1 DEF CwdInv
    <3>2. ASSUME NEW skip \in BOOLEAN, NEW written \in SUBSET Files, NEW deleted \in {{}, written},
                 RunFragment(e, skip, written, deleted)
          PROVE  shell'[e].cwd \in Inside
      BY <2>1, <3>2, LocalRuns
    <3>. QED BY <1>2, <3>1, <3>2, ShellMoves
  <2>2. Entries # {} => command' = command
    BY <1>2, ShellMoves
  <2>. QED BY <2>1, <2>2 DEF CwdInv
<1>. QED BY <1>1, <1>2

\* As long as the classifier sees all that the shell runs of a text (Readable) and the lists
\* are right about the programs they name, a command that classify calls read-only writes nothing, and one
\* that it calls local writes nothing outside of the directory the snapshot covers.
THEOREM ReachesAlwaysHold == GSpec => ReachHolds
<1>1. GInit => CwdInv
  BY DEF GInit, CwdInv, Inside
<1>2. WorkspaceInv /\ CwdInv /\ [GNext]_gvars => CwdInv'
  BY CwdKept DEF WorkspaceInv
<1>3. ASSUME WorkspaceInv, CwdInv, [GNext]_gvars
      PROVE  [\A e \in Entries :
                shell'[e] # shell[e] /\ Readable(command[e]) =>
                  /\ journal[e].tool = "read_only" => disk' = disk
                  /\ journal[e].tool = "local" => \A f \in Files \ InRoot : disk'[f] = disk[f]]_gvars
  <2>1. SUFFICES ASSUME GNext, NEW e \in Entries, shell'[e] # shell[e], Readable(command[e])
                 PROVE  /\ journal[e].tool = "read_only" => disk' = disk
                        /\ journal[e].tool = "local" => \A f \in Files \ InRoot : disk'[f] = disk[f]
    BY <1>3
  <2>2. WTypeOK /\ journal[e].tool = ClassifyCommand(command[e])
    BY <1>3 DEF WorkspaceInv, JournaledInv
  <2>3. PICK skip \in BOOLEAN, written \in SUBSET Files :
          \E deleted \in {{}, written} : RunFragment(e, skip, written, deleted)
    BY <2>1, <2>2, ShellMoves
  <2>4. PICK deleted \in {{}, written} : RunFragment(e, skip, written, deleted)
    BY <2>3
  <2>. QED BY <1>3, <2>1, <2>2, <2>4, LocalRuns
<1>. QED BY <1>1, <1>2, <1>3, WorkspaceInvariant, PTL DEF GSpec, ReachHolds

=============================================================================
