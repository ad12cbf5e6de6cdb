--------------------------- MODULE DrillRegister ---------------------------
(***************************************************************************)
(* Drills and the register of proven recoverability: src/src/revoco/       *)
(* drills.py, with the drills table of store/sqlite.py.                    *)
(*                                                                         *)
(* A drill runs a tool and its inverse against a canary and compares what  *)
(* the system of record shows before, between and after.  The register     *)
(* keeps the newest result of each tool, and the control plane's classify  *)
(* hook demotes a tool that has results and no fresh proof among them.  A  *)
(* scheduled pass drills what is due, operators drill by hand, and the     *)
(* register is rebuilt from the table when the process starts.             *)
(*                                                                         *)
(* Time is kept as ages, in ticks; a drill lasts one tick.                 *)
(***************************************************************************)
EXTENDS Naturals, Sequences, FiniteSets, FiniteSetsExt, SequencesExt

CONSTANTS
  Tools,
  Operators,    \* whoever drills by hand
  Scheduler,    \* whoever runs DrillRunner.drill_due
  Fields,       \* what the canaries' verify compares
  WorldsOf,     \* what a drill of each tool may meet, a set of sights
  StaleAfter,   \* a proof is fresh up to this age
  RefreshAt,    \* a proof is due for renewal from this age on
  MaxBatch,     \* max_batch of drill_due; 0 is no throttle
  Period,       \* longest pause between two scheduled passes
  MaxChanges,   \* bound on changes of the world
  MaxManual,    \* bound on drills by hand
  MaxTroubles,  \* bound on restarts and refused rows
  MaxDowntime   \* longest downtime of a restart

Workers == Operators \cup {Scheduler}

\* What one drill meets: whether the canary's call has an undo path, how many of
\* the three verify calls succeed, whether the forward action does, the fields
\* it changed, what became of the undo, and the fields wrong after it.
Sights ==
  [undoable : BOOLEAN, reads : 0 .. 3, forward : BOOLEAN, moved : SUBSET Fields,
   undo : {"ran", "refused", "raised"}, wrong : SUBSET Fields]

Worlds == UNION {WorldsOf[t] : t \in Tools}

ASSUME DrillAssumption ==
  /\ Worlds \subseteq Sights
  /\ Scheduler \notin Operators /\ IsFiniteSet(Tools)
  /\ StaleAfter \in Nat /\ RefreshAt \in 1 .. StaleAfter /\ MaxBatch \in Nat
  /\ Period \in Nat /\ MaxChanges \in Nat /\ MaxManual \in Nat
  /\ MaxTroubles \in Nat /\ MaxDowntime \in Nat

\* No drill was recorded.
None == [undoable |-> FALSE, reads |-> 0, forward |-> FALSE, moved |-> {},
         undo |-> "ran", wrong |-> {}]

Old == StaleAfter + 1      \* an age past every limit
Never == StaleAfter + 2    \* the age of what has not happened
Ages == 0 .. Never

VARIABLES
  world,     \* what a drill of each tool would meet now
  register,  \* RecoverabilityRegister._by_tool
  table,     \* the drills table: of each tool, the newest row and newest pass
  worker,    \* the drills each worker has before it
  pause,     \* ticks since the last scheduled pass ended
  steady,    \* history: proven tools whose canary has passed ever since
  tangled,   \* history: tools of which two drills overlapped
  changes, manual, troubles  \* history: how often

counters == <<changes, manual, troubles>>
dvars == <<world, register, table, worker, pause, steady, tangled, counters>>

Idle == [at |-> "idle", todo |-> <<>>, age |-> 0, saw |-> None]
Undrilled == [drilled |-> FALSE, last |-> None, pass |-> Never]

DTypeOK ==
  /\ DOMAIN world = Tools /\ \A t \in Tools : world[t] \in WorldsOf[t]
  /\ register \in [Tools -> [drilled : BOOLEAN, last : Worlds \cup {None}, pass : Ages]]
  /\ table \in [Tools -> [drilled : BOOLEAN, last : Worlds \cup {None}, pass : Ages, age : Ages]]
  /\ worker \in [Workers -> [at : {"idle", "drilling", "stored"}, todo : Seq(Tools),
                             age : 0 .. 1, saw : Worlds \cup {None}]]
  /\ pause \in 0 .. Period
  /\ steady \subseteq Tools /\ tangled \subseteq Tools
  /\ changes \in 0 .. MaxChanges /\ manual \in 0 .. MaxManual
  /\ troubles \in 0 .. MaxTroubles

Init ==
  /\ world \in {w \in [Tools -> Worlds] : \A t \in Tools : w[t] \in WorldsOf[t]}
  /\ register = [t \in Tools |-> Undrilled]
  /\ table = [t \in Tools |-> [drilled |-> FALSE, last |-> None, pass |-> Never, age |-> Never]]
  /\ worker = [w \in Workers |-> Idle]
  /\ pause = 0
  /\ steady = {} /\ tangled = {}
  /\ changes = 0 /\ manual = 0 /\ troubles = 0

-----------------------------------------------------------------------------
(* Verdicts.                                                               *)

\* DrillRunner.drill, by its returns.
Outcome(s) ==
  IF ~s.undoable THEN "not_drillable"
  ELSE IF s.reads = 0 \/ ~s.forward THEN "forward_failed"
  ELSE IF s.reads = 1 THEN "errored"
  ELSE IF s.moved = {} THEN "forward_no_op"
  ELSE IF s.undo = "refused" THEN "unavailable"
  ELSE IF s.undo = "raised" \/ s.reads = 2 THEN "errored"
  ELSE IF s.wrong = {} THEN "passed"
  ELSE IF s.moved \ s.wrong = {} /\ s.wrong \ s.moved = {} THEN "failed"
  ELSE "partial"

IsProof(outcome) == outcome = "passed"
IsAlarm(outcome) == outcome \notin {"passed", "not_drillable"}

Fresh(age) == age <= StaleAfter

IsProven(t) ==
  register[t].drilled /\ IsProof(Outcome(register[t].last)) /\ Fresh(register[t].pass)

\* The classify hook, for a call with an undo path: it is taken for irreversible.
Demoted(t) == register[t].drilled /\ ~IsProven(t)

-----------------------------------------------------------------------------
(* The schedule.                                                           *)

\* Fault: a proof is renewed when it has lapsed.
LapsedAge(age) == age > StaleAfter

RenewalAge(age) == age >= RefreshAt

\* 0 is most urgent; 6 is not due.
Urgency(t) ==
  LET e == register[t]
      o == Outcome(e.last)
  IN CASE ~e.drilled -> 3
       [] e.drilled /\ o = "not_drillable" -> 6
       [] e.drilled /\ o \in {"failed", "partial", "errored"} -> 0
       [] e.drilled /\ o = "unavailable" -> 1
       [] e.drilled /\ o \in {"forward_failed", "forward_no_op"} -> 2
       [] e.drilled /\ o = "passed" ->
            IF ~Fresh(e.pass) THEN 4 ELSE IF RenewalAge(e.pass) THEN 5 ELSE 6

AgeOf(t) == IF register[t].pass = Never THEN 0 ELSE register[t].pass

\* Most urgent first, then oldest first.
Before(t, u) == Urgency(t) < Urgency(u) \/ (Urgency(t) = Urgency(u) /\ AgeOf(t) > AgeOf(u))

\* Fault: alarms are left to people.
QuietTools == {t \in Tools : Urgency(t) \in 3 .. 5}

DueTools == {t \in Tools : Urgency(t) < 6}

Cut(list) == IF MaxBatch = 0 THEN list ELSE SubSeq(list, 1, Min({MaxBatch, Len(list)}))

\* The lists due may return: tools of equal rank come in any order.
Due ==
  {Cut(list) : list \in {q \in SetToSeqs(DueTools) :
                           \A i, j \in DOMAIN q : i < j => ~Before(q[j], q[i])}}

-----------------------------------------------------------------------------
(* Drilling.                                                               *)

\* DrillRunner.drill_due asks for the list once.
BeginPass ==
  /\ worker[Scheduler] = Idle
  /\ \E list \in Due : worker' = [worker EXCEPT ![Scheduler].todo = list]
  /\ pause' = 0
  /\ UNCHANGED <<world, register, table, steady, tangled, counters>>

DrillByHand(w, t) ==
  /\ worker[w] = Idle
  /\ manual < MaxManual
  /\ worker' = [worker EXCEPT ![w].todo = <<t>>]
  /\ manual' = manual + 1
  /\ UNCHANGED <<world, register, table, pause, steady, tangled, changes, troubles>>

Drilling(w, t) == worker[w].at # "idle" /\ Head(worker[w].todo) = t

Start(w) ==
  /\ worker[w].at = "idle"
  /\ worker[w].todo # <<>>
  /\ worker' = [worker EXCEPT ![w].at = "drilling", ![w].age = 0]
  /\ LET t == Head(worker[w].todo)
     IN tangled' = IF \E v \in Workers : Drilling(v, t) THEN tangled \cup {t} ELSE tangled
  /\ UNCHANGED <<world, register, table, pause, steady, counters>>

Least(a, b) == IF a < b THEN a ELSE b

\* The table's view of a tool after a row of this age: rows are read back in the
\* order of their start.
Inserted(row, sight, age, newest) ==
  [drilled |-> TRUE,
   last |-> IF newest THEN sight ELSE row.last,
   pass |-> IF IsProof(Outcome(sight)) THEN Least(row.pass, age) ELSE row.pass,
   age |-> Least(row.age, age)]

\* RecoverabilityRegister.record: the row first.
Persist(w) ==
  /\ worker[w].at = "drilling" /\ worker[w].age = 1
  /\ LET t == Head(worker[w].todo)
     IN /\ worker' = [worker EXCEPT ![w].at = "stored", ![w].saw = world[t]]
        /\ \E newest \in BOOLEAN :
             /\ table[t].age > worker[w].age => newest
             /\ table' = [table EXCEPT ![t] = Inserted(@, world[t], worker[w].age, newest)]
  /\ UNCHANGED <<world, register, pause, steady, tangled, counters>>

\* The store refuses the row: the pass ends there.
PersistFails(w) ==
  /\ worker[w].at = "drilling" /\ worker[w].age = 1
  /\ troubles < MaxTroubles
  /\ worker' = [worker EXCEPT ![w] = Idle]
  /\ troubles' = troubles + 1
  /\ steady' = {}
  /\ UNCHANGED <<world, register, table, pause, tangled, changes, manual>>

\* Fault: a drill that fails discards the last pass.
RecordedBare(entry, sight, age) ==
  [drilled |-> TRUE, last |-> sight, pass |-> IF IsProof(Outcome(sight)) THEN age ELSE Never]

Recorded(entry, sight, age) ==
  [drilled |-> TRUE, last |-> sight,
   pass |-> IF IsProof(Outcome(sight)) THEN age ELSE entry.pass]

\* RecoverabilityRegister._ingest.
Ingest(w) ==
  /\ worker[w].at = "stored"
  /\ LET t == Head(worker[w].todo)
         sight == worker[w].saw
     IN /\ register' = [register EXCEPT ![t] = Recorded(@, sight, worker[w].age)]
        /\ steady' = IF IsProof(Outcome(sight)) /\ sight = world[t]
                     THEN steady \cup {t} ELSE steady
        /\ worker' = [worker EXCEPT ![w] = [Idle EXCEPT !.todo = Tail(worker[w].todo)]]
  /\ UNCHANGED <<world, table, pause, tangled, counters>>

-----------------------------------------------------------------------------
(* Time, restarts and the world.                                           *)

Aged(age, ticks) == IF age = Never THEN Never ELSE Least(age + ticks, Old)

\* Work at hand is worked on, and the next pass is not late.
TimeMayPass ==
  /\ \A w \in Workers : worker[w].todo # <<>> => worker[w].at = "drilling" /\ worker[w].age = 0
  /\ worker[Scheduler] = Idle => pause < Period

Tick ==
  /\ TimeMayPass
  /\ register' = [t \in Tools |-> [register[t] EXCEPT !.pass = Aged(@, 1)]]
  /\ table' = [t \in Tools |-> [table[t] EXCEPT !.pass = Aged(@, 1), !.age = Aged(@, 1)]]
  /\ worker' = [w \in Workers |->
                  IF worker[w].at = "drilling" THEN [worker[w] EXCEPT !.age = 1] ELSE worker[w]]
  /\ pause' = IF worker[Scheduler] = Idle THEN pause + 1 ELSE pause
  /\ UNCHANGED <<world, steady, tangled, counters>>

\* RecoverabilityRegister.__init__ over SqliteStore.load_drills.
Rebuilt(row) == [drilled |-> row.drilled, last |-> row.last, pass |-> row.pass]

\* The process stops, is down for some ticks, and starts again.
Restart(downtime) ==
  /\ troubles < MaxTroubles
  /\ troubles' = troubles + 1
  /\ table' = [t \in Tools |-> [table[t] EXCEPT !.pass = Aged(@, downtime),
                                                !.age = Aged(@, downtime)]]
  /\ register' = [t \in Tools |-> Rebuilt(table'[t])]
  /\ worker' = [w \in Workers |-> Idle]
  /\ pause' = 0
  /\ steady' = {} /\ tangled' = {}
  /\ UNCHANGED <<world, changes, manual>>

ChangeWorld(t, sight) ==
  /\ changes < MaxChanges
  /\ sight # world[t]
  /\ world' = [world EXCEPT ![t] = sight]
  /\ changes' = changes + 1
  /\ steady' = steady \ {t}
  /\ UNCHANGED <<register, table, worker, pause, tangled, manual, troubles>>

Work(w) == Start(w) \/ Persist(w) \/ Ingest(w)

Next ==
  \/ BeginPass
  \/ \E w \in Operators, t \in Tools : DrillByHand(w, t)
  \/ \E w \in Workers : Work(w) \/ PersistFails(w)
  \/ Tick
  \/ \E downtime \in 0 .. MaxDowntime : Restart(downtime)
  \/ \E t \in Tools : \E sight \in WorldsOf[t] : ChangeWorld(t, sight)

Spec == Init /\ [][Next]_dvars

\* The clock runs, the scheduled pass comes round, and a drill that was begun is
\* carried out; nobody has to drill by hand.
FairSpec ==
  Spec /\ WF_dvars(Tick) /\ WF_dvars(BeginPass) /\ \A w \in Workers : WF_dvars(Work(w))

-----------------------------------------------------------------------------
(* Properties.                                                             *)

\* A tool is taken for proven only if its newest recorded drill changed the
\* canary, ran the inverse, and read everything back as it was.
ProofIsEarned ==
  \A t \in Tools : IsProven(t) =>
    LET s == register[t].last
    IN s.undoable /\ s.forward /\ s.moved # {} /\ s.undo = "ran" /\ s.wrong = {} /\ s.reads = 3

Recording(t) == \E w \in Workers : worker[w].at = "stored" /\ Head(worker[w].todo) = t

\* A restart changes no verdict: the table, read back in order of start, gives
\* the register that is in memory, unless drills of one tool overlapped.
RestartChangesNothing ==
  \A t \in Tools : t \in tangled \/ Recording(t) \/ register[t] = Rebuilt(table[t])

\* The age of a proof that is just recorded, or not yet due.
Early == IF RefreshAt = 1 THEN 1 ELSE RefreshAt - 1

\* The schedule keeps up: nothing is throttled away, and between the age at which a
\* proof is due and the age at which it lapses there is room for one pass over the
\* other tools, a pause, and one pass over all.
ScheduleHasRoom ==
  /\ MaxBatch = 0 \/ MaxBatch >= Cardinality(Tools)
  /\ Early + Period + 2 * Cardinality(Tools) <= StaleAfter + 1

\* Renewal before expiry: where the schedule has room, a tool whose canary has passed
\* ever since it was proven does not lose its proof to the scheduler, whatever the
\* other tools need.
ProofsStayFresh == \A t \in steady \ tangled : IsProven(t)

\* An inverse that stopped working is found out, and its tool demoted.
BrokenIsFound ==
  \A t \in Tools : <>[]IsAlarm(Outcome(world[t])) => <>[]Demoted(t)

\* A tool whose inverse works, or works again, is proven, and stays so; unless
\* its last drill found nothing to drill: due() never offers that tool again.
WorkingIsProven ==
  \A t \in Tools :
    <>[]IsProof(Outcome(world[t])) =>
      <>[](IsProven(t) \/ Outcome(register[t].last) = "not_drillable")

\* The types, what a proof stands for, and the register across restarts, together.
RegisterKeepsProofs == DTypeOK /\ ProofIsEarned /\ RestartChangesNothing

\* What the register says follows what the inverse does, both ways.
VerdictsFollowTheWorld == BrokenIsFound /\ WorkingIsProven
=============================================================================
