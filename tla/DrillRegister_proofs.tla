------------------------ MODULE DrillRegister_proofs ------------------------
(***************************************************************************)
(* Proofs about DrillRegister, DrillReports and ValidationRuns: a proof    *)
(* stands for a drill that changed something and put it back, a restart    *)
(* reads the register that was in memory back from the table, no proof     *)
(* lapses behind a schedule that has room, the readers of the register     *)
(* agree, and clean reports keep what was proven.                          *)
(*                                                                         *)
(* The table is read back in the order of start, memory is written in the  *)
(* order of recording.  For a tool whose drills do not overlap the two     *)
(* orders agree: whoever drills it is the only one, and every row of the   *)
(* table is older than the drill.                                          *)
(*                                                                         *)
(* A proof waits for its renewal in the pass that goes on, and if it was   *)
(* not due when that began, in the next; each drill ahead of it costs a    *)
(* tick.  Waiting bounds its age by what is still ahead.                   *)
(***************************************************************************)
EXTENDS ValidationRuns, FiniteSetTheorems, SequenceTheorems, WellFoundedInduction, TLAPS

\* A worker that drills has a tool, and stores its row a tick after the start.
WorkersInv ==
  \A w \in Workers :
    /\ worker[w].at # "idle" => worker[w].todo # <<>>
    /\ worker[w].at = "stored" => worker[w].age = 1

\* Every row is at least as old as a drill is long.
RowsInv == \A t \in Tools : table[t].age # 0 /\ table[t].pass # 0

Storing(w, t) == worker[w].at = "stored" /\ Drilling(w, t)

\* Of a tool whose drills never overlapped: one worker at most drills it, later than
\* any row, and the register is what the table gives, or lacks the row just stored.
Books(t) ==
  /\ \A v, w \in Workers : Drilling(v, t) /\ Drilling(w, t) => v = w
  /\ \A w \in Workers : Drilling(w, t) /\ worker[w].at = "drilling" => table[t].age > worker[w].age
  /\ \A w \in Workers :
       Storing(w, t) => Rebuilt(table[t]) = Recorded(register[t], worker[w].saw, worker[w].age)
  /\ (\A w \in Workers : ~Storing(w, t)) => register[t] = Rebuilt(table[t])

BooksInv == \A t \in Tools \ tangled : Books(t)

RegisterInv == DTypeOK /\ WorkersInv /\ RowsInv /\ BooksInv

-----------------------------------------------------------------------------
(* Helpers.                                                                *)

\* What one batch drills is a list of tools.
LEMMA DueType ==
  ASSUME NEW list \in Due
  PROVE  list \in Seq(Tools)
<1>1. IsFiniteSet(DueTools) /\ DueTools \subseteq Tools
  BY DrillAssumption, FS_Subset DEF DueTools
<1>2. Cardinality(DueTools) \in Nat
  BY <1>1, FS_CardinalityType
<1>3. PICK q \in SetToSeqs(DueTools) : list = Cut(q)
  BY DEF Due
<1>4. q \in [1 .. Cardinality(DueTools) -> DueTools]
  BY <1>3 DEF SetToSeqs
<1>5. q \in Seq(Tools) /\ Len(q) \in Nat
  BY <1>1, <1>2, <1>4
<1>6. Min({MaxBatch, Len(q)}) \in 0 .. Len(q)
  <2>1. \E x \in {MaxBatch, Len(q)} : \A y \in {MaxBatch, Len(q)} : x <= y
    BY <1>5, DrillAssumption
  <2>2. /\ Min({MaxBatch, Len(q)}) \in {MaxBatch, Len(q)}
        /\ \A y \in {MaxBatch, Len(q)} : Min({MaxBatch, Len(q)}) <= y
    BY <2>1 DEF Min
  <2> QED
    BY <1>5, <2>2, DrillAssumption
<1>7. ASSUME NEW n \in 0 .. Len(q) PROVE SubSeq(q, 1, n) \in Seq(Tools)
  BY <1>5
<1> QED
  BY <1>3, <1>5, <1>6, <1>7 DEF Cut

\* Ages stay ages, and whatever gets older by a tick is at least two ticks old.
LEMMA AgedType ==
  ASSUME NEW age \in Ages, NEW ticks \in Nat
  PROVE  /\ Aged(age, ticks) \in Ages
         /\ age # 0 => Aged(age, ticks) # 0
         /\ age # 0 /\ ticks = 1 => Aged(age, ticks) > 1
BY DrillAssumption DEF Aged, Ages, Never, Old, Least

\* What may be seen is a sight.
LEMMA SightType ==
  ASSUME DTypeOK, NEW t \in Tools
  PROVE  world[t] \in Worlds /\ world[t] \in Sights /\ None \notin {s \in Sights : s.undoable}
BY DrillAssumption DEF DTypeOK, Worlds, None

\* The head of a list of tools is a tool, and the tail a list of tools.
LEMMA HeadIsTool ==
  ASSUME NEW list \in Seq(Tools), list # <<>>
  PROVE  Head(list) \in Tools /\ Tail(list) \in Seq(Tools)
OBVIOUS

WorkerStates ==
  [at : {"idle", "drilling", "stored"}, todo : Seq(Tools), age : 0 .. 1,
   saw : Worlds \cup {None}]

Entries == [drilled : BOOLEAN, last : Worlds \cup {None}, pass : Ages]

Rows == [drilled : BOOLEAN, last : Worlds \cup {None}, pass : Ages, age : Ages]

\* What becomes of a worker that begins, and of one that is done.
LEMMA BegunWorker ==
  ASSUME NEW x \in WorkerStates, NEW y, y = [x EXCEPT !.at = "drilling", !.age = 0]
  PROVE  y = [at |-> "drilling", todo |-> x.todo, age |-> 0, saw |-> x.saw]
BY DEF WorkerStates

LEMMA DoneWorker ==
  ASSUME NEW list \in Seq(Tools), NEW y, y = [Idle EXCEPT !.todo = list]
  PROVE  y \in WorkerStates /\ y.at = "idle" /\ y.todo = list
BY DEF WorkerStates, Idle

\* What becomes of an entry, and of a row, as time passes.
LEMMA OldEntry ==
  ASSUME NEW x \in Entries, NEW age \in Ages, NEW y, y = [x EXCEPT !.pass = age]
  PROVE  y \in Entries /\ y = [drilled |-> x.drilled, last |-> x.last, pass |-> age]
BY DEF Entries

LEMMA OldRow ==
  ASSUME NEW x \in Rows, NEW pass \in Ages, NEW age \in Ages,
         NEW y, y = [x EXCEPT !.pass = pass, !.age = age]
  PROVE  y = [drilled |-> x.drilled, last |-> x.last, pass |-> pass, age |-> age]
BY DEF Rows

\* A step that leaves the books alone, and gives no worker a drill it did not have.
LEMMA BooksFrame ==
  ASSUME RegisterInv, UNCHANGED <<register, table>>, tangled \subseteq tangled',
         \A w \in Workers : \/ worker'[w].at = "idle" /\ worker[w].at # "stored"
                            \/ worker'[w] = worker[w]
  PROVE  BooksInv'
<1> SUFFICES ASSUME NEW t \in Tools, t \notin tangled' PROVE Books(t)'
  BY DEF BooksInv
<1>1. Books(t)
  BY DEF RegisterInv, BooksInv
<1>2. ASSUME NEW w \in Workers
      PROVE  /\ Drilling(w, t)' => Drilling(w, t) /\ worker'[w] = worker[w]
             /\ Storing(w, t)' => worker'[w] = worker[w]
             /\ Storing(w, t)' <=> Storing(w, t)
  BY DEF Drilling, Storing
<1> QED
  BY <1>1, <1>2 DEF Books, Rebuilt, Recorded
-----------------------------------------------------------------------------
(* Every step keeps the invariant.                                         *)

\* A worker is given a list of tools, at the schedule or by hand.
LEMMA AskKeeps ==
  ASSUME RegisterInv, BeginPass \/ \E w \in Operators, t \in Tools : DrillByHand(w, t)
  PROVE  RegisterInv'
<1>1. PICK w \in Workers, list \in Seq(Tools) :
        worker[w] = Idle /\ worker' = [worker EXCEPT ![w].todo = list]
  <2>1. CASE BeginPass
    BY <2>1, DueType DEF BeginPass, Workers
  <2>2. ASSUME NEW w \in Operators, NEW t \in Tools, DrillByHand(w, t)
        PROVE  /\ w \in Workers /\ <<t>> \in Seq(Tools)
               /\ worker[w] = Idle /\ worker' = [worker EXCEPT ![w].todo = <<t>>]
    BY <2>2 DEF DrillByHand, Workers
  <2> QED
    BY <2>1, <2>2
<1>2. /\ UNCHANGED <<world, register, table, steady, tangled, changes, troubles>>
      /\ pause' \in 0 .. Period /\ manual' \in 0 .. MaxManual
  BY DrillAssumption DEF RegisterInv, DTypeOK, BeginPass, DrillByHand, counters
<1>3. worker \in [Workers -> WorkerStates]
  BY DEF RegisterInv, DTypeOK, WorkerStates
<1>4. /\ worker' \in [Workers -> WorkerStates] /\ worker'[w].at = "idle"
      /\ \A v \in Workers : v # w => worker'[v] = worker[v]
  BY <1>1, <1>3 DEF WorkerStates, Idle
<1>5. DTypeOK'
  BY <1>2, <1>4 DEF RegisterInv, DTypeOK, WorkerStates
<1>6. WorkersInv' /\ RowsInv'
  BY <1>2, <1>4 DEF RegisterInv, WorkersInv, RowsInv
<1>7. BooksInv'
  BY <1>1, <1>2, <1>4, BooksFrame DEF Idle
<1> QED
  BY <1>5, <1>6, <1>7 DEF RegisterInv

\* A drill begins, later than every row.  If another of the tool goes on, the tool
\* is tangled.
LEMMA StartKeeps ==
  ASSUME RegisterInv, NEW w \in Workers, Start(w)
  PROVE  RegisterInv'
<1>1. worker \in [Workers -> WorkerStates]
  BY DEF RegisterInv, DTypeOK, WorkerStates
<1>2. PICK d \in Tools : d = Head(worker[w].todo)
  BY <1>1, HeadIsTool DEF Start, WorkerStates
<1>3. /\ worker[w].at = "idle" /\ worker[w].todo # <<>>
      /\ worker' \in [Workers -> WorkerStates]
      /\ worker'[w].at = "drilling" /\ worker'[w].age = 0 /\ worker'[w].todo = worker[w].todo
      /\ \A v \in Workers : v # w => worker'[v] = worker[v]
      /\ UNCHANGED <<world, register, table, pause, steady, counters>>
      /\ tangled \subseteq tangled' /\ tangled' \subseteq tangled \cup {d}
      /\ d \notin tangled' => \A v \in Workers : ~Drilling(v, d)
  <2>1. /\ worker[w].at = "idle" /\ worker[w].todo # <<>>
        /\ worker' = [worker EXCEPT ![w].at = "drilling", ![w].age = 0]
        /\ UNCHANGED <<world, register, table, pause, steady, counters>>
        /\ tangled' = IF \E v \in Workers : Drilling(v, d) THEN tangled \cup {d} ELSE tangled
    BY <1>2 DEF Start
  <2>2. worker[w] \in WorkerStates
    BY <1>1
  <2>3. PICK y : y = [worker[w] EXCEPT !.at = "drilling", !.age = 0]
    OBVIOUS
  <2>4. y = [at |-> "drilling", todo |-> worker[w].todo, age |-> 0, saw |-> worker[w].saw]
        /\ worker' = [worker EXCEPT ![w] = y]
    BY <1>1, <2>1, <2>2, <2>3, BegunWorker
  <2>5. /\ worker' \in [Workers -> WorkerStates]
        /\ worker'[w].at = "drilling" /\ worker'[w].age = 0 /\ worker'[w].todo = worker[w].todo
        /\ \A v \in Workers : v # w => worker'[v] = worker[v]
    BY <1>1, <2>2, <2>4 DEF WorkerStates
  <2> QED
    BY <2>1, <2>5
<1>4. DTypeOK'
  BY <1>3 DEF RegisterInv, DTypeOK, WorkerStates, counters
<1>5. WorkersInv' /\ RowsInv'
  BY <1>3 DEF RegisterInv, WorkersInv, RowsInv
<1>6. ASSUME NEW t \in Tools, t \notin tangled' PROVE Books(t)'
  <2>1. Books(t) /\ table[t].age \in Ages /\ table[t].age # 0
    BY <1>3, <1>6 DEF RegisterInv, BooksInv, RowsInv, DTypeOK
  <2>2. ASSUME NEW v \in Workers, v # w
        PROVE  (Drilling(v, t)' <=> Drilling(v, t)) /\ (Storing(v, t)' <=> Storing(v, t))
    BY <1>3, <2>2 DEF Drilling, Storing
  <2>3. (Drilling(w, t)' <=> t = d) /\ ~Drilling(w, t) /\ ~Storing(w, t) /\ ~Storing(w, t)'
    BY <1>2, <1>3 DEF Drilling, Storing
  <2>4. t = d => \A v \in Workers : ~Drilling(v, t)
    BY <1>3, <1>6
  <2>5. \A u, v \in Workers : Drilling(u, t)' /\ Drilling(v, t)' => u = v
    BY <2>1, <2>2, <2>3, <2>4 DEF Books
  <2>6. \A v \in Workers : Drilling(v, t)' /\ worker'[v].at = "drilling" => table'[t].age > worker'[v].age
    BY <1>3, <2>1, <2>2, <2>3 DEF Books, Ages
  <2>7. \A v \in Workers :
          Storing(v, t)' => Rebuilt(table'[t]) = Recorded(register'[t], worker'[v].saw, worker'[v].age)
    BY <1>3, <2>1, <2>2, <2>3 DEF Books
  <2>8. (\A v \in Workers : ~Storing(v, t)') => register'[t] = Rebuilt(table'[t])
    BY <1>3, <2>1, <2>2, <2>3 DEF Books
  <2> QED
    BY <2>5, <2>6, <2>7, <2>8 DEF Books, Rebuilt, Recorded
<1> QED
  BY <1>4, <1>5, <1>6 DEF RegisterInv, BooksInv

\* A row is stored: as the newest, unless another drill of the tool began since.
LEMMA PersistKeeps ==
  ASSUME RegisterInv, NEW w \in Workers, Persist(w)
  PROVE  RegisterInv'
<1> USE DEF Entries, Rows
<1>1. worker \in [Workers -> WorkerStates]
  BY DEF RegisterInv, DTypeOK, WorkerStates
<1>2. PICK d \in Tools : d = Head(worker[w].todo)
  BY <1>1, HeadIsTool DEF Persist, WorkerStates, RegisterInv, WorkersInv
<1>3. PICK newest \in BOOLEAN :
        /\ table[d].age > 1 => newest
        /\ table' = [table EXCEPT ![d] = Inserted(@, world[d], 1, newest)]
  BY <1>2 DEF Persist
<1>4. /\ worker[w].at = "drilling" /\ worker[w].age = 1 /\ worker[w].todo # <<>>
      /\ worker' = [worker EXCEPT ![w].at = "stored", ![w].saw = world[d]]
      /\ world[d] \in Worlds
      /\ UNCHANGED <<world, register, pause, steady, tangled, counters>>
  BY <1>2, SightType DEF Persist, RegisterInv, WorkersInv
<1>5. /\ worker' \in [Workers -> WorkerStates]
      /\ worker'[w].at = "stored" /\ worker'[w].age = 1 /\ worker'[w].todo = worker[w].todo
      /\ worker'[w].saw = world[d]
      /\ \A v \in Workers : v # w => worker'[v] = worker[v]
  BY <1>1, <1>4 DEF WorkerStates
<1>6. /\ table \in [Tools -> Rows]
      /\ table[d].age # 0 /\ table[d].pass # 0 /\ 1 \in Ages
  BY DrillAssumption DEF RegisterInv, DTypeOK, RowsInv, Ages, Never
<1>7. /\ table'[d] \in Rows
      /\ table'[d].age # 0 /\ table'[d].pass # 0
      /\ table' \in [Tools -> Rows]
      /\ \A t \in Tools : t # d => table'[t] = table[t]
  <2>1. table'[d] = Inserted(table[d], world[d], 1, newest)
    BY <1>3, <1>6
  <2>2. Least(table[d].age, 1) \in Ages \ {0} /\ Least(table[d].pass, 1) \in Ages \ {0}
    BY <1>6 DEF Least
  <2>3. /\ table'[d] \in Rows
        /\ table'[d].age # 0 /\ table'[d].pass # 0
    BY <1>4, <1>6, <2>1, <2>2 DEF Inserted
  <2> QED
    BY <1>3, <1>6, <2>3
<1>8. DTypeOK'
  BY <1>4, <1>5, <1>7 DEF RegisterInv, DTypeOK, WorkerStates, counters
<1>9. WorkersInv' /\ RowsInv'
  BY <1>4, <1>5, <1>7 DEF RegisterInv, WorkersInv, RowsInv
<1>10. Drilling(w, d) /\ Drilling(w, d)' /\ Storing(w, d)' /\ ~Storing(w, d)
  BY <1>2, <1>4, <1>5 DEF Drilling, Storing
<1>11. ASSUME NEW t \in Tools, t \notin tangled', t # d PROVE Books(t)'
  <2>1. Books(t) /\ table'[t] = table[t]
    BY <1>4, <1>7, <1>11 DEF RegisterInv, BooksInv
  <2>2. ~Drilling(w, t) /\ ~Drilling(w, t)' /\ ~Storing(w, t) /\ ~Storing(w, t)'
    BY <1>2, <1>5, <1>11 DEF Drilling, Storing
  <2>3. ASSUME NEW v \in Workers, v # w
        PROVE  /\ worker'[v] = worker[v]
               /\ (Drilling(v, t)' <=> Drilling(v, t)) /\ (Storing(v, t)' <=> Storing(v, t))
    BY <1>5, <2>3 DEF Drilling, Storing
  <2> QED
    BY <1>4, <2>1, <2>2, <2>3 DEF Books, Rebuilt, Recorded
<1>12. ASSUME d \notin tangled' PROVE Books(d)'
  <2>1. Books(d) /\ table[d].age > 1
    BY <1>2, <1>4, <1>10, <1>12 DEF RegisterInv, BooksInv, Books
  <2>2. \A v \in Workers : v # w => ~Drilling(v, d) /\ ~Storing(v, d)
    BY <1>10, <2>1 DEF Books, Storing
  <2>3. \A v \in Workers : v # w => ~Drilling(v, d)' /\ ~Storing(v, d)'
    BY <1>5, <2>2 DEF Drilling, Storing
  <2>4. register[d] = Rebuilt(table[d])
    BY <1>10, <2>1, <2>2 DEF Books
  <2>5. Least(table[d].pass, 1) = 1
    BY <1>6 DEF Least, Ages
  <2>6. table'[d] = Inserted(table[d], world[d], 1, TRUE)
    BY <1>3, <1>6, <2>1
  <2>7. Rebuilt(table'[d]) = Recorded(register'[d], world[d], 1)
    <3>1. register'[d].pass = table[d].pass
      BY <1>4, <2>4 DEF Rebuilt
    <3>2. table'[d].drilled = TRUE /\ table'[d].last = world[d]
          /\ table'[d].pass = IF IsProof(Outcome(world[d])) THEN 1 ELSE table[d].pass
      BY <2>5, <2>6 DEF Inserted, IsProof
    <3> QED
      BY <3>1, <3>2 DEF Rebuilt, Recorded, IsProof
  <2> QED
    BY <1>5, <1>10, <2>3, <2>7 DEF Books, Rebuilt, Recorded
<1> QED
  BY <1>8, <1>9, <1>11, <1>12 DEF RegisterInv, BooksInv

\* The register follows the row.
LEMMA IngestKeeps ==
  ASSUME RegisterInv, NEW w \in Workers, Ingest(w)
  PROVE  RegisterInv'
<1> USE DEF Entries, Rows
<1>1. worker \in [Workers -> WorkerStates]
  BY DEF RegisterInv, DTypeOK, WorkerStates
<1>2. PICK d \in Tools : d = Head(worker[w].todo)
  BY <1>1, HeadIsTool DEF Ingest, WorkerStates, RegisterInv, WorkersInv
<1>3. /\ worker[w].at = "stored" /\ worker[w].todo # <<>> /\ worker[w].age = 1
      /\ register' = [register EXCEPT ![d] = Recorded(@, worker[w].saw, 1)]
      /\ steady' \subseteq steady \cup {d}
      /\ worker' = [worker EXCEPT ![w] = [Idle EXCEPT !.todo = Tail(worker[w].todo)]]
      /\ UNCHANGED <<world, table, pause, tangled, counters>>
  BY <1>2 DEF Ingest, RegisterInv, WorkersInv
<1>4. Tail(worker[w].todo) \in Seq(Tools)
  BY <1>1, <1>3, HeadIsTool DEF WorkerStates
<1>5. /\ worker' \in [Workers -> WorkerStates] /\ worker'[w].at = "idle"
      /\ \A v \in Workers : v # w => worker'[v] = worker[v]
  <2>1. PICK y : y = [Idle EXCEPT !.todo = Tail(worker[w].todo)]
    OBVIOUS
  <2>2. y \in WorkerStates /\ y.at = "idle" /\ worker' = [worker EXCEPT ![w] = y]
    BY <1>3, <1>4, <2>1, DoneWorker
  <2> QED
    BY <1>1, <2>2
<1>6. /\ register \in [Tools -> Entries]
      /\ 1 \in Ages /\ worker[w].saw \in Worlds \cup {None}
  BY <1>1, DrillAssumption DEF RegisterInv, DTypeOK, Ages, Never, WorkerStates
<1>7. /\ register' \in [Tools -> Entries]
      /\ register'[d] = Recorded(register[d], worker[w].saw, 1)
      /\ \A t \in Tools : t # d => register'[t] = register[t]
  BY <1>3, <1>6 DEF Recorded, IsProof
<1>8. DTypeOK'
  BY <1>3, <1>5, <1>7 DEF RegisterInv, DTypeOK, WorkerStates, counters
<1>9. WorkersInv' /\ RowsInv'
  BY <1>3, <1>5 DEF RegisterInv, WorkersInv, RowsInv
<1>10. Drilling(w, d) /\ Storing(w, d) /\ \A t \in Tools : ~Drilling(w, t)' /\ ~Storing(w, t)'
  BY <1>2, <1>3, <1>5 DEF Drilling, Storing
<1>11. ASSUME NEW t \in Tools, t \notin tangled' PROVE Books(t)'
  <2>1. Books(t)
    BY <1>3, <1>11 DEF RegisterInv, BooksInv
  <2>2. ASSUME NEW v \in Workers, v # w
        PROVE  /\ worker'[v] = worker[v]
               /\ (Drilling(v, t)' <=> Drilling(v, t)) /\ (Storing(v, t)' <=> Storing(v, t))
    BY <1>5, <2>2 DEF Drilling, Storing
  <2>3. ~Drilling(w, t)' /\ ~Storing(w, t)'
    BY <1>10
  <2>4. CASE t = d
    <3>1. \A v \in Workers : v # w => ~Drilling(v, d) /\ ~Storing(v, d)
      BY <1>10, <2>1, <2>4 DEF Books, Storing
    <3>2. \A v \in Workers : ~Drilling(v, d)' /\ ~Storing(v, d)'
      BY <2>2, <2>3, <2>4, <3>1
    <3>3. register'[d] = Rebuilt(table'[d])
      BY <1>3, <1>7, <1>10, <2>1, <2>4 DEF Books, Rebuilt, Recorded
    <3> QED
      BY <2>4, <3>2, <3>3 DEF Books, Rebuilt, Recorded
  <2>5. CASE t # d
    <3>1. ~Drilling(w, t) /\ ~Storing(w, t)
      BY <1>2, <1>3, <2>5 DEF Drilling, Storing
    <3> QED
      BY <1>3, <1>7, <2>1, <2>2, <2>3, <2>5, <3>1 DEF Books, Rebuilt, Recorded
  <2> QED
    BY <2>4, <2>5
<1> QED
  BY <1>8, <1>9, <1>11 DEF RegisterInv, BooksInv

\* A refused row ends the pass of its worker; the world may change at any time.
LEMMA TroubleKeeps ==
  ASSUME RegisterInv,
         \/ \E w \in Workers : PersistFails(w)
         \/ \E t \in Tools : \E sight \in WorldsOf[t] : ChangeWorld(t, sight)
         \/ UNCHANGED dvars
  PROVE  RegisterInv'
<1>1. worker \in [Workers -> WorkerStates]
  BY DEF RegisterInv, DTypeOK, WorkerStates
<1>2. /\ UNCHANGED <<register, table, pause, tangled, manual>>
      /\ troubles' \in 0 .. MaxTroubles /\ changes' \in 0 .. MaxChanges /\ steady' \subseteq Tools
  BY DrillAssumption DEF RegisterInv, DTypeOK, PersistFails, ChangeWorld, dvars, counters
<1>3. DOMAIN world' = Tools /\ \A t \in Tools : world'[t] \in WorldsOf[t]
  BY DEF RegisterInv, DTypeOK, PersistFails, ChangeWorld, dvars, counters
<1>4. /\ worker' \in [Workers -> WorkerStates]
      /\ \A w \in Workers : \/ worker'[w].at = "idle" /\ worker[w].at = "drilling"
                            \/ worker'[w] = worker[w]
  <2>1. ASSUME NEW w \in Workers, PersistFails(w)
        PROVE  /\ worker' \in [Workers -> WorkerStates]
               /\ worker[w].at = "drilling" /\ worker'[w].at = "idle"
               /\ \A v \in Workers : v # w => worker'[v] = worker[v]
    BY <1>1, <2>1 DEF PersistFails, WorkerStates, Idle
  <2>2. CASE \E w \in Workers : PersistFails(w)
    BY <2>1, <2>2
  <2>3. CASE worker' = worker
    BY <1>1, <2>3
  <2> QED
    BY <2>2, <2>3 DEF ChangeWorld, dvars
<1>5. DTypeOK'
  BY <1>2, <1>3, <1>4 DEF RegisterInv, DTypeOK, WorkerStates
<1>6. WorkersInv' /\ RowsInv'
  BY <1>2, <1>4 DEF RegisterInv, WorkersInv, RowsInv
<1>7. BooksInv'
  BY <1>2, <1>4, BooksFrame
<1> QED
  BY <1>5, <1>6, <1>7 DEF RegisterInv

\* With a tick, rows and drills grow older together.
LEMMA TickKeeps ==
  ASSUME RegisterInv, Tick
  PROVE  RegisterInv'
<1> USE DEF Entries, Rows
<1>1. worker \in [Workers -> WorkerStates]
  BY DEF RegisterInv, DTypeOK, WorkerStates
<1>2. /\ UNCHANGED <<world, steady, tangled, counters>> /\ pause' \in 0 .. Period
  <2>1. pause \in 0 .. Period /\ Period \in Nat
    BY DrillAssumption DEF RegisterInv, DTypeOK
  <2>2. /\ worker[Scheduler] = Idle => pause < Period
        /\ pause' = IF worker[Scheduler] = Idle THEN pause + 1 ELSE pause
        /\ UNCHANGED <<world, steady, tangled, counters>>
    BY DEF Tick, TimeMayPass
  <2> QED
    BY <2>1, <2>2
<1>3. /\ worker' \in [Workers -> WorkerStates]
      /\ \A w \in Workers :
           /\ worker[w].at # "stored" /\ worker'[w].at = worker[w].at
           /\ worker'[w].todo = worker[w].todo
           /\ worker'[w].at = "drilling" => worker'[w].age = 1
  <2>1. worker' = [w \in Workers |->
                     IF worker[w].at = "drilling" THEN [worker[w] EXCEPT !.age = 1] ELSE worker[w]]
    BY DEF Tick
  <2>2. ASSUME NEW w \in Workers
        PROVE  /\ worker'[w] \in WorkerStates
               /\ worker[w].at # "stored" /\ worker'[w].at = worker[w].at
               /\ worker'[w].todo = worker[w].todo
               /\ worker'[w].at = "drilling" => worker'[w].age = 1
    <3>1. worker[w] \in WorkerStates
      BY <1>1
    <3>2. worker[w].at # "stored"
      BY <3>1 DEF Tick, TimeMayPass, RegisterInv, WorkersInv
    <3>3. CASE worker[w].at = "drilling"
      <4>1. worker'[w] = [worker[w] EXCEPT !.age = 1]
        BY <2>1, <3>3
      <4> QED
        BY <3>1, <3>3, <4>1 DEF WorkerStates
    <3>4. CASE worker[w].at # "drilling"
      BY <2>1, <3>1, <3>2, <3>4
    <3> QED
      BY <3>3, <3>4
  <2> QED
    BY <2>1, <2>2
<1>4. /\ register' = [t \in Tools |-> [register[t] EXCEPT !.pass = Aged(@, 1)]]
      /\ table' = [t \in Tools |-> [table[t] EXCEPT !.pass = Aged(@, 1), !.age = Aged(@, 1)]]
      /\ register \in [Tools -> Entries]
      /\ table \in [Tools -> Rows]
      /\ \A t \in Tools : table[t].age # 0 /\ table[t].pass # 0
  BY DEF Tick, RegisterInv, DTypeOK, RowsInv
<1>5. ASSUME NEW t \in Tools
      PROVE  /\ register'[t] \in Entries
             /\ table'[t] \in Rows
             /\ table'[t].age > 1 /\ table'[t].age # 0 /\ table'[t].pass # 0
             /\ register[t] = Rebuilt(table[t]) => register'[t] = Rebuilt(table'[t])
  <2>1. Aged(register[t].pass, 1) \in Ages
    BY <1>4, AgedType
  <2>2. /\ Aged(table[t].pass, 1) \in Ages /\ Aged(table[t].pass, 1) # 0
        /\ Aged(table[t].age, 1) \in Ages /\ Aged(table[t].age, 1) # 0 /\ Aged(table[t].age, 1) > 1
    BY <1>4, AgedType
  <2>3. /\ register'[t] \in Entries
        /\ register'[t] = [drilled |-> register[t].drilled, last |-> register[t].last,
                            pass |-> Aged(register[t].pass, 1)]
    BY <1>4, <2>1, OldEntry
  <2>4. table'[t] = [drilled |-> table[t].drilled, last |-> table[t].last,
                     pass |-> Aged(table[t].pass, 1), age |-> Aged(table[t].age, 1)]
    <3>1. table[t] \in Rows
      BY <1>4
    <3>2. table'[t] = [table[t] EXCEPT !.pass = Aged(table[t].pass, 1), !.age = Aged(table[t].age, 1)]
      BY <1>4
    <3> QED
      BY <2>2, <3>1, <3>2, OldRow
  <2>5. table'[t] \in Rows
    BY <1>4, <2>2, <2>4
  <2> QED
    BY <2>2, <2>3, <2>4, <2>5 DEF Rebuilt
<1>6. DTypeOK'
  <2>1. /\ register' \in [Tools -> Entries]
        /\ table' \in [Tools -> Rows]
    BY <1>4, <1>5
  <2> QED
    BY <1>2, <1>3, <2>1 DEF RegisterInv, DTypeOK, WorkerStates, counters
<1>7. WorkersInv' /\ RowsInv'
  BY <1>3, <1>5 DEF RegisterInv, WorkersInv, RowsInv
<1>8. ASSUME NEW t \in Tools, t \notin tangled' PROVE Books(t)'
  <2>1. Books(t)
    BY <1>2, <1>8 DEF RegisterInv, BooksInv
  <2>2. \A w \in Workers : (Drilling(w, t)' <=> Drilling(w, t)) /\ ~Storing(w, t) /\ ~Storing(w, t)'
    BY <1>3 DEF Drilling, Storing
  <2>3. register'[t] = Rebuilt(table'[t])
    BY <1>5, <2>1, <2>2 DEF Books
  <2> QED
    BY <1>3, <1>5, <2>1, <2>2, <2>3 DEF Books, Rebuilt, Recorded
<1> QED
  BY <1>6, <1>7, <1>8 DEF RegisterInv, BooksInv

\* After a restart the register is what the table gives, and nobody drills.
LEMMA RestartKeeps ==
  ASSUME RegisterInv, NEW downtime \in 0 .. MaxDowntime, Restart(downtime)
  PROVE  RegisterInv'
<1> USE DEF Entries, Rows
<1>1. /\ UNCHANGED <<world, changes, manual>>
      /\ pause' \in 0 .. Period /\ steady' = {} /\ tangled' = {}
      /\ troubles' \in 0 .. MaxTroubles /\ downtime \in Nat
  <2>1. troubles \in 0 .. MaxTroubles /\ MaxTroubles \in Nat /\ Period \in Nat /\ MaxDowntime \in Nat
    BY DrillAssumption DEF RegisterInv, DTypeOK
  <2>2. /\ troubles < MaxTroubles /\ troubles' = troubles + 1
        /\ pause' = 0 /\ steady' = {} /\ tangled' = {}
        /\ UNCHANGED <<world, changes, manual>>
    BY DEF Restart
  <2> QED
    BY <2>1, <2>2
<1>2. worker' \in [Workers -> WorkerStates] /\ \A w \in Workers : worker'[w].at = "idle"
  <2>1. Idle \in WorkerStates /\ Idle.at = "idle"
    BY DEF Idle, WorkerStates
  <2>2. worker' = [w \in Workers |-> Idle]
    BY DEF Restart
  <2> QED
    BY <2>1, <2>2
<1>3. /\ table' = [t \in Tools |-> [table[t] EXCEPT !.pass = Aged(@, downtime),
                                                    !.age = Aged(@, downtime)]]
      /\ register' = [t \in Tools |-> Rebuilt(table'[t])]
      /\ table \in [Tools -> Rows]
      /\ \A t \in Tools : table[t].age # 0 /\ table[t].pass # 0
  BY DEF Restart, RegisterInv, DTypeOK, RowsInv
<1>4. ASSUME NEW t \in Tools
      PROVE  /\ register'[t] \in Entries
             /\ table'[t] \in Rows
             /\ table'[t].age # 0 /\ table'[t].pass # 0
             /\ register'[t] = Rebuilt(table'[t])
  <2>1. /\ Aged(table[t].pass, downtime) \in Ages /\ Aged(table[t].pass, downtime) # 0
        /\ Aged(table[t].age, downtime) \in Ages /\ Aged(table[t].age, downtime) # 0
    BY <1>1, <1>3, AgedType
  <2>2. /\ table'[t] \in Rows
        /\ table'[t].age # 0 /\ table'[t].pass # 0
    BY <1>3, <2>1
  <2> QED
    BY <1>3, <2>2 DEF Rebuilt
<1>5. DTypeOK'
  <2>1. /\ register' \in [Tools -> Entries]
        /\ table' \in [Tools -> Rows]
    BY <1>3, <1>4
  <2> QED
    BY <1>1, <1>2, <2>1 DEF RegisterInv, DTypeOK, WorkerStates
<1>6. WorkersInv' /\ RowsInv'
  BY <1>2, <1>4 DEF WorkersInv, RowsInv
<1>7. ASSUME NEW t \in Tools PROVE Books(t)'
  <2>1. \A w \in Workers : ~Drilling(w, t)' /\ ~Storing(w, t)'
    BY <1>2 DEF Drilling, Storing
  <2> QED
    BY <1>4, <2>1 DEF Books, Rebuilt, Recorded
<1> QED
  BY <1>5, <1>6, <1>7 DEF RegisterInv, BooksInv

-----------------------------------------------------------------------------

\* For any tools, workers, sights and limits, register and table agree about every
\* tool whose drills did not overlap.
THEOREM RegisterInvariant == Spec => []RegisterInv
<1>1. Init => RegisterInv
  <2> SUFFICES ASSUME Init PROVE RegisterInv
    OBVIOUS
  <2>1. DTypeOK
    BY DrillAssumption DEF Init, DTypeOK, Undrilled, Idle, None, Ages, Never
  <2>2. WorkersInv /\ RowsInv
    BY DrillAssumption DEF Init, WorkersInv, RowsInv, Idle, Never
  <2>3. ASSUME NEW t \in Tools PROVE Books(t)
    BY DEF Init, Books, Drilling, Storing, Idle, Undrilled, Rebuilt
  <2> QED
    BY <2>1, <2>2, <2>3 DEF RegisterInv, BooksInv
<1>2. RegisterInv /\ [Next]_dvars => RegisterInv'
  <2> SUFFICES ASSUME RegisterInv, [Next]_dvars PROVE RegisterInv'
    OBVIOUS
  <2>1. CASE BeginPass \/ \E w \in Operators, t \in Tools : DrillByHand(w, t)
    BY <2>1, AskKeeps
  <2>2. CASE \E w \in Workers : Start(w)
    BY <2>2, StartKeeps
  <2>3. CASE \E w \in Workers : Persist(w)
    BY <2>3, PersistKeeps
  <2>4. CASE \E w \in Workers : Ingest(w)
    BY <2>4, IngestKeeps
  <2>5. CASE \/ \E w \in Workers : PersistFails(w)
             \/ \E t \in Tools : \E sight \in WorldsOf[t] : ChangeWorld(t, sight)
             \/ UNCHANGED dvars
    BY <2>5, TroubleKeeps
  <2>6. CASE Tick
    BY <2>6, TickKeeps
  <2>7. CASE \E downtime \in 0 .. MaxDowntime : Restart(downtime)
    BY <2>7, RestartKeeps
  <2> QED
    BY <2>1, <2>2, <2>3, <2>4, <2>5, <2>6, <2>7 DEF Next, Work
<1> QED
  BY <1>1, <1>2, PTL DEF Spec

\* A tool that is taken for proven was drilled, its drill changed something, and the
\* inverse put it back; and the process may stop at any time without the register
\* changing its mind, except about a tool of which two drills overlapped or one is
\* just being recorded.
THEOREM RegisterKeepsProofsForGood == Spec => []RegisterKeepsProofs
<1>1. RegisterInv => RegisterKeepsProofs
  <2> SUFFICES ASSUME RegisterInv PROVE RegisterKeepsProofs
    OBVIOUS
  <2>1. ProofIsEarned
    <3> SUFFICES ASSUME NEW t \in Tools, IsProven(t)
                 PROVE  LET s == register[t].last
                        IN /\ s.undoable /\ s.forward /\ s.moved # {} /\ s.undo = "ran"
                           /\ s.wrong = {} /\ s.reads = 3
      BY DEF ProofIsEarned
    <3>1. PICK s \in Sights \cup {None} : s = register[t].last
      BY DrillAssumption DEF RegisterInv, DTypeOK
    <3>2. Outcome(s) = "passed"
      BY <3>1 DEF IsProven, IsProof
    <3>3. s \in Sights
      BY <3>2 DEF Outcome, None
    <3>4. /\ s.reads \in 0 .. 3 /\ s.undo \in {"ran", "refused", "raised"}
          /\ s.undoable \in BOOLEAN /\ s.forward \in BOOLEAN
      BY <3>3 DEF Sights
    <3> QED
      BY <3>1, <3>2, <3>4 DEF Outcome
  <2>2. RestartChangesNothing
    BY DEF RegisterInv, BooksInv, Books, Storing, Drilling, Recording, RestartChangesNothing
  <2> QED
    BY <2>1, <2>2 DEF RegisterInv, RegisterKeepsProofs
<1> QED
  BY <1>1, RegisterInvariant, PTL

-----------------------------------------------------------------------------
(* Renewal before expiry.  A pass takes a tick for each of its drills, and  *)
(* a tool whose proof is not yet due when a pass begins waits for the next. *)

ToDo == worker[Scheduler].todo

\* The scheduled pass: it has at most every tool before it, and no pause.
PassInv ==
  /\ Len(ToDo) <= Cardinality(Tools)
  /\ \A t \in Tools \ Range(ToDo) : Len(ToDo) < Cardinality(Tools)
  /\ ToDo # <<>> => pause = 0
  /\ worker[Scheduler].at = "idle" => worker[Scheduler].age = 0 /\ worker[Scheduler].saw = None

\* How old a proof may be: the tools ahead in the pass have cost a tick each.
Waiting(t) ==
  register[t].pass + Len(ToDo)
    <= Early + Cardinality(Tools) - 1 + worker[Scheduler].age + pause
       + (IF t \in Range(ToDo) THEN Period + Cardinality(Tools) ELSE 0)

Kept(t) ==
  /\ register[t].drilled /\ IsProof(Outcome(register[t].last)) /\ IsProof(Outcome(world[t]))
  /\ \A w \in Workers : Storing(w, t) => worker[w].saw = world[t]

SteadyInv == \A t \in steady \ tangled : Kept(t) /\ Waiting(t)

\* All that is needed of a register whose proofs are renewed in time.
SteadyRegister == RegisterInv /\ PassInv /\ SteadyInv

LEMMA ToolsCount ==
  /\ Cardinality(Tools) \in Nat /\ (Tools # {} => Cardinality(Tools) # 0)
  /\ Early \in Nat /\ Early >= 1 /\ Early >= RefreshAt - 1 /\ RefreshAt \in Nat
  /\ Period \in Nat /\ StaleAfter \in Nat /\ MaxBatch \in Nat
  /\ Scheduler \in Workers
<1>1. IsFiniteSet(Tools) /\ RefreshAt \in 1 .. StaleAfter /\ StaleAfter \in Nat
      /\ Period \in Nat /\ MaxBatch \in Nat
  BY DrillAssumption
<1>2. Cardinality(Tools) \in Nat /\ (Tools # {} => Cardinality(Tools) # 0)
  BY <1>1, FS_CardinalityType, FS_EmptySet
<1>3. Early \in Nat /\ Early >= 1 /\ Early >= RefreshAt - 1 /\ RefreshAt \in Nat
  BY <1>1 DEF Early
<1>. QED
  BY <1>1, <1>2, <1>3 DEF Workers

LEMMA ToDoType ==
  ASSUME RegisterInv
  PROVE  /\ worker \in [Workers -> WorkerStates] /\ worker[Scheduler] \in WorkerStates
         /\ ToDo \in Seq(Tools) /\ Len(ToDo) \in Nat /\ Range(ToDo) \subseteq Tools
         /\ worker[Scheduler].age \in 0 .. 1 /\ pause \in Nat
         /\ \A t \in Tools : register[t].pass \in Nat
<1>1. worker \in [Workers -> WorkerStates]
  BY DEF RegisterInv, DTypeOK, WorkerStates
<1>2. worker[Scheduler] \in WorkerStates
  BY <1>1, ToolsCount
<1>3. ToDo \in Seq(Tools) /\ worker[Scheduler].age \in 0 .. 1
  BY <1>2 DEF WorkerStates, ToDo
<1>4. Len(ToDo) \in Nat /\ Range(ToDo) \subseteq Tools
  BY <1>3 DEF Range
<1>5. pause \in Nat
  BY ToolsCount DEF RegisterInv, DTypeOK
<1>6. \A t \in Tools : register[t].pass \in Nat
  BY ToolsCount DEF RegisterInv, DTypeOK, Ages, Never
<1>. QED
  BY <1>1, <1>2, <1>3, <1>4, <1>5, <1>6

\* A pass that is not throttled has every tool that is due before it.
LEMMA DueIsAll ==
  ASSUME ScheduleHasRoom, NEW list \in Due
  PROVE  /\ list \in Seq(Tools) /\ Range(list) = DueTools
         /\ Len(list) <= Cardinality(Tools)
         /\ \A t \in Tools \ Range(list) : Len(list) < Cardinality(Tools)
<1>. DEFINE n == Cardinality(DueTools)
<1>1. IsFiniteSet(Tools) /\ IsFiniteSet(DueTools) /\ DueTools \subseteq Tools /\ n <= Cardinality(Tools)
      /\ (n = Cardinality(Tools) => DueTools = Tools)
  BY DrillAssumption, FS_Subset DEF DueTools
<1>2. n \in Nat
  BY <1>1, FS_CardinalityType
<1>3. PICK q \in SetToSeqs(DueTools) : list = Cut(q)
  BY DEF Due
<1>4. q \in [1 .. n -> DueTools] /\ \A i, j \in 1 .. n : i # j => q[i] # q[j]
  BY <1>3 DEF SetToSeqs
<1>. HIDE DEF n
<1>5. q \in Seq(Tools) /\ Len(q) = n /\ DOMAIN q = 1 .. n
  BY <1>1, <1>2, <1>4
<1>6. Range(q) = DueTools
  <2>1. q \in Injection(1 .. n, DueTools)
    BY <1>4, <1>5 DEF Injection, IsInjective
  <2>2. Cardinality(1 .. n) = n
    BY <1>2, FS_Interval
  <2>3. q \in Surjection(1 .. n, DueTools)
    BY <1>1, <2>1, <2>2, FS_Injection DEF n
  <2>. QED
    BY <1>4, <1>5, <2>3 DEF Surjection, Range
<1>7. list = q
  <2>1. CASE MaxBatch = 0
    BY <2>1, <1>3 DEF Cut
  <2>2. CASE MaxBatch # 0
    <3>1. MaxBatch >= n /\ MaxBatch \in Nat
      BY <2>2, <1>1, <1>2, ToolsCount DEF ScheduleHasRoom
    <3>2. Min({MaxBatch, n}) = n
      <4>1. n \in {MaxBatch, n} /\ \A y \in {MaxBatch, n} : n <= y
        BY <3>1, <1>2
      <4>2. \A x \in {MaxBatch, n} : (\A y \in {MaxBatch, n} : x <= y) => x = n
        BY <3>1, <1>2
      <4>. QED
        BY <4>1, <4>2 DEF Min
    <3>3. SubSeq(q, 1, Len(q)) = q
      BY <1>5, SubSeqFull
    <3>. QED
      BY <2>2, <3>2, <3>3, <1>3, <1>5 DEF Cut
  <2>. QED
    BY <2>1, <2>2
<1>8. \A t \in Tools \ DueTools : n < Cardinality(Tools)
  BY <1>1, <1>2, ToolsCount
<1>. QED
  BY <1>1, <1>5, <1>6, <1>7, <1>8

\* A proof that is not due is early.
LEMMA NotDueIsEarly ==
  ASSUME RegisterInv, NEW t \in Tools, Kept(t), t \notin DueTools
  PROVE  register[t].pass <= Early
<1>1. register[t].drilled /\ Outcome(register[t].last) = "passed" /\ register[t].pass \in Nat
  BY ToDoType DEF Kept, IsProof
<1>2. ~(Urgency(t) < 6)
  BY DEF DueTools
<1>3. Urgency(t) = IF ~Fresh(register[t].pass) THEN 4 ELSE IF RenewalAge(register[t].pass) THEN 5 ELSE 6
  BY <1>1 DEF Urgency
<1>4. ~RenewalAge(register[t].pass)
  BY <1>2, <1>3
<1>. QED
  BY <1>1, <1>4, ToolsCount DEF RenewalAge

-----------------------------------------------------------------------------
\* A step of another worker that records nothing.
LEMMA SteadyFrame ==
  ASSUME SteadyRegister, UNCHANGED <<register, pause>>, worker'[Scheduler] = worker[Scheduler],
         steady' \subseteq steady, tangled \subseteq tangled',
         \A t \in steady' : world'[t] = world[t],
         \A w \in Workers : worker'[w].at = "stored" => worker'[w] = worker[w]
  PROVE  PassInv' /\ SteadyInv'
<1>1. PassInv'
  BY DEF SteadyRegister, PassInv, ToDo
<1>2. ASSUME NEW t \in steady' \ tangled'
      PROVE  Kept(t)' /\ Waiting(t)'
  <2>1. Kept(t) /\ Waiting(t)
    BY <1>2 DEF SteadyRegister, SteadyInv
  <2>2. Kept(t)'
    BY <2>1, <1>2 DEF Kept, Storing, Drilling, IsProof
  <2>3. Waiting(t)'
    BY <2>1 DEF Waiting, ToDo
  <2>. QED
    BY <2>2, <2>3
<1>. QED
  BY <1>1, <1>2 DEF SteadyInv

\* A pass that begins has what is due before it, and the rest is early.
LEMMA SteadyBegins ==
  ASSUME SteadyRegister, ScheduleHasRoom, BeginPass
  PROVE  PassInv' /\ SteadyInv'
<1>. DEFINE D == Cardinality(Tools)
<1>0. RegisterInv
  BY DEF SteadyRegister
<1>1. PICK list \in Due : worker' = [worker EXCEPT ![Scheduler].todo = list]
  BY DEF BeginPass
<1>2. /\ worker[Scheduler] = Idle /\ pause' = 0
      /\ UNCHANGED <<world, register, table, steady, tangled>>
  BY DEF BeginPass
<1>3. /\ list \in Seq(Tools) /\ Range(list) = DueTools /\ Len(list) \in Nat /\ Len(list) <= D
      /\ \A t \in Tools \ Range(list) : Len(list) < D
  BY DueIsAll
<1>4. /\ worker'[Scheduler] = [Idle EXCEPT !.todo = list]
      /\ \A w \in Workers : worker'[w].at = "stored" => worker'[w] = worker[w]
  <2>1. worker \in [Workers -> WorkerStates] /\ Scheduler \in Workers
    BY <1>0, ToDoType, ToolsCount
  <2>2. worker' = [worker EXCEPT ![Scheduler] = [Idle EXCEPT !.todo = list]]
    BY <1>1, <1>2
  <2>3. [Idle EXCEPT !.todo = list].at = "idle"
    BY DEF Idle
  <2>. QED
    BY <2>1, <2>2, <2>3
<1>5. ToDo' = list /\ worker'[Scheduler].at = "idle" /\ worker'[Scheduler].age = 0
      /\ worker'[Scheduler].saw = None
  BY <1>4 DEF Idle, ToDo
<1>6. ToDo = <<>> /\ Len(ToDo) = 0 /\ Range(ToDo) = {} /\ worker[Scheduler].age = 0
  <2>1. ToDo = <<>> /\ worker[Scheduler].age = 0
    BY <1>2 DEF Idle, ToDo
  <2>. QED
    BY <2>1 DEF Range
<1>7. PassInv'
  BY <1>2, <1>3, <1>5 DEF PassInv
<1>8. ASSUME NEW t \in steady' \ tangled'
      PROVE  Kept(t)' /\ Waiting(t)'
  <2>1. Kept(t) /\ Waiting(t) /\ t \in Tools
    BY <1>2, <1>8, <1>0 DEF SteadyRegister, SteadyInv, RegisterInv, DTypeOK
  <2>2. Kept(t)'
    BY <2>1, <1>2, <1>4 DEF Kept, Storing, Drilling, IsProof
  <2>3. /\ register[t].pass \in Nat /\ D \in Nat /\ Early \in Nat /\ Period \in Nat
        /\ pause \in Nat /\ pause <= Period
    BY <2>1, <1>0, ToDoType, ToolsCount DEF RegisterInv, DTypeOK
  <2>4. register[t].pass + 0 <= Early + D - 1 + 0 + pause + 0
    BY <2>1, <1>6 DEF Waiting
  <2>5. register'[t].pass + Len(list)
          <= Early + D - 1 + 0 + 0 + (IF t \in Range(list) THEN Period + D ELSE 0)
    <3>1. CASE t \in Range(list)
      <4>1. register[t].pass + Len(list) <= Early + D - 1 + 0 + 0 + (Period + D)
        BY <2>3, <2>4, <1>3
      <4>. QED
        BY <3>1, <4>1, <1>2
    <3>2. CASE t \notin Range(list)
      <4>1. register[t].pass <= Early
        BY <3>2, <2>1, <1>0, <1>3, NotDueIsEarly
      <4>2. Len(list) < D
        BY <3>2, <2>1, <1>3
      <4>3. register[t].pass + Len(list) <= Early + D - 1 + 0 + 0 + 0
        BY <4>1, <4>2, <2>3, <1>3
      <4>. QED
        BY <3>2, <4>3, <1>2
    <3>. QED
      BY <3>1, <3>2
  <2>6. Waiting(t)'
    BY <2>5, <1>2, <1>5 DEF Waiting
  <2>. QED
    BY <2>2, <2>6
<1>. QED
  BY <1>7, <1>8 DEF SteadyInv

LEMMA SteadyStarts ==
  ASSUME SteadyRegister, NEW w \in Workers, Start(w)
  PROVE  PassInv' /\ SteadyInv'
<1>0. RegisterInv
  BY DEF SteadyRegister
<1>1. worker \in [Workers -> WorkerStates] /\ Scheduler \in Workers
  BY <1>0, ToDoType, ToolsCount
<1>2. /\ worker[w].at = "idle" /\ worker[w].todo # <<>>
      /\ worker' = [worker EXCEPT ![w].at = "drilling", ![w].age = 0]
      /\ UNCHANGED <<world, register, pause, steady>> /\ tangled \subseteq tangled'
  BY DEF Start
<1>3. /\ worker'[w].at = "drilling" /\ worker'[w].age = 0 /\ worker'[w].todo = worker[w].todo
      /\ \A v \in Workers : v # w => worker'[v] = worker[v]
  <2>1. worker[w] \in WorkerStates
    BY <1>1
  <2>. QED
    BY <2>1, <1>1, <1>2 DEF WorkerStates
<1>4. CASE w # Scheduler
  BY <1>1, <1>2, <1>3, <1>4, SteadyFrame
<1>5. CASE w = Scheduler
  <2>1. ToDo' = ToDo /\ worker'[Scheduler].age = 0 /\ worker[Scheduler].age = 0
        /\ worker'[Scheduler].at = "drilling" /\ pause' = pause
    BY <1>2, <1>3, <1>5 DEF ToDo, SteadyRegister, PassInv
  <2>2. PassInv'
    BY <2>1 DEF SteadyRegister, PassInv
  <2>3. ASSUME NEW t \in steady' \ tangled'
        PROVE  Kept(t)' /\ Waiting(t)'
    <3>1. Kept(t) /\ Waiting(t)
      BY <1>2, <2>3 DEF SteadyRegister, SteadyInv
    <3>2. Kept(t)'
      <4>1. ASSUME NEW v \in Workers, Storing(v, t)' PROVE worker'[v].saw = world'[t]
        <5>1. v # w
          BY <4>1, <1>3 DEF Storing
        <5>2. Storing(v, t) /\ worker'[v] = worker[v]
          BY <4>1, <5>1, <1>3 DEF Storing, Drilling
        <5>. QED
          BY <3>1, <5>2, <1>2 DEF Kept
      <4>. QED
        BY <3>1, <4>1, <1>2 DEF Kept, IsProof
    <3>3. Waiting(t)'
      BY <3>1, <2>1, <1>2 DEF Waiting
    <3>. QED
      BY <3>2, <3>3
  <2>. QED
    BY <2>2, <2>3 DEF SteadyInv
<1>. QED
  BY <1>4, <1>5

\* The row of a steady tool is a proof.
LEMMA SteadyPersists ==
  ASSUME SteadyRegister, NEW w \in Workers, Persist(w)
  PROVE  PassInv' /\ SteadyInv'
<1>0. RegisterInv
  BY DEF SteadyRegister
<1>1. worker \in [Workers -> WorkerStates] /\ Scheduler \in Workers
  BY <1>0, ToDoType, ToolsCount
<1>2. /\ worker[w].at = "drilling" /\ worker[w].age = 1
      /\ worker' = [worker EXCEPT ![w].at = "stored", ![w].saw = world[Head(worker[w].todo)]]
      /\ UNCHANGED <<world, register, pause, steady, tangled>>
  BY DEF Persist
<1>3. /\ worker'[w].at = "stored" /\ worker'[w].age = 1 /\ worker'[w].todo = worker[w].todo
      /\ worker'[w].saw = world[Head(worker[w].todo)]
      /\ \A v \in Workers : v # w => worker'[v] = worker[v]
  <2>1. worker[w] \in WorkerStates
    BY <1>1
  <2>. QED
    BY <2>1, <1>1, <1>2 DEF WorkerStates
<1>4. /\ ToDo' = ToDo /\ worker'[Scheduler].age = worker[Scheduler].age /\ pause' = pause
      /\ worker'[Scheduler].at = "idle" => worker'[Scheduler] = worker[Scheduler]
  BY <1>1, <1>2, <1>3 DEF ToDo
<1>5. PassInv'
  BY <1>4 DEF SteadyRegister, PassInv
<1>6. ASSUME NEW t \in steady' \ tangled'
      PROVE  Kept(t)' /\ Waiting(t)'
  <2>1. Kept(t) /\ Waiting(t)
    BY <1>2, <1>6 DEF SteadyRegister, SteadyInv
  <2>2. ASSUME NEW v \in Workers, Storing(v, t)' PROVE worker'[v].saw = world'[t]
    <3>1. CASE v = w
      BY <3>1, <2>2, <1>2, <1>3 DEF Storing, Drilling
    <3>2. CASE v # w
      <4>1. Storing(v, t) /\ worker'[v] = worker[v]
        BY <3>2, <2>2, <1>3 DEF Storing, Drilling
      <4>. QED
        BY <4>1, <2>1, <1>2 DEF Kept
    <3>. QED
      BY <3>1, <3>2
  <2>3. Kept(t)'
    BY <2>1, <2>2, <1>2 DEF Kept, IsProof
  <2>4. Waiting(t)'
    BY <2>1, <1>2, <1>4 DEF Waiting
  <2>. QED
    BY <2>3, <2>4
<1>. QED
  BY <1>5, <1>6 DEF SteadyInv

\* A drill that is done renews its proof, and leaves the others less to wait for.
LEMMA SteadyIngests ==
  ASSUME SteadyRegister, NEW w \in Workers, Ingest(w)
  PROVE  PassInv' /\ SteadyInv'
<1>. DEFINE D == Cardinality(Tools)
            n == Len(ToDo)
<1>0. RegisterInv /\ PassInv /\ SteadyInv
  BY DEF SteadyRegister
<1>1. /\ worker \in [Workers -> WorkerStates] /\ Scheduler \in Workers
      /\ ToDo \in Seq(Tools) /\ n \in Nat /\ pause \in Nat
      /\ worker[Scheduler].age \in 0 .. 1
      /\ D \in Nat /\ (Tools # {} => D # 0) /\ Early \in Nat /\ Early >= 1 /\ Period \in Nat
  BY <1>0, ToDoType, ToolsCount
<1>2. PICK d \in Tools : d = Head(worker[w].todo)
  BY <1>0, <1>1, HeadIsTool DEF Ingest, WorkerStates, RegisterInv, WorkersInv
<1>3. /\ worker[w].at = "stored" /\ worker[w].todo # <<>> /\ worker[w].age = 1
      /\ register' = [register EXCEPT ![d] = Recorded(@, worker[w].saw, 1)]
      /\ steady' \subseteq steady \cup {d}
      /\ d \in steady' => (d \in steady) \/ (IsProof(Outcome(worker[w].saw)) /\ worker[w].saw = world[d])
      /\ worker' = [worker EXCEPT ![w] = [Idle EXCEPT !.todo = Tail(worker[w].todo)]]
      /\ UNCHANGED <<world, pause, tangled>>
  <2>1. worker[w].at = "stored" /\ worker[w].todo # <<>> /\ worker[w].age = 1
    BY <1>0 DEF Ingest, RegisterInv, WorkersInv
  <2>2. /\ register' = [register EXCEPT ![d] = Recorded(@, worker[w].saw, 1)]
        /\ steady' = IF IsProof(Outcome(worker[w].saw)) /\ worker[w].saw = world[d]
                     THEN steady \cup {d} ELSE steady
        /\ worker' = [worker EXCEPT ![w] = [Idle EXCEPT !.todo = Tail(worker[w].todo)]]
        /\ UNCHANGED <<world, pause, tangled>>
    BY <2>1, <1>2 DEF Ingest
  <2>. QED
    BY <2>1, <2>2
<1>4. /\ worker'[w] = [Idle EXCEPT !.todo = Tail(worker[w].todo)]
      /\ worker'[w].at = "idle" /\ worker'[w].age = 0 /\ worker'[w].saw = None
      /\ worker'[w].todo = Tail(worker[w].todo)
      /\ \A v \in Workers : v # w => worker'[v] = worker[v]
  <2>1. worker'[w] = [Idle EXCEPT !.todo = Tail(worker[w].todo)]
        /\ \A v \in Workers : v # w => worker'[v] = worker[v]
    BY <1>1, <1>3
  <2>. QED
    BY <2>1 DEF Idle
<1>5. Storing(w, d) /\ Drilling(w, d)
  BY <1>2, <1>3 DEF Storing, Drilling
<1>. HIDE DEF D
\* what is left of the pass
<1>6. /\ PassInv'
      /\ \A t \in steady' \ tangled' : t # d => Waiting(t)'
      /\ 1 + Len(ToDo') <= Early + D - 1 + worker'[Scheduler].age + pause'
           + (IF d \in Range(ToDo') THEN Period + D ELSE 0)
  <2>1. CASE w = Scheduler
    <3>1. ToDo' = Tail(ToDo) /\ ToDo # <<>> /\ Head(ToDo) = d /\ worker[Scheduler].age = 1
          /\ worker'[Scheduler].age = 0 /\ pause = 0 /\ pause' = 0
      BY <1>0, <1>2, <1>3, <1>4, <2>1 DEF ToDo, PassInv
    <3>2. /\ n # 0 /\ Len(ToDo') = n - 1 /\ Tail(ToDo) \in Seq(Tools)
          /\ \A i \in 1 .. n - 1 : Tail(ToDo)[i] = ToDo[i + 1]
          /\ ToDo[1] = d
      BY <1>1, <3>1
    <3>3. Range(ToDo') \subseteq Range(ToDo) /\ Range(ToDo) \subseteq Range(ToDo') \cup {d}
      <4>1. DOMAIN ToDo = 1 .. n /\ DOMAIN ToDo' = 1 .. n - 1
        BY <1>1, <3>1, <3>2, LenProperties
      <4>2. ASSUME NEW i \in 1 .. n PROVE ToDo[i] \in Range(ToDo') \cup {d}
        <5>1. CASE i = 1
          BY <5>1, <3>2
        <5>2. CASE i # 1
          <6>1. i - 1 \in 1 .. n - 1 /\ (i - 1) + 1 = i
            BY <5>2, <1>1
          <6>2. ToDo'[i - 1] = ToDo[i]
            BY <6>1, <3>1, <3>2
          <6>. QED
            BY <6>1, <6>2, <4>1 DEF Range
        <5>. QED
          BY <5>1, <5>2
      <4>3. ASSUME NEW i \in 1 .. n - 1 PROVE ToDo'[i] \in Range(ToDo)
        <5>1. i + 1 \in 1 .. n
          BY <1>1
        <5>2. ToDo'[i] = ToDo[i + 1]
          BY <3>1, <3>2
        <5>. QED
          BY <5>1, <5>2, <4>1 DEF Range
      <4>. QED
        BY <4>1, <4>2, <4>3 DEF Range
    <3>4. n <= D /\ Len(ToDo') < D /\ Len(ToDo') <= D /\ Len(ToDo') \in Nat
      <4>1. n <= D
        BY <1>0 DEF PassInv, D
      <4>. QED
        BY <4>1, <3>2, <1>1
    <3>5. PassInv'
      <4>1. Len(ToDo') <= Cardinality(Tools) /\ Len(ToDo') < Cardinality(Tools)
        BY <3>4 DEF D
      <4>. QED
        BY <4>1, <1>4, <2>1, <3>1 DEF PassInv
    <3>6. ASSUME NEW t \in steady' \ tangled', t # d
          PROVE  Waiting(t)'
      <4>1. t \in steady /\ t \in Tools /\ Waiting(t) /\ register'[t] = register[t]
        BY <3>6, <1>0, <1>3 DEF SteadyInv, RegisterInv, DTypeOK
      <4>2. t \in Range(ToDo') <=> t \in Range(ToDo)
        BY <3>3, <3>6
      <4>3. register[t].pass \in Nat
        BY <4>1, <1>0, ToDoType
      <4>. DEFINE x == IF t \in Range(ToDo) THEN Period + D ELSE 0
      <4>4. x \in Nat
        BY <1>1
      <4>5. register[t].pass + n <= Early + D - 1 + 1 + 0 + x
        BY <4>1, <3>1 DEF Waiting, D
      <4>. HIDE DEF x
      <4>6. register[t].pass + (n - 1) <= Early + D - 1 + 0 + 0 + x
        BY <4>3, <4>4, <4>5, <1>1
      <4>7. register'[t].pass + Len(ToDo') <= Early + D - 1 + worker'[Scheduler].age + pause' + x
        BY <4>1, <4>6, <3>1, <3>2
      <4>. QED
        BY <4>2, <4>7 DEF Waiting, x, D
    <3>7. 1 + Len(ToDo') <= Early + D - 1 + worker'[Scheduler].age + pause'
          + (IF d \in Range(ToDo') THEN Period + D ELSE 0)
      <4>. DEFINE x == IF d \in Range(ToDo') THEN Period + D ELSE 0
      <4>1. x \in Nat
        BY <1>1
      <4>. HIDE DEF x
      <4>2. 1 + Len(ToDo') <= Early + D - 1 + 0 + 0 + x
        BY <4>1, <3>4, <1>1
      <4>. QED
        BY <4>2, <3>1 DEF x
    <3>. QED
      BY <3>5, <3>6, <3>7
  <2>2. CASE w # Scheduler
    <3>1. worker'[Scheduler] = worker[Scheduler] /\ ToDo' = ToDo /\ pause' = pause
      BY <1>1, <1>3, <1>4, <2>2 DEF ToDo
    <3>2. PassInv'
      BY <3>1, <1>0 DEF PassInv
    <3>3. ASSUME NEW t \in steady' \ tangled', t # d
          PROVE  Waiting(t)'
      <4>1. t \in steady /\ t \in Tools /\ Waiting(t) /\ register'[t] = register[t]
        BY <3>3, <1>0, <1>3 DEF SteadyInv, RegisterInv, DTypeOK
      <4>. QED
        BY <4>1, <3>1 DEF Waiting
    <3>4. 1 + Len(ToDo') <= Early + D - 1 + worker'[Scheduler].age + pause'
          + (IF d \in Range(ToDo') THEN Period + D ELSE 0)
      <4>1. n <= D /\ (d \notin Range(ToDo) => n < D)
        BY <1>0, <1>2 DEF PassInv, D
      <4>2. worker[Scheduler].age \in Nat
        BY <1>1
      <4>3. CASE d \in Range(ToDo)
        <5>1. D # 0
          BY <1>1, <1>2
        <5>2. 1 + n <= Early + D - 1 + worker[Scheduler].age + pause + (Period + D)
          BY <5>1, <4>1, <4>2, <1>1
        <5>. QED
          BY <5>2, <4>3, <3>1
      <4>4. CASE d \notin Range(ToDo)
        <5>1. n < D
          BY <4>1, <4>4
        <5>2. 1 + n <= Early + D - 1 + worker[Scheduler].age + pause + 0
          BY <5>1, <4>2, <1>1
        <5>. QED
          BY <5>2, <4>4, <3>1
      <4>. QED
        BY <4>3, <4>4
    <3>. QED
      BY <3>2, <3>3, <3>4
  <2>. QED
    BY <2>1, <2>2
<1>7. /\ register'[d].drilled /\ register'[d].last = worker[w].saw
      /\ \A t \in Tools : t # d => register'[t] = register[t]
      /\ IsProof(Outcome(worker[w].saw)) => register'[d].pass = 1
  <2>1. register \in [Tools -> Entries]
    BY <1>0 DEF RegisterInv, DTypeOK, Entries
  <2>2. register'[d] = Recorded(register[d], worker[w].saw, 1)
        /\ \A t \in Tools : t # d => register'[t] = register[t]
    BY <1>3, <2>1
  <2>. QED
    BY <2>2 DEF Recorded
<1>8. ASSUME NEW t \in steady' \ tangled', t # d
      PROVE  Kept(t)' /\ Waiting(t)'
  <2>1. Kept(t) /\ t \in Tools /\ register'[t] = register[t]
    BY <1>8, <1>0, <1>3, <1>7 DEF SteadyInv, RegisterInv, DTypeOK
  <2>2. ASSUME NEW v \in Workers, Storing(v, t)' PROVE worker'[v].saw = world'[t]
    <3>1. v # w
      BY <2>2, <1>4 DEF Storing
    <3>2. Storing(v, t) /\ worker'[v] = worker[v]
      BY <3>1, <2>2, <1>4 DEF Storing, Drilling
    <3>. QED
      BY <3>2, <2>1, <1>3 DEF Kept
  <2>3. Kept(t)'
    BY <2>1, <2>2, <1>3 DEF Kept, IsProof
  <2>. QED
    BY <2>3, <1>6, <1>8
<1>9. ASSUME d \in steady' \ tangled'
      PROVE  Kept(d)' /\ Waiting(d)'
  <2>1. worker[w].saw = world[d] /\ IsProof(Outcome(world[d]))
    <3>1. CASE d \in steady
      BY <3>1, <1>9, <1>0, <1>3, <1>5 DEF SteadyInv, Kept
    <3>2. CASE d \notin steady
      BY <3>2, <1>9, <1>3
    <3>. QED
      BY <3>1, <3>2
  <2>2. Books(d)
    BY <1>0, <1>3, <1>9 DEF RegisterInv, BooksInv
  <2>3. \A v \in Workers : ~Storing(v, d)'
    <3>1. ASSUME NEW v \in Workers, Storing(v, d)' PROVE FALSE
      <4>1. v # w
        BY <3>1, <1>4 DEF Storing
      <4>2. Drilling(v, d)
        BY <4>1, <3>1, <1>4 DEF Storing, Drilling
      <4>. QED
        BY <4>1, <4>2, <2>2, <1>5 DEF Books
    <3>. QED
      BY <3>1
  <2>4. Kept(d)'
    BY <2>1, <2>3, <1>3, <1>7 DEF Kept, IsProof
  <2>5. register'[d].pass = 1
    BY <2>1, <1>7
  <2>6. Waiting(d)'
    BY <2>5, <1>6 DEF Waiting, D
  <2>. QED
    BY <2>4, <2>6
<1>. QED
  BY <1>6, <1>8, <1>9 DEF SteadyInv

\* A tick makes a proof one older, and the pass, or the pause after it, one longer.
LEMMA SteadyAges ==
  ASSUME SteadyRegister, Tick
  PROVE  PassInv' /\ SteadyInv'
<1>. DEFINE D == Cardinality(Tools)
<1>0. RegisterInv /\ PassInv /\ SteadyInv
  BY DEF SteadyRegister
<1>1. /\ worker \in [Workers -> WorkerStates] /\ Scheduler \in Workers
      /\ Len(ToDo) \in Nat /\ pause \in Nat /\ worker[Scheduler].age \in 0 .. 1
      /\ D \in Nat /\ Early \in Nat /\ Period \in Nat
  BY <1>0, ToDoType, ToolsCount
<1>2. /\ worker' = [w \in Workers |->
                      IF worker[w].at = "drilling" THEN [worker[w] EXCEPT !.age = 1] ELSE worker[w]]
      /\ register' = [t \in Tools |-> [register[t] EXCEPT !.pass = Aged(@, 1)]]
      /\ pause' = IF worker[Scheduler] = Idle THEN pause + 1 ELSE pause
      /\ UNCHANGED <<world, steady, tangled>>
  BY DEF Tick
<1>3. \A w \in Workers :
        /\ worker'[w].todo = worker[w].todo /\ worker'[w].at = worker[w].at
        /\ worker'[w].saw = worker[w].saw
        /\ worker[w].at = "drilling" => worker[w].age = 0 /\ worker'[w].age = 1
        /\ worker[w].at # "drilling" => worker'[w] = worker[w] /\ worker[w].todo = <<>>
        /\ worker[w].at # "stored"
  <2>1. ASSUME NEW w \in Workers
        PROVE  /\ worker'[w].todo = worker[w].todo /\ worker'[w].at = worker[w].at
               /\ worker'[w].saw = worker[w].saw
               /\ worker[w].at = "drilling" => worker[w].age = 0 /\ worker'[w].age = 1
               /\ worker[w].at # "drilling" => worker'[w] = worker[w] /\ worker[w].todo = <<>>
               /\ worker[w].at # "stored"
    <3>1. worker[w] \in WorkerStates
      BY <1>1
    <3>2. /\ worker[w].todo # <<>> => worker[w].at = "drilling" /\ worker[w].age = 0
          /\ worker[w].at # "idle" => worker[w].todo # <<>>
      BY <1>0 DEF Tick, TimeMayPass, RegisterInv, WorkersInv
    <3>3. CASE worker[w].at = "drilling"
      <4>1. worker'[w] = [worker[w] EXCEPT !.age = 1]
        BY <1>2, <3>3
      <4>2. /\ worker'[w].age = 1 /\ worker'[w].todo = worker[w].todo
            /\ worker'[w].at = worker[w].at /\ worker'[w].saw = worker[w].saw
        BY <3>1, <4>1 DEF WorkerStates
      <4>. QED
        BY <3>2, <3>3, <4>2
    <3>4. CASE worker[w].at # "drilling"
      <4>1. worker'[w] = worker[w]
        BY <1>2, <3>4
      <4>. QED
        BY <3>1, <3>2, <3>4, <4>1 DEF WorkerStates
    <3>. QED
      BY <3>3, <3>4
  <2>. QED
    BY <2>1
<1>4. /\ ToDo' = ToDo
      /\ worker'[Scheduler].age + pause' = worker[Scheduler].age + pause + 1
      /\ ToDo # <<>> => pause' = 0
      /\ worker'[Scheduler].at = "idle" => worker'[Scheduler].age = 0 /\ worker'[Scheduler].saw = None
  <2>1. ToDo' = ToDo
    BY <1>1, <1>3 DEF ToDo
  <2>2. CASE worker[Scheduler].at = "idle"
    <3>1. /\ worker'[Scheduler] = worker[Scheduler] /\ ToDo = <<>>
          /\ worker[Scheduler].age = 0 /\ worker[Scheduler].saw = None
      BY <1>0, <1>1, <1>3, <2>2 DEF ToDo, PassInv
    <3>2. worker[Scheduler] = Idle
      <4>1. worker[Scheduler] \in WorkerStates
        BY <1>1
      <4>. QED
        BY <2>2, <3>1, <4>1 DEF WorkerStates, Idle, ToDo
    <3>3. pause' = pause + 1
      BY <1>2, <3>2
    <3>. QED
      BY <1>1, <2>1, <3>1, <3>3
  <2>3. CASE worker[Scheduler].at # "idle"
    <3>1. worker[Scheduler].at = "drilling" /\ worker[Scheduler].age = 0
          /\ worker'[Scheduler].age = 1 /\ worker'[Scheduler].at # "idle" /\ ToDo # <<>>
      <4>1. worker[Scheduler] \in WorkerStates
        BY <1>1
      <4>2. worker[Scheduler].at = "drilling"
        BY <1>1, <1>3, <2>3, <4>1 DEF WorkerStates
      <4>. QED
        BY <1>0, <1>1, <1>3, <2>3, <4>2 DEF ToDo, RegisterInv, WorkersInv
    <3>2. worker[Scheduler] # Idle
      BY <2>3 DEF Idle
    <3>3. pause' = pause /\ pause = 0
      BY <1>0, <1>2, <3>1, <3>2 DEF PassInv
    <3>. QED
      BY <2>1, <3>1, <3>3
  <2>. QED
    BY <2>2, <2>3
<1>5. PassInv'
  BY <1>0, <1>4 DEF PassInv
<1>6. ASSUME NEW t \in steady' \ tangled'
      PROVE  Kept(t)' /\ Waiting(t)'
  <2>1. Kept(t) /\ Waiting(t) /\ t \in Tools
    BY <1>0, <1>2, <1>6 DEF SteadyInv, RegisterInv, DTypeOK
  <2>2. register[t] \in Entries
    BY <1>0, <2>1 DEF RegisterInv, DTypeOK, Entries
  <2>3. PICK a : a = Aged(register[t].pass, 1)
    OBVIOUS
  <2>4. register[t].pass \in Nat /\ a \in Nat /\ a <= register[t].pass + 1
    BY <2>2, <2>3, ToolsCount DEF Entries, Ages, Never, Old, Aged, Least
  <2>5. register'[t] = [register[t] EXCEPT !.pass = a]
    BY <1>2, <2>1, <2>3
  <2>6. register'[t].pass = a /\ register'[t].drilled = register[t].drilled
        /\ register'[t].last = register[t].last
    BY <2>2, <2>5 DEF Entries
  <2>7. Kept(t)'
    <3>1. \A w \in Workers : ~Storing(w, t)'
      BY <1>3 DEF Storing
    <3>. QED
      BY <2>1, <2>6, <3>1, <1>2 DEF Kept, IsProof
  <2>8. Waiting(t)'
    <3>. DEFINE x == IF t \in Range(ToDo) THEN Period + D ELSE 0
    <3>1. x \in Nat
      BY <1>1
    <3>2. register[t].pass + Len(ToDo) <= Early + D - 1 + worker[Scheduler].age + pause + x
      BY <2>1 DEF Waiting
    <3>3. x = (IF t \in Range(ToDo') THEN Period + D ELSE 0)
      BY <1>4
    <3>. HIDE DEF x, D
    <3>4. worker[Scheduler].age \in Nat
      BY <1>1
    <3>5. PICK e : e = worker[Scheduler].age + pause
      OBVIOUS
    <3>6. register[t].pass + Len(ToDo) <= Early + D - 1 + e + x /\ e \in Nat
      BY <1>1, <2>4, <3>1, <3>2, <3>4, <3>5
    <3>7. a + Len(ToDo) <= Early + D - 1 + (e + 1) + x
      BY <1>1, <2>4, <3>1, <3>6
    <3>8. worker'[Scheduler].age \in Nat /\ pause' \in Nat
      BY <1>0, <1>1, TickKeeps, <1>3, <1>2
    <3>9. a + Len(ToDo) <= Early + D - 1 + worker'[Scheduler].age + pause' + x
      BY <1>1, <1>4, <3>1, <3>5, <3>7, <3>8, <2>4
    <3>. QED
      BY <1>4, <2>6, <3>3, <3>9 DEF Waiting, D
  <2>. QED
    BY <2>7, <2>8
<1>. QED
  BY <1>5, <1>6 DEF SteadyInv

\* A step that leaves no tool steady, and the scheduler idle or alone.
LEMMA SteadyForgets ==
  ASSUME SteadyRegister, steady' = {},
         \/ worker'[Scheduler] = Idle
         \/ UNCHANGED pause /\ worker'[Scheduler] = worker[Scheduler]
  PROVE  PassInv' /\ SteadyInv'
<1>1. SteadyInv'
  BY DEF SteadyInv
<1>2. CASE worker'[Scheduler] = Idle
  <2>1. ToDo' = <<>> /\ worker'[Scheduler].age = 0 /\ worker'[Scheduler].saw = None
    BY <1>2 DEF ToDo, Idle
  <2>2. Len(ToDo') = 0 /\ Range(ToDo') = {}
    BY <2>1 DEF Range
  <2>3. PassInv'
    BY <2>1, <2>2, ToolsCount DEF PassInv
  <2>. QED
    BY <1>1, <2>3
<1>3. CASE UNCHANGED pause /\ worker'[Scheduler] = worker[Scheduler]
  BY <1>1, <1>3 DEF SteadyRegister, PassInv, ToDo
<1>. QED
  BY <1>2, <1>3

LEMMA SteadyStep ==
  ASSUME SteadyRegister, ScheduleHasRoom, [Next]_dvars
  PROVE  PassInv' /\ SteadyInv'
<1>1. worker \in [Workers -> WorkerStates] /\ Scheduler \in Workers /\ RegisterInv
  BY ToDoType, ToolsCount DEF SteadyRegister
<1>2. CASE BeginPass
  BY <1>2, SteadyBegins
<1>3. ASSUME NEW w \in Operators, NEW t \in Tools, DrillByHand(w, t)
      PROVE  PassInv' /\ SteadyInv'
  <2>1. /\ worker[w] = Idle /\ worker' = [worker EXCEPT ![w].todo = <<t>>] /\ w # Scheduler
        /\ UNCHANGED <<world, register, pause, steady, tangled>>
    BY <1>3, DrillAssumption DEF DrillByHand
  <2>2. worker'[w].at = "idle" /\ \A v \in Workers : v # w => worker'[v] = worker[v]
    BY <1>1, <2>1 DEF Idle, Workers, WorkerStates
  <2>. QED
    BY <1>1, <2>1, <2>2, SteadyFrame
<1>4. ASSUME NEW w \in Workers, Work(w)
      PROVE  PassInv' /\ SteadyInv'
  BY <1>4, SteadyStarts, SteadyPersists, SteadyIngests DEF Work
<1>5. ASSUME NEW w \in Workers, PersistFails(w)
      PROVE  PassInv' /\ SteadyInv'
  <2>1. worker' = [worker EXCEPT ![w] = Idle] /\ steady' = {} /\ UNCHANGED pause
    BY <1>5 DEF PersistFails
  <2>2. worker'[Scheduler] = Idle \/ worker'[Scheduler] = worker[Scheduler]
    BY <1>1, <2>1
  <2>. QED
    BY <2>1, <2>2, SteadyForgets
<1>6. CASE Tick
  BY <1>6, SteadyAges
<1>7. ASSUME NEW downtime \in 0 .. MaxDowntime, Restart(downtime)
      PROVE  PassInv' /\ SteadyInv'
  <2>1. worker'[Scheduler] = Idle /\ steady' = {}
    BY <1>1, <1>7 DEF Restart
  <2>. QED
    BY <2>1, SteadyForgets
<1>8. ASSUME NEW t \in Tools, NEW sight \in WorldsOf[t], ChangeWorld(t, sight)
      PROVE  PassInv' /\ SteadyInv'
  <2>1. /\ UNCHANGED <<register, pause, worker, tangled>> /\ steady' = steady \ {t}
        /\ world' = [world EXCEPT ![t] = sight] /\ DOMAIN world = Tools
    BY <1>1, <1>8 DEF ChangeWorld, RegisterInv, DTypeOK
  <2>2. steady' \subseteq steady /\ \A u \in steady' : world'[u] = world[u]
    BY <2>1
  <2>. QED
    BY <2>1, <2>2, SteadyFrame
<1>9. CASE UNCHANGED dvars
  BY <1>9, SteadyFrame DEF dvars
<1>. QED
  BY <1>2, <1>3, <1>4, <1>5, <1>6, <1>7, <1>8, <1>9 DEF Next

\* Under a schedule that keeps up, a steady proof is at most StaleAfter old.
LEMMA SteadyIsProven ==
  ASSUME SteadyRegister, ScheduleHasRoom
  PROVE  ProofsStayFresh
<1>. SUFFICES ASSUME NEW t \in steady \ tangled
              PROVE  IsProven(t)
  BY DEF ProofsStayFresh
<1>. DEFINE D == Cardinality(Tools)
            n == Len(ToDo)
            e == worker[Scheduler].age + pause
<1>1. /\ RegisterInv /\ PassInv /\ Kept(t) /\ Waiting(t) /\ t \in Tools
  BY DEF SteadyRegister, SteadyInv, RegisterInv, DTypeOK
<1>2. /\ n \in Nat /\ pause \in Nat /\ worker[Scheduler].age \in 0 .. 1
      /\ D \in Nat /\ Early \in Nat /\ Period \in Nat /\ StaleAfter \in Nat
      /\ register[t].pass \in Nat
      /\ worker[Scheduler] \in WorkerStates /\ pause <= Period /\ ToDo \in Seq(Tools)
      /\ D # 0
  BY <1>1, ToDoType, ToolsCount DEF RegisterInv, DTypeOK
<1>3. e \in Nat /\ (n = 0 => e <= Period) /\ (n # 0 => e <= 1) /\ (n = 0 => t \notin Range(ToDo))
  <2>1. CASE ToDo = <<>>
    <3>1. worker[Scheduler].at = "idle"
      BY <2>1, <1>1, ToolsCount DEF RegisterInv, WorkersInv, ToDo
    <3>2. worker[Scheduler].age = 0 /\ n = 0 /\ t \notin Range(ToDo)
      BY <2>1, <3>1, <1>1 DEF PassInv, Range
    <3>. QED
      BY <3>2, <1>2
  <2>2. CASE ToDo # <<>>
    <3>1. pause = 0 /\ n # 0
      BY <2>2, <1>1, <1>2 DEF PassInv
    <3>2. worker[Scheduler].age \in Nat /\ worker[Scheduler].age <= 1
      BY <1>2
    <3>3. e \in Nat /\ e <= 1
      BY <3>1, <3>2
    <3>. QED
      BY <3>1, <3>3
  <2>. QED
    BY <2>1, <2>2
<1>4. register[t].pass + n <= Early + D - 1 + e + (IF t \in Range(ToDo) THEN Period + D ELSE 0)
  <2>1. register[t].pass + n <= Early + D - 1 + worker[Scheduler].age + pause
                                 + (IF t \in Range(ToDo) THEN Period + D ELSE 0)
    BY <1>1 DEF Waiting
  <2>. DEFINE x == IF t \in Range(ToDo) THEN Period + D ELSE 0
  <2>2. x \in Nat
    BY <1>2
  <2>. HIDE DEF x, D, n
  <2>3. register[t].pass + n <= Early + D - 1 + worker[Scheduler].age + pause + x
    BY <2>1 DEF x
  <2>4. worker[Scheduler].age \in Nat
    BY <1>2
  <2>. QED
    BY <1>2, <2>2, <2>3, <2>4 DEF x
<1>5. Early + Period + 2 * D <= StaleAfter + 1
  BY DEF ScheduleHasRoom
<1>. HIDE DEF D, n, e
<1>6. register[t].pass <= StaleAfter
  <2>1. CASE n = 0
    <3>1. register[t].pass + n <= Early + D - 1 + e + 0
      BY <2>1, <1>3, <1>4
    <3>. QED
      BY <2>1, <3>1, <1>2, <1>3, <1>5
  <2>2. CASE n # 0
    <3>1. register[t].pass + n <= Early + D - 1 + e + (Period + D)
      BY <1>2, <1>3, <1>4
    <3>. QED
      BY <2>2, <3>1, <1>2, <1>3, <1>5
  <2>. QED
    BY <2>1, <2>2
<1>. QED
  BY <1>1, <1>6 DEF Kept, IsProven, Fresh

\* A tool that passed in the table is in the table.
TabledInv == \A t \in Tools : table[t].pass # Never => table[t].drilled

LEMMA TabledStep ==
  ASSUME RegisterInv, TabledInv, [Next]_dvars
  PROVE  TabledInv'
<1>. USE DEF Rows
<1>1. table \in [Tools -> Rows]
  BY DEF RegisterInv, DTypeOK
<1>2. CASE UNCHANGED table
  BY <1>2 DEF TabledInv
<1>3. ASSUME NEW w \in Workers, Persist(w)
      PROVE  TabledInv'
  <2>0. PICK d : d = Head(worker[w].todo)
    OBVIOUS
  <2>1. PICK newest \in BOOLEAN :
          table' = [table EXCEPT ![d] = Inserted(@, world[d], worker[w].age, newest)]
    BY <1>3, <2>0 DEF Persist
  <2>2. \A t \in Tools : table'[t] = table[t] \/ table'[t].drilled
    BY <1>1, <2>1 DEF Inserted
  <2>. QED
    BY <2>2 DEF TabledInv
<1>4. ASSUME NEW ticks \in Nat,
             table' = [t \in Tools |-> [table[t] EXCEPT !.pass = Aged(@, ticks), !.age = Aged(@, ticks)]]
      PROVE  TabledInv'
  <2>1. ASSUME NEW t \in Tools, table'[t].pass # Never
        PROVE  table'[t].drilled
    <3>1. table[t] \in Rows
      BY <1>1
    <3>2. /\ table'[t].pass = Aged(table[t].pass, ticks)
          /\ table'[t].drilled = table[t].drilled
      BY <1>4, <3>1
    <3>3. table[t].pass # Never
      BY <2>1, <3>2 DEF Aged
    <3>. QED
      BY <3>2, <3>3 DEF TabledInv
  <2>. QED
    BY <2>1 DEF TabledInv
<1>5. CASE Tick
  BY <1>4, <1>5 DEF Tick
<1>6. ASSUME NEW downtime \in 0 .. MaxDowntime, Restart(downtime)
      PROVE  TabledInv'
  <2>1. downtime \in Nat
    BY DrillAssumption
  <2>. QED
    BY <1>4, <1>6, <2>1 DEF Restart
<1>. QED
  BY <1>2, <1>3, <1>5, <1>6
  DEF Next, Work, BeginPass, DrillByHand, Start, Ingest, PersistFails, ChangeWorld, dvars

\* What a drill may end in, and whose problem it then is.
LEMMA OutcomeIsNamed ==
  ASSUME NEW s
  PROVE  Outcome(s) \in {"not_drillable", "forward_failed", "errored", "forward_no_op",
                         "unavailable", "passed", "failed", "partial"}
BY DEF Outcome

\* Each tracked tool is in one group of the report, which is also its status.
LEMMA StatusIsGroup ==
  ASSUME NEW t \in Tools
  PROVE  /\ ~register[t].drilled => Status(t) = "never drilled"
         /\ t \in Tracked /\ Outcome(register[t].last) = "not_drillable" => Status(t) = "not drillable"
         /\ t \in ReportedAlarming => Status(t) = "last drill"
         /\ t \in ReportedStale => Status(t) = "stale"
         /\ t \in ReportedProven => Status(t) = "proven"
         /\ t \in Tracked =>
              \/ /\ Outcome(register[t].last) = "not_drillable"
                 /\ t \notin ReportedAlarming /\ t \notin ReportedStale /\ t \notin ReportedProven
              \/ t \in ReportedAlarming /\ t \notin ReportedStale /\ t \notin ReportedProven
              \/ t \notin ReportedAlarming /\ t \in ReportedStale /\ t \notin ReportedProven
              \/ t \notin ReportedAlarming /\ t \notin ReportedStale /\ t \in ReportedProven
         /\ t \in ReportedAlarming \cup ReportedStale \cup ReportedProven =>
              t \in Tracked /\ register[t].drilled
<1>1. t \in Tracked <=> register[t].drilled
  BY DEF Tracked
<1>2. t \in ReportedAlarming <=> t \in Tracked /\ IsAlarm(Outcome(register[t].last))
  BY DEF ReportedAlarming
<1>3. t \in ReportedStale <=>
        t \in Tracked /\ IsProof(Outcome(register[t].last)) /\ ~Fresh(register[t].pass)
  BY <1>1 DEF ReportedStale, IsProven
<1>4. t \in ReportedProven <=>
        t \in Tracked /\ IsProof(Outcome(register[t].last)) /\ Fresh(register[t].pass)
  BY <1>1 DEF ReportedProven, IsProven
<1>. DEFINE o == Outcome(register[t].last)
<1>. HIDE DEF o
<1>5. /\ t \in ReportedAlarming <=> t \in Tracked /\ o # "passed" /\ o # "not_drillable"
      /\ t \in ReportedStale <=> t \in Tracked /\ o = "passed" /\ ~Fresh(register[t].pass)
      /\ t \in ReportedProven <=> t \in Tracked /\ o = "passed" /\ Fresh(register[t].pass)
  BY <1>2, <1>3, <1>4 DEF o, IsAlarm, IsProof
<1>6. Status(t) =
        CASE ~register[t].drilled -> "never drilled"
          [] register[t].drilled /\ o = "not_drillable" -> "not drillable"
          [] t \in ReportedAlarming -> "last drill"
          [] t \in ReportedStale -> "stale"
          [] t \in ReportedProven -> "proven"
  BY DEF Status, o
<1>7. /\ ~register[t].drilled => Status(t) = "never drilled"
      /\ t \in Tracked /\ o = "not_drillable" => Status(t) = "not drillable"
      /\ t \in ReportedAlarming => Status(t) = "last drill"
      /\ t \in ReportedStale => Status(t) = "stale"
      /\ t \in ReportedProven => Status(t) = "proven"
  BY <1>1, <1>5, <1>6
<1>. QED
  BY <1>1, <1>5, <1>7 DEF o

\* The schedule takes a tool by the name the report counts it under.
LEMMA UrgencyIsPriority ==
  ASSUME NEW t \in Tools, RegisterInv
  PROVE  /\ t \in NeedsAttention =>
              Urgency(t) = Priority[IF t \in ReportedStale THEN "stale"
                                    ELSE AlarmUrgency[Outcome(register[t].last)]]
         /\ t \in Tracked /\ Urgency(t) < Priority["ageing"] => t \in NeedsAttention
         /\ t \in ReportedAlarming =>
              AlarmUrgency[Outcome(register[t].last)] \in {"failing", "blocked", "untested"}
<1>. DEFINE o == Outcome(register[t].last)
<1>1. o \in {"not_drillable", "forward_failed", "errored", "forward_no_op",
             "unavailable", "passed", "failed", "partial"}
  BY OutcomeIsNamed
<1>2. /\ t \in ReportedAlarming <=> register[t].drilled /\ o # "passed" /\ o # "not_drillable"
      /\ t \in ReportedStale <=> register[t].drilled /\ o = "passed" /\ ~Fresh(register[t].pass)
  BY DEF ReportedAlarming, ReportedStale, Tracked, IsAlarm, IsProof, IsProven
<1>3. Urgency(t) =
        CASE ~register[t].drilled -> 3
          [] register[t].drilled /\ o = "not_drillable" -> 6
          [] register[t].drilled /\ o \in {"failed", "partial", "errored"} -> 0
          [] register[t].drilled /\ o = "unavailable" -> 1
          [] register[t].drilled /\ o \in {"forward_failed", "forward_no_op"} -> 2
          [] register[t].drilled /\ o = "passed" ->
               IF ~Fresh(register[t].pass) THEN 4 ELSE IF RenewalAge(register[t].pass) THEN 5 ELSE 6
  BY DEF Urgency
<1>4. /\ Priority["failing"] = 0 /\ Priority["blocked"] = 1 /\ Priority["untested"] = 2
      /\ Priority["stale"] = 4 /\ Priority["ageing"] = 5
  BY DEF Priority
<1>5. /\ AlarmUrgency["failed"] = "failing" /\ AlarmUrgency["partial"] = "failing"
      /\ AlarmUrgency["errored"] = "failing" /\ AlarmUrgency["unavailable"] = "blocked"
      /\ AlarmUrgency["forward_failed"] = "untested" /\ AlarmUrgency["forward_no_op"] = "untested"
  BY DEF AlarmUrgency
<1>. HIDE DEF o
<1>6. t \in ReportedAlarming =>
        /\ AlarmUrgency[o] \in {"failing", "blocked", "untested"}
        /\ Urgency(t) = Priority[AlarmUrgency[o]] /\ t \notin ReportedStale
  BY <1>1, <1>2, <1>3, <1>4, <1>5
<1>7. t \in ReportedStale => Urgency(t) = Priority["stale"]
  BY <1>1, <1>2, <1>3, <1>4
<1>8. register[t].drilled /\ Urgency(t) < 5 => t \in ReportedAlarming \/ t \in ReportedStale
  BY <1>1, <1>2, <1>3
<1>. QED
  BY <1>4, <1>6, <1>7, <1>8 DEF o, NeedsAttention, Tracked

LEMMA ReportsAgreeHere ==
  ASSUME RegisterInv, TabledInv
  PROVE  ReportsAgree
<1>. DEFINE idle == {t \in Tracked : Status(t) = "not drillable"}
<1>0. /\ Tracked \subseteq Tools /\ ReportedAlarming \subseteq Tracked
      /\ ReportedStale \subseteq Tracked /\ ReportedProven \subseteq Tracked
      /\ NeedsAttention = ReportedAlarming \cup ReportedStale
  BY DEF Tracked, ReportedAlarming, ReportedStale, ReportedProven, NeedsAttention
<1>1. \A t \in Tracked :
        \/ t \in idle /\ t \notin NeedsAttention /\ t \notin ReportedProven
        \/ t \notin idle /\ t \in NeedsAttention /\ t \notin ReportedProven
        \/ t \notin idle /\ t \notin NeedsAttention /\ t \in ReportedProven
  BY <1>0, StatusIsGroup
<1>2. idle = {t \in Tools : Status(t) = "not drillable"}
  BY <1>0, StatusIsGroup DEF Tracked
<1>3. Shares(Tracked, {ReportedProven, NeedsAttention, idle})
  <2>1. UNION {ReportedProven, NeedsAttention, idle} = ReportedProven \cup NeedsAttention \cup idle
    OBVIOUS
  <2>2. ReportedProven \cup NeedsAttention \cup idle = Tracked
    BY <1>0, <1>1
  <2>3. /\ ReportedProven \cap NeedsAttention = {} /\ ReportedProven \cap idle = {}
        /\ NeedsAttention \cap idle = {}
    BY <1>0, <1>1
  <2>. HIDE DEF idle
  <2>4. \A a, b \in {ReportedProven, NeedsAttention, idle} : a = b \/ a \cap b = {}
    BY <2>3
  <2>. QED
    BY <2>1, <2>2, <2>4 DEF Shares
<1>4. /\ \A t \in NeedsAttention :
           Urgency(t) = Priority[IF t \in ReportedStale THEN "stale"
                                 ELSE AlarmUrgency[Outcome(register[t].last)]]
      /\ \A t \in Tracked : Urgency(t) < Priority["ageing"] => t \in NeedsAttention
  BY <1>0, UrgencyIsPriority
<1>5. Shares(ReportedAlarming, {ByUrgency(name) : name \in {"failing", "blocked", "untested"}})
  <2>1. \A t \in ReportedAlarming :
          AlarmUrgency[Outcome(register[t].last)] \in {"failing", "blocked", "untested"}
    BY <1>0, UrgencyIsPriority
  <2>2. \A name : \A t : t \in ByUrgency(name) <=>
          t \in ReportedAlarming /\ AlarmUrgency[Outcome(register[t].last)] = name
    BY DEF ByUrgency
  <2>3. UNION {ByUrgency(name) : name \in {"failing", "blocked", "untested"}} = ReportedAlarming
    BY <2>1, <2>2
  <2>4. \A a, b \in {ByUrgency(name) : name \in {"failing", "blocked", "untested"}} :
          a = b \/ a \cap b = {}
    BY <2>2
  <2>. QED
    BY <2>3, <2>4 DEF Shares
<1>6. ASSUME NEW t \in Tools, Attested(t).proven
      PROVE  ~Demoted(t) /\ Fresh(Attested(t).age) /\ Status(t) = "proven"
  <2>1. IsProven(t) /\ Attested(t).age = register[t].pass
    BY <1>6 DEF Attested
  <2>2. t \in ReportedProven
    BY <2>1 DEF ReportedProven, Tracked, IsProven
  <2>. QED
    BY <2>1, <2>2, StatusIsGroup DEF Demoted, IsProven
<1>7. LET c == CoverageOf(Tools)
      IN Tools \ (c.proven \cup c.undrilled \cup c.failing)
           = ReportedStale \cup {t \in Tools : Status(t) = "not drillable"}
  <2>1. /\ CoverageOf(Tools).proven = ReportedProven
        /\ CoverageOf(Tools).undrilled = Tools \ Tracked
        /\ CoverageOf(Tools).failing = ReportedAlarming
    BY DEF CoverageOf, ReportedProven, Tracked, ReportedAlarming, IsProven
  <2>2. Tools \ (ReportedProven \cup (Tools \ Tracked) \cup ReportedAlarming) = ReportedStale \cup idle
    <3>. HIDE DEF idle
    <3>1. \A t \in ReportedStale : t \notin ReportedAlarming
      BY <1>0, StatusIsGroup
    <3>2. idle \subseteq Tracked
      BY DEF idle
    <3>. QED
      BY <1>0, <1>1, <3>1, <3>2
  <2>. QED
    BY <2>1, <2>2, <1>2
<1>8. ASSUME NEW t \in StaleAtStartup
      PROVE  t \in tangled \/ Recording(t) \/ Demoted(t)
  <2>. SUFFICES ASSUME t \notin tangled, ~Recording(t)
                PROVE  Demoted(t)
    OBVIOUS
  <2>1. t \in Tools /\ table[t].pass # Never /\ ~Fresh(table[t].pass)
    BY <1>8 DEF StaleAtStartup, PassedInTable
  <2>2. register[t] = Rebuilt(table[t])
    BY <2>1 DEF RegisterInv, BooksInv, Books, Storing, Drilling, Recording
  <2>3. table[t].drilled
    BY <2>1 DEF TabledInv
  <2>. QED
    BY <2>1, <2>2, <2>3 DEF Rebuilt, Demoted, IsProven
<1>. QED
  BY <1>3, <1>4, <1>5, <1>6, <1>7, <1>8 DEF ReportsAgree

\* In every state, whatever the schedule, the readers of the register agree.
THEOREM ReportsAlwaysAgree == Spec => []ReportsAgree
<1>1. Init => TabledInv
  BY DEF Init, TabledInv
<1>2. RegisterInv /\ TabledInv /\ [Next]_dvars => TabledInv'
  BY TabledStep
<1>3. RegisterInv /\ TabledInv => ReportsAgree
  BY ReportsAgreeHere
<1>. QED
  BY <1>1, <1>2, <1>3, RegisterInvariant, PTL DEF Spec

\* Where the schedule has room for two passes and a pause between the age at which a
\* proof is due and the age at which it lapses, no proof lapses behind it, and whoever
\* reads of it reads the same.
THEOREM ProofsNeverLapse ==
  ASSUME ScheduleHasRoom
  PROVE  Spec => []ProofsStayFreshAndToldRight
<1>1. Init => PassInv /\ SteadyInv
  <2>. SUFFICES ASSUME Init PROVE PassInv /\ SteadyInv
    OBVIOUS
  <2>1. worker[Scheduler] = Idle /\ steady = {}
    BY ToolsCount DEF Init
  <2>2. ToDo = <<>> /\ worker[Scheduler].age = 0 /\ worker[Scheduler].saw = None
    BY <2>1 DEF Idle, ToDo
  <2>3. Len(ToDo) = 0 /\ Range(ToDo) = {}
    BY <2>2 DEF Range
  <2>. QED
    BY <2>1, <2>2, <2>3, ToolsCount DEF PassInv, SteadyInv
<1>2. RegisterInv /\ PassInv /\ SteadyInv /\ [Next]_dvars => PassInv' /\ SteadyInv'
  BY SteadyStep DEF SteadyRegister
<1>3. RegisterInv /\ PassInv /\ SteadyInv => ProofsStayFresh
  BY SteadyIsProven DEF SteadyRegister
<1>4. ProofsStayFresh /\ ReportsAgree => ProofsStayFreshAndToldRight
  BY DEF ProofsStayFreshAndToldRight
<1>. QED
  BY <1>1, <1>2, <1>3, <1>4, RegisterInvariant, ReportsAlwaysAgree, PTL DEF Spec

-----------------------------------------------------------------------------
(* Suites of drills.                                                       *)

\* Induction on the natural numbers, in first-order form.
LEMMA NaturalsInduct ==
  ASSUME NEW S \in SUBSET Nat, 0 \in S, \A n \in S : n + 1 \in S
  PROVE  S = Nat
<1>. DEFINE Less == {pair \in Nat \X Nat : pair[1] < pair[2]}
<1>. SUFFICES ASSUME Nat \ S # {} PROVE FALSE
  OBVIOUS
<1>1. IsWellFoundedOn(Less, Nat)
  BY NatLessThanWellFounded DEF OpToRel
<1>2. PICK x \in Nat \ S : \A y \in Nat \ S : <<y, x>> \notin Less
  BY <1>1, WFMin
<1>3. \A y \in Nat \ S : ~(y < x)
  BY <1>2
<1>4. x # 0 /\ x - 1 \in Nat /\ x - 1 \notin Nat \ S
  BY <1>3
<1>. QED BY <1>4

\* A change that is no new bad news keeps a proof, and keeps a control drilled; and a
\* drilled control that is still there is proven now, or alarms.
LEMMA ChangeKeeps ==
  ASSUME NEW now, NEW before
  PROVE  /\ ~IsNewBadNews(Change(now, before)) /\ IsProof(before) => IsProof(now)
         /\ ~IsNewBadNews(Change(now, before)) /\ before \notin {Absent, "not_drillable"} =>
              now \notin {Absent, "not_drillable"}
         /\ before \notin {Absent, "not_drillable"} /\ now # Absent /\ ~IsProof(now) =>
              IsAlarming(Change(now, before))
BY DEF Change, IsNewBadNews, IsAlarming, IsProof, Absent

\* The function CleanBack describes, up to run n.
Leads(back, h, n) ==
  back = [k \in 1 .. n |-> IF h.basis[k] = 0 \/ ~Clean(ReportOf(h, k))
                           THEN {k} ELSE {k} \cup back[h.basis[k]]]

LEMMA SomeLead ==
  ASSUME NEW h, NEW n \in Nat, \A k \in 1 .. n : h.basis[k] \in 0 .. k - 1
  PROVE  \E back : Leads(back, h, n)
<1>. DEFINE Ends(k) == h.basis[k] = 0 \/ ~Clean(ReportOf(h, k))
            S == {m \in Nat : m <= n => \E back : Leads(back, h, m)}
<1>1. 0 \in S
  <2>. DEFINE back == [k \in 1 .. 0 |-> {}]
  <2>1. back = [k \in 1 .. 0 |-> IF Ends(k) THEN {k} ELSE {k} \cup back[h.basis[k]]]
    OBVIOUS
  <2>. QED
    BY <2>1 DEF Leads
<1>2. ASSUME NEW m \in S, m + 1 <= n
      PROVE  \E back : Leads(back, h, m + 1)
  <2>0. m \in Nat /\ m <= n
    BY <1>2
  <2>1. PICK back : Leads(back, h, m)
    BY <2>0
  <2>. DEFINE new == [k \in 1 .. m + 1 |->
                        IF k = m + 1 THEN (IF Ends(k) THEN {k} ELSE {k} \cup back[h.basis[k]]) ELSE back[k]]
  <2>2. ASSUME NEW k \in 1 .. m + 1
        PROVE  new[k] = IF Ends(k) THEN {k} ELSE {k} \cup new[h.basis[k]]
    <3>1. h.basis[k] \in 0 .. k - 1
      BY <1>2, <2>0
    <3>2. ~Ends(k) => h.basis[k] \in 1 .. m
      BY <3>1, <2>0
    <3>3. ~Ends(k) => new[h.basis[k]] = back[h.basis[k]]
      BY <3>2, <2>0
    <3>4. CASE k = m + 1
      <4>1. new[k] = IF Ends(k) THEN {k} ELSE {k} \cup back[h.basis[k]]
        BY <3>4
      <4>. HIDE DEF new, Ends
      <4>. QED
        BY <3>3, <4>1
    <3>5. CASE k # m + 1
      <4>1. k \in 1 .. m /\ new[k] = back[k]
        BY <3>5, <2>0
      <4>2. back[k] = IF Ends(k) THEN {k} ELSE {k} \cup back[h.basis[k]]
        BY <2>1, <4>1 DEF Leads
      <4>. HIDE DEF new, Ends
      <4>. QED
        BY <3>3, <4>1, <4>2
    <3>. QED
      BY <3>4, <3>5
  <2>3. new = [k \in 1 .. m + 1 |-> new[k]]
    OBVIOUS
  <2>. HIDE DEF new
  <2>4. Leads(new, h, m + 1)
    BY <2>2, <2>3, Zenon DEF Leads
  <2>. QED
    BY <2>4
<1>3. ASSUME NEW m \in S PROVE m + 1 \in S
  BY <1>2
<1>. HIDE DEF S
<1>4. S = Nat
  <2>1. S \in SUBSET Nat
    BY DEF S
  <2>. QED
    BY <1>1, <1>3, <2>1, NaturalsInduct
<1>5. n \in S
  BY <1>4
<1>. QED
  BY <1>5 DEF S

\* Along clean reports a proof stays a proof, and a drilled control stays drilled.
LEMMA CleanChains ==
  ASSUME NEW h \in Histories
  PROVE  \A k \in 1 .. MaxSuites : \A i \in CleanBack(h)[k] : \A t \in Tools :
           LET now == h.runs[k].result[t]
               before == h.runs[i].result[t]
           IN /\ IsProof(before) => IsProof(now)
              /\ before \notin {Absent, "not_drillable"} => now \notin {Absent, "not_drillable"}
              /\ i # k /\ before \notin {Absent, "not_drillable"} /\ now # Absent /\ ~IsProof(now) =>
                   IsAlarming(ReportOf(h, k)[t])
<1>. DEFINE R(k, t) == h.runs[k].result[t]
            Drilled(x) == x \notin {Absent, "not_drillable"}
            back == CleanBack(h)
            Kind(i, k) ==
              \A t \in Tools :
                /\ IsProof(R(i, t)) => IsProof(R(k, t))
                /\ Drilled(R(i, t)) => Drilled(R(k, t))
                /\ i # k /\ Drilled(R(i, t)) /\ R(k, t) # Absent /\ ~IsProof(R(k, t)) =>
                     IsAlarming(ReportOf(h, k)[t])
            S == {m \in Nat : \A k \in 1 .. MaxSuites : k <= m => \A i \in back[k] : Kind(i, k)}
<1>1. MaxSuites \in Nat
  BY ValidationAssumption
<1>2. \A k \in 1 .. MaxSuites : h.basis[k] \in 0 .. k - 1
  <2>0. h \in {[runs |-> Append(earlier, [target |-> target, result |-> SuiteOf(drilled)]),
               basis |-> basis] :
                 earlier \in [1 .. MaxSuites - 1 -> Suites], target \in Targets,
                 drilled \in SUBSET Tools, basis \in Bases}
    BY DEF Histories
  <2>1. \E earlier \in [1 .. MaxSuites - 1 -> Suites], target \in Targets,
           drilled \in SUBSET Tools, basis \in Bases :
             h = [runs |-> Append(earlier, [target |-> target, result |-> SuiteOf(drilled)]),
                  basis |-> basis]
    BY <2>0
  <2>2. h.basis \in Bases
    BY <2>1
  <2>. QED
    BY <1>1, <2>2 DEF Bases
<1>3. \A k \in 1 .. MaxSuites :
        back[k] = IF h.basis[k] = 0 \/ ~Clean(ReportOf(h, k)) THEN {k} ELSE {k} \cup back[h.basis[k]]
  <2>1. \E b : Leads(b, h, MaxSuites)
    BY <1>1, <1>2, SomeLead
  <2>2. Leads(back, h, MaxSuites)
    BY <2>1, Zenon DEF Leads, CleanBack
  <2>. HIDE DEF back
  <2>. QED
    BY <2>2 DEF Leads
<1>. HIDE DEF back
<1>4. ASSUME NEW k \in 1 .. MaxSuites, h.basis[k] # 0, Clean(ReportOf(h, k)),
             NEW i, Kind(i, h.basis[k])
      PROVE  Kind(i, k)
  <2>. DEFINE b == h.basis[k]
  <2>1. ASSUME NEW t \in Tools
        PROVE  ReportOf(h, k)[t] = Change(R(k, t), R(b, t))
    BY <1>4 DEF ReportOf
  <2>2. \A t \in Tools : ~IsNewBadNews(ReportOf(h, k)[t])
    BY <1>4 DEF Clean
  <2>3. \A t \in Tools :
          /\ IsProof(R(i, t)) => IsProof(R(b, t))
          /\ Drilled(R(i, t)) => Drilled(R(b, t))
    BY <1>4
  <2>. HIDE DEF R, b
  <2>. QED
    BY <2>1, <2>2, <2>3, ChangeKeeps
<1>5. \A k : Kind(k, k)
  OBVIOUS
<1>. HIDE DEF Kind
<1>6. 0 \in S
  BY <1>1
<1>7. ASSUME NEW m \in S PROVE m + 1 \in S
  <2>0. m \in Nat /\ \A k \in 1 .. MaxSuites : k <= m => \A i \in back[k] : Kind(i, k)
    OBVIOUS
  <2>1. ASSUME NEW k \in 1 .. MaxSuites, k <= m + 1, NEW i \in back[k]
        PROVE  Kind(i, k)
    <3>1. CASE i = k
      BY <3>1, <1>5
    <3>2. CASE i # k
      <4>0. back[k] = IF h.basis[k] = 0 \/ ~Clean(ReportOf(h, k))
                      THEN {k} ELSE {k} \cup back[h.basis[k]]
        BY <1>3
      <4>1. h.basis[k] # 0 /\ Clean(ReportOf(h, k)) /\ i \in back[h.basis[k]]
        BY <2>1, <3>2, <4>0, Zenon
      <4>2. h.basis[k] \in 1 .. MaxSuites /\ h.basis[k] <= m
        BY <1>1, <1>2, <2>0, <2>1, <4>1
      <4>3. Kind(i, h.basis[k])
        BY <2>0, <4>1, <4>2
      <4>. QED
        BY <1>4, <4>1, <4>3
    <3>. QED
      BY <3>1, <3>2
  <2>. QED
    BY <2>0, <2>1
<1>8. MaxSuites \in S
  <2>1. S \in SUBSET Nat
    OBVIOUS
  <2>. HIDE DEF S
  <2>. QED
    BY <1>1, <1>6, <1>7, <2>1, NaturalsInduct
<1>9. \A k \in 1 .. MaxSuites : \A i \in back[k] : Kind(i, k)
  BY <1>1, <1>8
<1>. QED
  BY <1>9 DEF Kind, back

\* Whatever runs are compared with whatever earlier ones, a chain of clean reports
\* neither loses a proof nor hides a failure.
THEOREM CleanChainsKeepProofs == Spec => []CleanReportsKeepProofs
<1>1. CleanReportsKeepProofs
  BY CleanChains DEF CleanReportsKeepProofs
<1>. QED
  BY <1>1, PTL
=============================================================================
