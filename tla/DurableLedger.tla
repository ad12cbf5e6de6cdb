--------------------------- MODULE DurableLedger ---------------------------
(***************************************************************************)
(* The hash chain and its durable mirror: src/src/revoco/ledger.py,        *)
(* store/sqlite.py and ControlPlane._append.                               *)
(*                                                                         *)
(* A process extends its chain in three critical sections under three      *)
(* locks: prepare reads the in-memory head, the store inserts the row in   *)
(* one transaction, and append_prebuilt mirrors it in memory.  Threads of  *)
(* one process, and processes that share one file, interleave between      *)
(* them; a process may stop at any point and start again from the file.    *)
(* Nothing outside transactions is lost, and a transaction is all or none. *)
(***************************************************************************)
EXTENDS Integers, Sequences, FiniteSets

CONSTANTS
  Processes,  \* control planes that open the file
  Threads,    \* threads that append
  ProcessOf,  \* the process each thread belongs to
  Ids,        \* journal ids
  NoThread,   \* nobody holds the engine's lock
  MaxRows,    \* bound on prepared ledger entries
  MaxCrashes, \* bound on crashes
  DiskFails   \* whether the store may refuse a transaction

ASSUME LedgerAssumption ==
  /\ ProcessOf \in [Threads -> Processes]
  /\ NoThread \notin Threads
  /\ MaxRows \in Nat /\ MaxCrashes \in Nat /\ DiskFails \in BOOLEAN

VARIABLES
  ledger,   \* the ledger table: seq -> row
  stored,   \* the journal table: the state each row shows, and its ledger_seq
  minted,   \* how many entries were prepared; an entry's hash is its number
  memory,   \* Ledger._entries of each process
  live,     \* the state of each entry in the ReversalEngine of each process
  opened,   \* journal ids already given out
  running,  \* processes that are up
  lock,     \* who holds each engine's lock
  thread,   \* the append each thread is in the middle of
  returned, \* history: hashes of appends that returned to their caller
  crashes   \* history: number of crashes

tables == <<ledger, stored>>
processes == <<memory, live, opened, running, lock>>
lvars == <<tables, minted, processes, thread, returned, crashes>>

States == {"planned", "committed", "abandoned", "reversed", "reversal_failed", "expired"}

\* An event about an authority, a plan or a verdict names no journal entry; an
\* engine event carries the entry (journaled) or only its receipt.
Plain == [entry |-> "none", state |-> "none", journaled |-> FALSE]
Events == {Plain} \cup [entry : Ids, state : States, journaled : BOOLEAN]
Rows == [seq : Nat, hash : Nat, prev : Nat, event : Events]

Genesis == 0

NotPrepared == [seq |-> 0, hash |-> 0, prev |-> 0, event |-> Plain]
Idle == [pc |-> "idle", event |-> Plain, row |-> NotPrepared]

NotStored == [state |-> "none", seq |-> 0]

LInit ==
  /\ ledger = [s \in {} |-> NotPrepared]
  /\ stored = [i \in Ids |-> NotStored]
  /\ minted = 0
  /\ memory = [p \in Processes |-> <<>>]
  /\ live = [p \in Processes |-> [i \in Ids |-> "none"]]
  /\ opened = {}
  /\ running = Processes
  /\ lock = [p \in Processes |-> NoThread]
  /\ thread = [t \in Threads |-> Idle]
  /\ returned = {}
  /\ crashes = 0

-----------------------------------------------------------------------------
(* Events.  An engine transition and its append happen under the engine's  *)
(* RLock; authority events and verdicts take no lock around the append.    *)

Emit(t, event) == thread' = [thread EXCEPT ![t] = [@ EXCEPT !.pc = "emit", !.event = event]]

\* ControlPlane._on_authority_event, and _append of a verdict.
PlainEvent(t) ==
  /\ ProcessOf[t] \in running
  /\ thread[t].pc = "idle"
  /\ Emit(t, Plain)
  /\ UNCHANGED <<tables, minted, processes, returned, crashes>>

\* ReversalEngine.open_journal emits nothing.
Open(t, i) ==
  LET p == ProcessOf[t]
  IN /\ p \in running
     /\ thread[t].pc = "idle"
     /\ lock[p] = NoThread
     /\ i \notin opened
     /\ opened' = opened \cup {i}
     /\ live' = [live EXCEPT ![p][i] = "planned"]
     /\ UNCHANGED <<tables, minted, memory, running, lock, thread, returned, crashes>>

\* Which transitions the engine's operations make; commit and abandon do not
\* look at the state.
Transitions ==
  {<<s, "committed">> : s \in States} \cup {<<s, "abandoned">> : s \in States}
  \cup {<<"committed", "expired">>, <<"reversal_failed", "expired">>}
  \cup ({"committed", "reversal_failed"} \X {"reversed", "reversal_failed"})

\* ControlPlane._on_reversal_event: commit, abandon and expiry carry the journal
\* entry, the receipt of an executed undo does not.
IsJournaled(state) == state \notin {"reversed", "reversal_failed"}

\* An operation of the engine changes the entry in memory, then emits.
Transition(t, i, state) ==
  LET p == ProcessOf[t]
  IN /\ p \in running
     /\ thread[t].pc = "idle"
     /\ lock[p] = NoThread
     /\ <<live[p][i], state>> \in Transitions
     /\ lock' = [lock EXCEPT ![p] = t]
     /\ live' = [live EXCEPT ![p][i] = state]
     /\ Emit(t, [entry |-> i, state |-> state, journaled |-> IsJournaled(state)])
     /\ UNCHANGED <<tables, minted, memory, opened, running, returned, crashes>>

Unlock(t) ==
  lock' = [lock EXCEPT ![ProcessOf[t]] = IF @ = t THEN NoThread ELSE @]

-----------------------------------------------------------------------------
(* ControlPlane._append with a store.                                      *)

\* Ledger.prepare
NextRow(p, event) ==
  LET n == Len(memory[p])
  IN [seq |-> n + 1, hash |-> minted + 1,
      prev |-> IF n = 0 THEN Genesis ELSE memory[p][n].hash, event |-> event]

Prepare(t) ==
  /\ thread[t].pc = "emit"
  /\ minted < MaxRows
  /\ minted' = minted + 1
  /\ thread' = [thread EXCEPT ![t].pc = "prepared", ![t].row = NextRow(ProcessOf[t], thread[t].event)]
  /\ UNCHANGED <<tables, processes, returned, crashes>>

\* Fault: the insert replaces a row another writer stored.
Replaceable(row) == TRUE

\* seq is the primary key of the ledger table.
Insertable(row) == row.seq \notin DOMAIN ledger

Inserted(row) == [s \in DOMAIN ledger \cup {row.seq} |-> IF s = row.seq THEN row ELSE ledger[s]]

\* Fault: the journal row names the entry that will come next.
NextSeq(row) ==
  IF row.event.journaled
  THEN [stored EXCEPT ![row.event.entry] = [state |-> row.event.state, seq |-> row.seq + 1]]
  ELSE stored

\* SqliteStore._upsert_journal
Upserted(row) ==
  IF row.event.journaled
  THEN [stored EXCEPT ![row.event.entry] = [state |-> row.event.state, seq |-> row.seq]]
  ELSE stored

\* SqliteStore.append_ledger and record_reversal: one transaction.
Persist(t) ==
  LET row == thread[t].row
  IN /\ thread[t].pc = "prepared"
     /\ Insertable(row)
     /\ ledger' = Inserted(row)
     /\ stored' = Upserted(row)
     /\ thread' = [thread EXCEPT ![t].pc = "persisted"]
     /\ UNCHANGED <<minted, processes, returned, crashes>>

\* Fault: the entry is mirrored although the store refused it.
MirrorAnyway(t) ==
  /\ thread[t].pc = "prepared"
  /\ ~Insertable(thread[t].row) \/ DiskFails
  /\ memory' = [memory EXCEPT ![ProcessOf[t]] = Append(@, thread[t].row)]
  /\ thread' = [thread EXCEPT ![t] = Idle]
  /\ Unlock(t)
  /\ UNCHANGED <<tables, minted, live, opened, running, returned, crashes>>

\* StoreError: the seq is taken, or the disk refuses.  The exception ends the
\* operation; the transition in memory stands.  (An authority event's is swallowed.)
PersistFails(t) ==
  /\ thread[t].pc = "prepared"
  /\ ~Insertable(thread[t].row) \/ DiskFails
  /\ thread' = [thread EXCEPT ![t] = Idle]
  /\ Unlock(t)
  /\ UNCHANGED <<tables, minted, memory, live, opened, running, returned, crashes>>

\* Ledger.append_prebuilt, and the return to the caller.
Mirror(t) ==
  LET row == thread[t].row
  IN /\ thread[t].pc = "persisted"
     /\ memory' = [memory EXCEPT ![ProcessOf[t]] = Append(@, row)]
     /\ returned' = returned \cup {row.hash}
     /\ thread' = [thread EXCEPT ![t] = Idle]
     /\ Unlock(t)
     /\ UNCHANGED <<tables, minted, live, opened, running, crashes>>

-----------------------------------------------------------------------------
(* Crash and restart.                                                      *)

Crash(p) ==
  /\ p \in running
  /\ crashes < MaxCrashes
  /\ crashes' = crashes + 1
  /\ running' = running \ {p}
  /\ memory' = [memory EXCEPT ![p] = <<>>]
  /\ live' = [live EXCEPT ![p] = [i \in Ids |-> "none"]]
  /\ lock' = [lock EXCEPT ![p] = NoThread]
  /\ thread' = [t \in Threads |-> IF ProcessOf[t] = p THEN Idle ELSE thread[t]]
  /\ UNCHANGED <<tables, minted, opened, returned>>

\* SqliteStore.load_ledger: the rows by ascending seq.
NthSeq(n) == CHOOSE s \in DOMAIN ledger : Cardinality({x \in DOMAIN ledger : x <= s}) = n
Loaded == [n \in 1 .. Cardinality(DOMAIN ledger) |-> ledger[NthSeq(n)]]

\* ControlPlane.__init__ loads the ledger; the journal table is not read.
Restart(p) ==
  /\ p \notin running
  /\ running' = running \cup {p}
  /\ memory' = [memory EXCEPT ![p] = Loaded]
  /\ UNCHANGED <<tables, minted, live, opened, lock, thread, returned, crashes>>

LNext ==
  \/ \E t \in Threads :
       \/ PlainEvent(t)
       \/ \E i \in Ids : Open(t, i) \/ \E state \in States : Transition(t, i, state)
       \/ Prepare(t) \/ Persist(t) \/ PersistFails(t) \/ Mirror(t)
  \/ \E p \in Processes : Crash(p) \/ Restart(p)

LSpec == LInit /\ [][LNext]_lvars

-----------------------------------------------------------------------------
(* Properties.                                                             *)

Appends ==
  [pc : {"idle", "emit", "prepared", "persisted"}, event : Events, row : Rows]

LTypeOK ==
  /\ DOMAIN ledger \subseteq Nat
  /\ ledger \in [DOMAIN ledger -> Rows]
  /\ stored \in [Ids -> [state : States \cup {"none"}, seq : Nat]]
  /\ minted \in Nat
  /\ memory \in [Processes -> Seq(Rows)]
  /\ live \in [Processes -> [Ids -> States \cup {"none"}]]
  /\ opened \subseteq Ids
  /\ running \subseteq Processes
  /\ lock \in [Processes -> Threads \cup {NoThread}]
  /\ thread \in [Threads -> Appends]
  /\ returned \subseteq Nat
  /\ crashes \in Nat

\* Whatever threads, processes and crashes do, the rows on disk are an unbroken
\* chain: no gap, each row linked to the one before it (Ledger.verify_integrity
\* over what load_ledger returns).
ChainIntact ==
  /\ DOMAIN ledger = {} \/ \E n \in DOMAIN ledger : DOMAIN ledger = 1 .. n
  /\ \A s \in DOMAIN ledger :
       /\ ledger[s].seq = s
       /\ ledger[s].prev = IF s = 1 THEN Genesis ELSE ledger[s - 1].hash

\* The chain in memory never holds an entry that is not on disk at the same
\* place: a crash cannot leave a published head hash that nothing supports.
MemoryNeverAhead ==
  \A p \in Processes : \A n \in DOMAIN memory[p] :
    n \in DOMAIN ledger /\ ledger[n] = memory[p][n]

\* The types, the chain on disk and the chains in memory together.
ChainSound == LTypeOK /\ ChainIntact /\ MemoryNeverAhead

\* Each journal row names the ledger row that recorded it: the journal never
\* claims a state the ledger did not record.
JournalIsBacked ==
  \A i \in Ids :
    stored[i] # NotStored =>
      /\ stored[i].seq \in DOMAIN ledger
      /\ ledger[stored[i].seq].event = [entry |-> i, state |-> stored[i].state, journaled |-> TRUE]

\* The ledger table is the evidence log: it only grows, by one linked entry at a
\* time, whoever writes; and an append that returned to its caller survives every
\* later crash and every other writer.
Evidence == INSTANCE EvidenceLog WITH log <- ledger, acknowledged <- returned
ImplementsEvidenceLog == Evidence!ESpec

\* The inductive strengthening: a prepared entry follows a prefix of its process's
\* chain, and at most one thread of a process has stored an entry that the chain in
\* memory does not hold yet.
Follows(row, chain) ==
  /\ row.seq \in 1 .. (Len(chain) + 1)
  /\ row.prev = IF row.seq = 1 THEN Genesis ELSE chain[row.seq - 1].hash

AppendInv(x, up, chain) ==
  /\ x.pc # "idle" => up
  /\ x.pc = "prepared" => Follows(x.row, chain)
  /\ x.pc = "persisted" =>
       /\ x.row.seq = Len(chain) + 1
       /\ x.row.seq \in DOMAIN ledger
       /\ ledger[x.row.seq] = x.row

LedgerInv ==
  /\ LTypeOK
  /\ ChainIntact
  /\ MemoryNeverAhead
  /\ JournalIsBacked
  /\ \A h \in returned : \E s \in DOMAIN ledger : ledger[s].hash = h
  /\ \A t \in Threads :
       AppendInv(thread[t], ProcessOf[t] \in running, memory[ProcessOf[t]])
  /\ \A t, u \in Threads :
       ProcessOf[t] = ProcessOf[u] /\ thread[t].pc = "persisted" /\ thread[u].pc = "persisted"
         => t = u
=============================================================================
