------------------------ MODULE Records_proofs ------------------------
(***************************************************************************)
(* What the system writes down can be relied on.                           *)
(*                                                                         *)
(* The ledger: for any number of processes, threads, crashes and refused   *)
(* transactions the chain on disk is intact, the chain in memory is a      *)
(* prefix of it, and what is published of it - packs, checkpoints, Merkle  *)
(* roots, the startup report - holds it to it.                             *)
(*                                                                         *)
(* The enforcer: for any number of requests, disk failures and restarts    *)
(* its statistics account for one another and the two generations of its   *)
(* journal hold the end of what was written.                               *)
(*                                                                         *)
(* The transparency log: for trees of any size and proofs made of anything *)
(* the two verifiers accept what the log answers with, and nothing else    *)
(* that a claim about an entry or about an earlier head could be.          *)
(***************************************************************************)
EXTENDS EvidencePack, EnforcerAudit, FiniteSetTheorems, SequenceTheorems, WellFoundedInduction, TLAPS

LEMMA TypeIsFrame ==
  ASSUME LedgerInv, UNCHANGED <<tables, memory, running, thread, returned>>,
         minted' \in Nat, crashes' \in Nat, opened' \subseteq Ids,
         live' \in [Processes -> [Ids -> States \cup {"none"}]],
         lock' \in [Processes -> Threads \cup {NoThread}]
  PROVE  LedgerInv'
BY DEF LedgerInv, LTypeOK, ChainIntact, MemoryNeverAhead, JournalIsBacked, AppendInv, Follows, tables

\* The seqs on disk are an initial segment.
LEMMA Segment ==
  ASSUME ChainIntact, LTypeOK
  PROVE  \E n \in Nat : DOMAIN ledger = 1 .. n
<1>1. CASE DOMAIN ledger = {}
  <2>1. DOMAIN ledger = 1 .. 0
    BY <1>1
  <2>. QED BY <2>1
<1>2. CASE \E n \in DOMAIN ledger : DOMAIN ledger = 1 .. n
  BY <1>2 DEF LTypeOK
<1>. QED BY <1>1, <1>2 DEF ChainIntact

LEMMA IsSequence ==
  ASSUME NEW S, NEW n \in Nat, NEW f \in [1 .. n -> S]
  PROVE  f \in Seq(S) /\ Len(f) = n
<1>1. f \in Seq(S)
  BY SeqDef
<1>2. Len(f) \in Nat /\ 1 .. n = 1 .. Len(f)
  BY <1>1, LenProperties
<1>. QED BY <1>1, <1>2

LEMMA AppendType ==
  ASSUME NEW x \in Appends, NEW pc \in {"idle", "emit", "prepared", "persisted"}
  PROVE  /\ \A event \in Events : [x EXCEPT !.pc = pc, !.event = event] \in Appends
         /\ \A row \in Rows : [x EXCEPT !.pc = pc, !.row = row] \in Appends
         /\ [x EXCEPT !.pc = pc] \in Appends
BY DEF Appends

LEMMA IdleIsAppend == Plain \in Events /\ Idle \in Appends
BY DEF Idle, Rows, NotPrepared, Events, Appends

\* What one thread's step must establish when the tables and the chains rest.
LEMMA ThreadMoves ==
  ASSUME LedgerInv, NEW t \in Threads, NEW x \in Appends,
         thread' = [thread EXCEPT ![t] = x],
         AppendInv(x, ProcessOf[t] \in running, memory[ProcessOf[t]]),
         x.pc # "persisted",
         UNCHANGED <<tables, memory, running, returned, crashes>>,
         minted' \in Nat, opened' \subseteq Ids,
         live' \in [Processes -> [Ids -> States \cup {"none"}]],
         lock' \in [Processes -> Threads \cup {NoThread}]
  PROVE  LedgerInv'
<1>1. LTypeOK'
  BY DEF LedgerInv, LTypeOK, tables
<1>2. ChainIntact' /\ MemoryNeverAhead' /\ JournalIsBacked'
      /\ (\A h \in returned : \E s \in DOMAIN ledger : ledger[s].hash = h)'
  BY DEF LedgerInv, ChainIntact, MemoryNeverAhead, JournalIsBacked, tables
<1>3. \A u \in Threads : thread'[u] = IF u = t THEN x ELSE thread[u]
  BY DEF LedgerInv, LTypeOK
<1>4. ASSUME NEW u \in Threads
      PROVE  AppendInv(thread[u], ProcessOf[u] \in running, memory[ProcessOf[u]])'
  <2>1. AppendInv(thread[u], ProcessOf[u] \in running, memory[ProcessOf[u]])
    BY DEF LedgerInv
  <2>2. CASE u = t
    BY <2>2, <1>3 DEF AppendInv, Follows, tables
  <2>3. CASE u # t
    BY <2>1, <2>3, <1>3 DEF AppendInv, Follows, tables
  <2>. QED BY <2>2, <2>3
<1>5. (\A u, v \in Threads :
         ProcessOf[u] = ProcessOf[v] /\ thread[u].pc = "persisted" /\ thread[v].pc = "persisted"
           => u = v)'
  BY <1>3 DEF LedgerInv
<1>. QED BY <1>1, <1>2, <1>4, <1>5 DEF LedgerInv

LEMMA UnlockType ==
  ASSUME LedgerInv, NEW t \in Threads, Unlock(t)
  PROVE  lock' \in [Processes -> Threads \cup {NoThread}]
BY DEF LedgerInv, LTypeOK, Unlock

-----------------------------------------------------------------------------
\* A thread that starts to emit an event has prepared nothing yet.
LEMMA EmitMoves ==
  ASSUME LedgerInv, NEW t \in Threads, NEW event \in Events, Emit(t, event),
         ProcessOf[t] \in running,
         UNCHANGED <<tables, memory, running, returned, crashes, minted, opened>>,
         live' \in [Processes -> [Ids -> States \cup {"none"}]],
         lock' \in [Processes -> Threads \cup {NoThread}]
  PROVE  LedgerInv'
<1>. DEFINE x == [thread[t] EXCEPT !.pc = "emit", !.event = event]
<1>1. thread[t] \in Appends
  BY DEF LedgerInv, LTypeOK
<1>2. x \in Appends
  BY <1>1, AppendType
<1>3. x.pc = "emit"
  BY <1>1 DEF Appends
<1>4. thread' = [thread EXCEPT ![t] = x]
  BY DEF Emit
<1>. HIDE DEF x
<1>5. AppendInv(x, ProcessOf[t] \in running, memory[ProcessOf[t]])
  BY <1>3 DEF AppendInv
<1>. QED BY <1>2, <1>3, <1>4, <1>5, ThreadMoves DEF LedgerInv, LTypeOK

LEMMA EmitLemma ==
  ASSUME LedgerInv, NEW t \in Threads,
         \/ PlainEvent(t)
         \/ \E i \in Ids, state \in States : Transition(t, i, state)
  PROVE  LedgerInv'
<1>1. CASE PlainEvent(t)
  BY <1>1, EmitMoves, IdleIsAppend DEF PlainEvent, processes, LedgerInv, LTypeOK
<1>2. ASSUME NEW i \in Ids, NEW state \in States, Transition(t, i, state)
      PROVE  LedgerInv'
  <2>1. [entry |-> i, state |-> state, journaled |-> IsJournaled(state)] \in Events
    BY DEF Events, IsJournaled
  <2>2. /\ live' \in [Processes -> [Ids -> States \cup {"none"}]]
        /\ lock' \in [Processes -> Threads \cup {NoThread}]
    BY <1>2 DEF Transition, LedgerInv, LTypeOK
  <2>. QED BY <1>2, <2>1, <2>2, EmitMoves DEF Transition
<1>. QED BY <1>1, <1>2

LEMMA OpenLemma ==
  ASSUME LedgerInv, NEW t \in Threads, NEW i \in Ids, Open(t, i)
  PROVE  LedgerInv'
<1>1. live' \in [Processes -> [Ids -> States \cup {"none"}]]
  BY DEF Open, LedgerInv, LTypeOK, States
<1>. QED BY <1>1, TypeIsFrame DEF Open, LedgerInv, LTypeOK

LEMMA PersistFailsLemma ==
  ASSUME LedgerInv, NEW t \in Threads, PersistFails(t)
  PROVE  LedgerInv'
<1>1. AppendInv(Idle, ProcessOf[t] \in running, memory[ProcessOf[t]]) /\ Idle.pc # "persisted"
  BY DEF AppendInv, Idle
<1>. QED BY <1>1, ThreadMoves, IdleIsAppend, UnlockType DEF PersistFails, LedgerInv, LTypeOK

LEMMA PrepareLemma ==
  ASSUME LedgerInv, NEW t \in Threads, Prepare(t)
  PROVE  LedgerInv'
<1>. DEFINE p == ProcessOf[t]
            row == NextRow(p, thread[t].event)
            x == [thread[t] EXCEPT !.pc = "prepared", !.row = row]
<1>1. thread[t] \in Appends /\ thread[t].event \in Events /\ thread[t].pc = "emit"
  BY DEF LedgerInv, LTypeOK, Prepare, Appends
<1>2. row \in Rows /\ Follows(row, memory[p])
  <2>1. memory[p] \in Seq(Rows) /\ minted \in Nat
    BY LedgerAssumption DEF LedgerInv, LTypeOK
  <2>2. CASE Len(memory[p]) = 0
    BY <1>1, <2>1, <2>2 DEF NextRow, Follows, Rows, Genesis
  <2>3. CASE Len(memory[p]) # 0
    <3>1. memory[p][Len(memory[p])] \in Rows
      BY <2>1, <2>3
    <3>. QED BY <1>1, <2>1, <2>3, <3>1 DEF NextRow, Follows, Rows
  <2>. QED BY <2>2, <2>3
<1>3. thread' = [thread EXCEPT ![t] = x]
  BY DEF Prepare
<1>. HIDE DEF row
<1>4. x \in Appends
  BY <1>1, <1>2, AppendType
<1>5. x.pc = "prepared" /\ x.row = row
  BY <1>1 DEF Appends
<1>6. ProcessOf[t] \in running
  BY <1>1 DEF LedgerInv, AppendInv
<1>. HIDE DEF x
<1>7. AppendInv(x, ProcessOf[t] \in running, memory[ProcessOf[t]])
  BY <1>2, <1>5, <1>6 DEF AppendInv
<1>8. /\ UNCHANGED <<tables, memory, running, returned, crashes>>
      /\ minted' \in Nat /\ opened' \subseteq Ids
      /\ live' \in [Processes -> [Ids -> States \cup {"none"}]]
      /\ lock' \in [Processes -> Threads \cup {NoThread}]
  BY DEF Prepare, processes, LedgerInv, LTypeOK
<1>9. x.pc # "persisted"
  BY <1>5
<1>. QED BY <1>3, <1>4, <1>7, <1>8, <1>9, ThreadMoves

-----------------------------------------------------------------------------
\* Ledger rows and chain when a thread stores its entry.
LEMMA PersistLemma ==
  ASSUME LedgerInv, NEW t \in Threads, Persist(t)
  PROVE  LedgerInv' /\ Evidence!Record
<1>. DEFINE p == ProcessOf[t]
            row == thread[t].row
            chain == memory[p]
            x == [thread[t] EXCEPT !.pc = "persisted"]
<1>1. thread[t] \in Appends /\ thread[t].pc = "prepared" /\ row \in Rows
  BY DEF LedgerInv, LTypeOK, Persist, Appends
<1>2. PICK n \in Nat : DOMAIN ledger = 1 .. n
  BY Segment DEF LedgerInv
<1>3. p \in Processes /\ chain \in Seq(Rows) /\ Len(chain) \in Nat
  BY LedgerAssumption DEF LedgerInv, LTypeOK
<1>4. Len(chain) <= n
  <2>1. CASE Len(chain) = 0
    BY <2>1, <1>2
  <2>2. CASE Len(chain) # 0
    <3>1. Len(chain) \in DOMAIN memory[p]
      BY <2>2, <1>3
    <3>. QED BY <3>1, <1>2, <1>3 DEF LedgerInv, MemoryNeverAhead
  <2>. QED BY <2>1, <2>2
<1>5. Follows(row, chain)
  BY <1>1 DEF LedgerInv, AppendInv
\* the seq is free, so the chain in memory is the chain on disk
<1>6. row.seq = n + 1 /\ Len(chain) = n
  <2>1. row.seq \in 1 .. (Len(chain) + 1) /\ row.seq \notin 1 .. n
    BY <1>2, <1>5 DEF Persist, Insertable, Follows
  <2>. QED BY <2>1, <1>3, <1>4
<1>7. /\ DOMAIN ledger' = 1 .. (n + 1)
      /\ \A s \in 1 .. n : ledger'[s] = ledger[s]
      /\ ledger'[n + 1] = row
      /\ ledger' \in [1 .. (n + 1) -> Rows]
  BY <1>1, <1>2, <1>6 DEF Persist, Inserted, LedgerInv, LTypeOK
<1>8. row.prev = IF n + 1 = 1 THEN Genesis ELSE ledger[n].hash
  <2>1. CASE n = 0
    BY <2>1, <1>5, <1>6 DEF Follows
  <2>2. CASE n # 0
    <3>1. n \in DOMAIN memory[p]
      BY <2>2, <1>3, <1>6
    <3>2. ledger[n] = chain[n]
      BY <3>1, <1>3 DEF LedgerInv, MemoryNeverAhead
    <3>. QED BY <2>2, <3>2, <1>5, <1>6 DEF Follows
  <2>. QED BY <2>1, <2>2
<1>9. /\ thread' = [thread EXCEPT ![t] = x]
      /\ stored' = Upserted(row)
      /\ UNCHANGED <<minted, memory, live, opened, running, lock, returned, crashes>>
  BY DEF Persist, processes
<1>10. x \in Appends /\ x.pc = "persisted" /\ x.row = row
  <2>1. x \in Appends
    BY <1>1, AppendType
  <2>2. x.pc = "persisted" /\ x.row = row
    BY <1>1 DEF Appends
  <2>. QED BY <2>1, <2>2
<1>11. \A u \in Threads : thread'[u] = IF u = t THEN x ELSE thread[u]
  BY <1>9 DEF LedgerInv, LTypeOK
<1>12. LTypeOK'
  <2>1. stored' \in [Ids -> [state : States \cup {"none"}, seq : Nat]]
    <3>1. row.event \in Events /\ row.seq \in Nat
      BY <1>1 DEF Rows
    <3>2. CASE row.event.journaled
      <4>1. row.event.entry \in Ids /\ row.event.state \in States
        BY <3>1, <3>2 DEF Events, Plain
      <4>. QED BY <3>1, <3>2, <4>1, <1>9 DEF Upserted, LedgerInv, LTypeOK
    <3>3. CASE ~row.event.journaled
      BY <3>3, <1>9 DEF Upserted, LedgerInv, LTypeOK
    <3>. QED BY <3>2, <3>3
  <2>2. thread' \in [Threads -> Appends]
    BY <1>9, <1>10 DEF LedgerInv, LTypeOK
  <2>3. DOMAIN ledger' \subseteq Nat /\ ledger' \in [DOMAIN ledger' -> Rows]
    BY <1>7
  <2>. QED BY <2>1, <2>2, <2>3, <1>9 DEF LedgerInv, LTypeOK
<1>13. ChainIntact'
  <2>1. n + 1 \in DOMAIN ledger' /\ DOMAIN ledger' = 1 .. (n + 1)
    BY <1>7
  <2>2. ASSUME NEW s \in 1 .. (n + 1)
        PROVE  ledger'[s].seq = s /\ ledger'[s].prev = IF s = 1 THEN Genesis ELSE ledger'[s - 1].hash
    <3>1. CASE s = n + 1
      <4>1. n # 0 => n \in 1 .. n
        OBVIOUS
      <4>. QED BY <3>1, <4>1, <1>6, <1>7, <1>8
    <3>2. CASE s # n + 1
      <4>1. s \in 1 .. n /\ (s # 1 => s - 1 \in 1 .. n)
        BY <3>2
      <4>. QED BY <4>1, <1>2, <1>7 DEF LedgerInv, ChainIntact
    <3>. QED BY <3>1, <3>2
  <2>. QED BY <2>1, <2>2 DEF ChainIntact
<1>14. MemoryNeverAhead'
  BY <1>2, <1>7, <1>9 DEF LedgerInv, MemoryNeverAhead
<1>15. JournalIsBacked'
  <2>. SUFFICES ASSUME NEW i \in Ids, stored'[i] # NotStored
                PROVE  /\ stored'[i].seq \in DOMAIN ledger'
                       /\ ledger'[stored'[i].seq].event =
                            [entry |-> i, state |-> stored'[i].state, journaled |-> TRUE]
    BY DEF JournalIsBacked, NotStored
  <2>1. CASE row.event.journaled /\ row.event.entry = i
    <3>1. stored'[i] = [state |-> row.event.state, seq |-> row.seq]
      BY <2>1, <1>9 DEF Upserted, LedgerInv, LTypeOK
    <3>2. row.event = [entry |-> i, state |-> row.event.state, journaled |-> TRUE]
      BY <2>1, <1>1 DEF Rows, Events, Plain
    <3>. QED BY <3>1, <3>2, <1>6, <1>7
  <2>2. CASE ~(row.event.journaled /\ row.event.entry = i)
    <3>1. stored'[i] = stored[i]
      BY <2>2, <1>9 DEF Upserted, LedgerInv, LTypeOK
    <3>. QED BY <3>1, <1>2, <1>7 DEF LedgerInv, JournalIsBacked, NotStored
  <2>. QED BY <2>1, <2>2
<1>16. \A h \in returned' : \E s \in DOMAIN ledger' : ledger'[s].hash = h
  BY <1>2, <1>7, <1>9 DEF LedgerInv
<1>17. \A u \in Threads : u # t /\ ProcessOf[u] = p => thread[u].pc # "persisted"
  BY <1>2, <1>6 DEF LedgerInv, AppendInv
<1>. HIDE DEF x, row, chain
<1>18. ASSUME NEW u \in Threads
       PROVE  AppendInv(thread[u], ProcessOf[u] \in running, memory[ProcessOf[u]])'
  <2>1. AppendInv(thread[u], ProcessOf[u] \in running, memory[ProcessOf[u]])
    BY DEF LedgerInv
  <2>2. CASE u = t
    BY <2>1, <2>2, <1>1, <1>6, <1>7, <1>9, <1>10, <1>11 DEF AppendInv, chain
  <2>3. CASE u # t
    <3>1. thread'[u] = thread[u]
      BY <2>3, <1>11
    <3>2. \A s \in DOMAIN ledger : s \in DOMAIN ledger' /\ ledger'[s] = ledger[s]
      BY <1>2, <1>7
    <3>. QED BY <2>1, <3>1, <3>2, <1>9 DEF AppendInv, Follows
  <2>. QED BY <2>2, <2>3
<1>19. (\A u, v \in Threads :
          ProcessOf[u] = ProcessOf[v] /\ thread[u].pc = "persisted" /\ thread[v].pc = "persisted"
            => u = v)'
  BY <1>11, <1>17 DEF LedgerInv
<1>20. Evidence!Record
  <2>1. ledger \in Seq(Rows) /\ Len(ledger) = n /\ ledger' \in Seq(Rows) /\ Len(ledger') = n + 1
    <3>1. ledger \in [1 .. n -> Rows]
      BY <1>2 DEF LedgerInv, LTypeOK
    <3>. QED BY <3>1, <1>7, IsSequence
  <2>2. ledger'[n + 1].seq = n + 1
        /\ ledger'[n + 1].prev = IF n + 1 = 1 THEN 0 ELSE ledger'[n].hash
    <3>1. n # 0 => n \in 1 .. n
      OBVIOUS
    <3>. QED BY <3>1, <1>6, <1>7, <1>8 DEF Genesis
  <2>3. (n + 1) - 1 = n
    OBVIOUS
  <2>. QED BY <2>1, <2>2, <2>3, <1>7, <1>9 DEF Evidence!Record, Evidence!Linked
<1>. QED BY <1>12, <1>13, <1>14, <1>15, <1>16, <1>18, <1>19, <1>20 DEF LedgerInv

-----------------------------------------------------------------------------
\* Once an entry is stored, its thread is the only one that may extend the chain.
LEMMA MirrorLemma ==
  ASSUME LedgerInv, NEW t \in Threads, Mirror(t)
  PROVE  LedgerInv' /\ Evidence!Acknowledge
<1>. DEFINE p == ProcessOf[t]
            row == thread[t].row
            chain == memory[p]
<1>1. thread[t] \in Appends /\ thread[t].pc = "persisted" /\ row \in Rows
  BY DEF LedgerInv, LTypeOK, Mirror, Appends
<1>2. p \in Processes /\ chain \in Seq(Rows) /\ Len(chain) \in Nat
  BY LedgerAssumption DEF LedgerInv, LTypeOK
<1>3. row.seq = Len(chain) + 1 /\ row.seq \in DOMAIN ledger /\ ledger[row.seq] = row
  BY <1>1 DEF LedgerInv, AppendInv
<1>4. /\ memory' = [memory EXCEPT ![p] = Append(chain, row)]
      /\ returned' = returned \cup {row.hash}
      /\ thread' = [thread EXCEPT ![t] = Idle]
      /\ lock' \in [Processes -> Threads \cup {NoThread}]
      /\ UNCHANGED <<ledger, stored, minted, live, opened, running, crashes>>
  BY UnlockType DEF Mirror, tables
<1>5. /\ Append(chain, row) \in Seq(Rows)
      /\ Len(Append(chain, row)) = Len(chain) + 1
      /\ \A k \in 1 .. Len(chain) : Append(chain, row)[k] = chain[k]
      /\ Append(chain, row)[Len(chain) + 1] = row
  BY <1>1, <1>2
<1>6. \A u \in Threads : thread'[u] = IF u = t THEN Idle ELSE thread[u]
  BY <1>4 DEF LedgerInv, LTypeOK
<1>7. LTypeOK'
  BY <1>1, <1>4, <1>5, IdleIsAppend DEF LedgerInv, LTypeOK, Rows
<1>8. ChainIntact' /\ JournalIsBacked'
  BY <1>4 DEF LedgerInv, ChainIntact, JournalIsBacked
<1>. HIDE DEF row, chain
<1>9. MemoryNeverAhead'
  <2>. SUFFICES ASSUME NEW q \in Processes, NEW k \in DOMAIN memory'[q]
                PROVE  k \in DOMAIN ledger /\ ledger[k] = memory'[q][k]
    BY <1>4 DEF MemoryNeverAhead
  <2>1. CASE q # p
    <3>1. memory'[q] = memory[q]
      BY <2>1, <1>4 DEF LedgerInv, LTypeOK
    <3>. QED BY <3>1 DEF LedgerInv, MemoryNeverAhead
  <2>2. CASE q = p
    <3>1. memory'[q] = Append(chain, row)
      BY <2>2, <1>2, <1>4 DEF LedgerInv, LTypeOK
    <3>2. DOMAIN memory'[q] = 1 .. (Len(chain) + 1)
      BY <3>1, <1>5, LenProperties
    <3>3. CASE k = Len(chain) + 1
      BY <3>1, <3>3, <1>3, <1>5
    <3>4. CASE k # Len(chain) + 1
      <4>1. k \in 1 .. Len(chain) /\ k \in DOMAIN memory[p]
        BY <3>2, <3>4, <1>2, LenProperties DEF chain
      <4>2. k \in DOMAIN ledger /\ ledger[k] = memory[p][k]
        BY <4>1, <1>2 DEF LedgerInv, MemoryNeverAhead
      <4>. QED BY <3>1, <4>1, <4>2, <1>5 DEF chain
    <3>. QED BY <3>3, <3>4
  <2>. QED BY <2>1, <2>2
<1>10. \A h \in returned' : \E s \in DOMAIN ledger' : ledger'[s].hash = h
  BY <1>3, <1>4 DEF LedgerInv
<1>11. ASSUME NEW u \in Threads
       PROVE  AppendInv(thread[u], ProcessOf[u] \in running, memory[ProcessOf[u]])'
  <2>1. AppendInv(thread[u], ProcessOf[u] \in running, memory[ProcessOf[u]])
    BY DEF LedgerInv
  <2>2. CASE u = t
    BY <2>2, <1>6 DEF AppendInv, Idle
  <2>3. CASE u # t /\ ProcessOf[u] # p
    <3>1. thread'[u] = thread[u] /\ memory'[ProcessOf[u]] = memory[ProcessOf[u]]
      BY <2>3, <1>4, <1>6, LedgerAssumption DEF LedgerInv, LTypeOK
    <3>. QED BY <2>1, <3>1, <1>4 DEF AppendInv, Follows
  <2>4. CASE u # t /\ ProcessOf[u] = p
    <3>1. thread'[u] = thread[u] /\ memory'[ProcessOf[u]] = Append(chain, row)
      BY <2>4, <1>2, <1>4, <1>6 DEF LedgerInv, LTypeOK
    <3>2. thread[u].pc # "persisted"
      BY <2>4, <1>1 DEF LedgerInv
    <3>3. ASSUME Follows(thread[u].row, chain)
          PROVE  Follows(thread[u].row, Append(chain, row))
      <4>1. thread[u].row.seq \in 1 .. (Len(chain) + 1)
        BY <3>3 DEF Follows
      <4>2. thread[u].row.seq # 1 => thread[u].row.seq - 1 \in 1 .. Len(chain)
        BY <4>1, <1>2
      <4>. QED BY <3>3, <4>1, <4>2, <1>2, <1>5 DEF Follows
    <3>. QED BY <2>1, <2>4, <3>1, <3>2, <3>3, <1>4 DEF AppendInv, chain
  <2>. QED BY <2>2, <2>3, <2>4
<1>12. (\A u, v \in Threads :
          ProcessOf[u] = ProcessOf[v] /\ thread[u].pc = "persisted" /\ thread[v].pc = "persisted"
            => u = v)'
  BY <1>6 DEF LedgerInv, Idle
<1>13. Evidence!Acknowledge
  <2>1. PICK n \in Nat : DOMAIN ledger = 1 .. n
    BY Segment DEF LedgerInv
  <2>2. Len(ledger) = n
    <3>1. ledger \in [1 .. n -> Rows]
      BY <2>1 DEF LedgerInv, LTypeOK
    <3>. QED BY <3>1, IsSequence
  <2>. QED BY <2>1, <2>2, <1>3, <1>4 DEF Evidence!Acknowledge
<1>. QED BY <1>7, <1>8, <1>9, <1>10, <1>11, <1>12, <1>13 DEF LedgerInv

LEMMA CrashLemma ==
  ASSUME LedgerInv, NEW p \in Processes, Crash(p)
  PROVE  LedgerInv'
<1>1. /\ running' = running \ {p}
      /\ memory' = [memory EXCEPT ![p] = <<>>]
      /\ thread' = [t \in Threads |-> IF ProcessOf[t] = p THEN Idle ELSE thread[t]]
      /\ UNCHANGED <<ledger, stored, minted, opened, returned>>
  BY DEF Crash, tables
<1>2. LTypeOK'
  BY IdleIsAppend DEF Crash, tables, LedgerInv, LTypeOK
<1>3. ChainIntact' /\ JournalIsBacked'
      /\ (\A h \in returned : \E s \in DOMAIN ledger : ledger[s].hash = h)'
  BY <1>1 DEF LedgerInv, ChainIntact, JournalIsBacked
<1>4. MemoryNeverAhead'
  <2>1. \A q \in Processes : memory'[q] = IF q = p THEN <<>> ELSE memory[q]
    BY <1>1 DEF LedgerInv, LTypeOK
  <2>. QED BY <2>1, <1>1 DEF LedgerInv, MemoryNeverAhead
<1>5. ASSUME NEW u \in Threads
      PROVE  AppendInv(thread[u], ProcessOf[u] \in running, memory[ProcessOf[u]])'
  <2>1. CASE ProcessOf[u] = p
    BY <2>1, <1>1 DEF AppendInv, Idle
  <2>2. CASE ProcessOf[u] # p
    <3>1. thread'[u] = thread[u] /\ memory'[ProcessOf[u]] = memory[ProcessOf[u]]
      BY <2>2, <1>1, LedgerAssumption DEF LedgerInv, LTypeOK
    <3>2. AppendInv(thread[u], ProcessOf[u] \in running, memory[ProcessOf[u]])
      BY DEF LedgerInv
    <3>. QED BY <2>2, <3>1, <3>2, <1>1 DEF AppendInv, Follows
  <2>. QED BY <2>1, <2>2
<1>6. (\A u, v \in Threads :
         ProcessOf[u] = ProcessOf[v] /\ thread[u].pc = "persisted" /\ thread[v].pc = "persisted"
           => u = v)'
  BY <1>1 DEF LedgerInv, Idle
<1>. QED BY <1>2, <1>3, <1>4, <1>5, <1>6 DEF LedgerInv

\* Reading an initial segment by ascending seq gives back the table.
LEMMA LoadedIsLedger ==
  ASSUME LedgerInv
  PROVE  Loaded = ledger /\ Loaded \in Seq(Rows)
<1>1. PICK n \in Nat : DOMAIN ledger = 1 .. n
  BY Segment DEF LedgerInv
<1>2. ledger \in [1 .. n -> Rows]
  BY <1>1 DEF LedgerInv, LTypeOK
<1>3. \A s \in 1 .. n : Cardinality({x \in 1 .. n : x <= s}) = s
  <2>. SUFFICES ASSUME NEW s \in 1 .. n
                PROVE  Cardinality({x \in 1 .. n : x <= s}) = s
    OBVIOUS
  <2>1. {x \in 1 .. n : x <= s} = 1 .. s
    OBVIOUS
  <2>2. Cardinality(1 .. s) = s
    BY FS_Interval
  <2>. QED BY <2>1, <2>2
<1>4. Cardinality(DOMAIN ledger) = n
  BY <1>1, FS_Interval
<1>5. \A k \in 1 .. n : NthSeq(k) = k
  <2>. SUFFICES ASSUME NEW k \in 1 .. n PROVE NthSeq(k) = k
    OBVIOUS
  <2>1. k \in DOMAIN ledger /\ Cardinality({x \in DOMAIN ledger : x <= k}) = k
    BY <1>1, <1>3
  <2>2. \A s \in DOMAIN ledger : Cardinality({x \in DOMAIN ledger : x <= s}) = k => s = k
    BY <1>1, <1>3
  <2>. QED BY <2>1, <2>2 DEF NthSeq
<1>6. Loaded = [k \in 1 .. n |-> ledger[k]]
  BY <1>4, <1>5 DEF Loaded
<1>7. Loaded = ledger
  BY <1>2, <1>6
<1>. QED BY <1>2, <1>7, IsSequence

LEMMA RestartLemma ==
  ASSUME LedgerInv, NEW p \in Processes, Restart(p)
  PROVE  LedgerInv'
<1>1. /\ p \notin running
      /\ running' = running \cup {p}
      /\ memory' = [memory EXCEPT ![p] = Loaded]
      /\ UNCHANGED <<ledger, stored, minted, live, opened, lock, thread, returned, crashes>>
  BY DEF Restart, tables
<1>2. LTypeOK'
  BY <1>1, LoadedIsLedger DEF LedgerInv, LTypeOK
<1>3. ChainIntact' /\ JournalIsBacked'
      /\ (\A h \in returned : \E s \in DOMAIN ledger : ledger[s].hash = h)'
  BY <1>1 DEF LedgerInv, ChainIntact, JournalIsBacked
<1>4. MemoryNeverAhead'
  <2>1. \A q \in Processes : memory'[q] = IF q = p THEN ledger ELSE memory[q]
    BY <1>1, LoadedIsLedger DEF LedgerInv, LTypeOK
  <2>. QED BY <2>1, <1>1 DEF LedgerInv, MemoryNeverAhead
<1>5. ASSUME NEW u \in Threads
      PROVE  AppendInv(thread[u], ProcessOf[u] \in running, memory[ProcessOf[u]])'
  <2>1. AppendInv(thread[u], ProcessOf[u] \in running, memory[ProcessOf[u]])
    BY DEF LedgerInv
  <2>2. CASE ProcessOf[u] = p
    BY <2>1, <2>2, <1>1 DEF AppendInv
  <2>3. CASE ProcessOf[u] # p
    <3>1. memory'[ProcessOf[u]] = memory[ProcessOf[u]]
      BY <2>3, <1>1, LedgerAssumption DEF LedgerInv, LTypeOK
    <3>. QED BY <2>1, <2>3, <3>1, <1>1 DEF AppendInv, Follows
  <2>. QED BY <2>2, <2>3
<1>6. (\A u, v \in Threads :
         ProcessOf[u] = ProcessOf[v] /\ thread[u].pc = "persisted" /\ thread[v].pc = "persisted"
           => u = v)'
  BY <1>1 DEF LedgerInv
<1>. QED BY <1>2, <1>3, <1>4, <1>5, <1>6 DEF LedgerInv

-----------------------------------------------------------------------------
LEMMA InitLemma == LInit => LedgerInv
<1>. SUFFICES ASSUME LInit PROVE LedgerInv
  OBVIOUS
<1>1. LTypeOK
  BY IdleIsAppend DEF LInit, LTypeOK, NotStored
<1>2. ChainIntact /\ MemoryNeverAhead /\ JournalIsBacked
  BY DEF LInit, ChainIntact, MemoryNeverAhead, JournalIsBacked
<1>3. \A t \in Threads : thread[t] = Idle
  BY DEF LInit
<1>4. Idle.pc = "idle"
  BY DEF Idle
<1>. QED BY <1>1, <1>2, <1>3, <1>4 DEF LedgerInv, LInit, AppendInv

\* Every step keeps the invariant, and adds at most one entry to the evidence.
LEMMA StepLemma ==
  ASSUME LedgerInv, [LNext]_lvars
  PROVE  LedgerInv' /\ (Evidence!Record \/ Evidence!Acknowledge \/ UNCHANGED <<ledger, returned>>)
<1>1. ASSUME NEW t \in Threads, PlainEvent(t)
      PROVE  LedgerInv' /\ UNCHANGED <<ledger, returned>>
  BY <1>1, EmitLemma DEF PlainEvent, tables
<1>2. ASSUME NEW t \in Threads, NEW i \in Ids, Open(t, i)
      PROVE  LedgerInv' /\ UNCHANGED <<ledger, returned>>
  BY <1>2, OpenLemma DEF Open, tables
<1>3. ASSUME NEW t \in Threads, NEW i \in Ids, NEW state \in States, Transition(t, i, state)
      PROVE  LedgerInv' /\ UNCHANGED <<ledger, returned>>
  BY <1>3, EmitLemma DEF Transition, tables
<1>4. ASSUME NEW t \in Threads, Prepare(t)
      PROVE  LedgerInv' /\ UNCHANGED <<ledger, returned>>
  BY <1>4, PrepareLemma DEF Prepare, tables
<1>5. ASSUME NEW t \in Threads, PersistFails(t)
      PROVE  LedgerInv' /\ UNCHANGED <<ledger, returned>>
  BY <1>5, PersistFailsLemma DEF PersistFails, tables
<1>6. ASSUME NEW p \in Processes, Crash(p)
      PROVE  LedgerInv' /\ UNCHANGED <<ledger, returned>>
  BY <1>6, CrashLemma DEF Crash, tables
<1>7. ASSUME NEW p \in Processes, Restart(p)
      PROVE  LedgerInv' /\ UNCHANGED <<ledger, returned>>
  BY <1>7, RestartLemma DEF Restart, tables
<1>8. CASE UNCHANGED lvars
  <2>1. UNCHANGED <<tables, memory, running, thread, returned, minted, crashes, opened, live, lock>>
    BY <1>8 DEF lvars, processes
  <2>. QED BY <2>1, TypeIsFrame DEF LedgerInv, LTypeOK, tables
<1>. QED BY <1>1, <1>2, <1>3, <1>4, <1>5, <1>6, <1>7, <1>8, PersistLemma, MirrorLemma DEF LNext

\* The inductive invariant of the store and its writers.
THEOREM LedgerInvariant == LSpec => []LedgerInv
<1>. QED BY InitLemma, StepLemma, PTL DEF LSpec

\* Threads that race, processes that share the file, crashes and refused transactions
\* leave an unbroken chain on disk, and what a process holds in memory is a prefix of
\* it (SqliteStore.append_ledger, ControlPlane._append).
THEOREM ChainStaysSound == LSpec => []ChainSound
<1>1. LedgerInv => ChainSound
  BY DEF LedgerInv, ChainSound
<1>. QED BY <1>1, LedgerInvariant, PTL

\* The journal table claims no state the ledger did not record in the same
\* transaction (SqliteStore.record_reversal).
THEOREM JournalStaysBacked == LSpec => []JournalIsBacked
<1>1. LedgerInv => JournalIsBacked
  BY DEF LedgerInv
<1>. QED BY <1>1, LedgerInvariant, PTL

\* The store and its writers implement the abstract evidence log.
THEOREM LedgerImplementsLog == LSpec => ImplementsEvidenceLog
<1>1. LInit => Evidence!EInit
  <2>. SUFFICES ASSUME LInit PROVE ledger = <<>> /\ returned = {}
    BY DEF Evidence!EInit
  <2>1. ledger \in [1 .. 0 -> Rows]
    BY DEF LInit
  <2>2. ledger \in Seq(Rows) /\ Len(ledger) = 0
    BY <2>1, IsSequence
  <2>. QED BY <2>2, EmptySeq DEF LInit
<1>2. LedgerInv /\ [LNext]_lvars =>
        [Evidence!Record \/ Evidence!Acknowledge]_<<ledger, returned>>
  BY StepLemma
<1>. QED BY <1>1, <1>2, LedgerInvariant, PTL DEF LSpec, ImplementsEvidenceLog, Evidence!ESpec

-----------------------------------------------------------------------------
(* What the published evidence rests on: hashes name rows, and the journal  *)
(* table shows the latest row of each entry.                                *)

LEMMA EvidenceFrame ==
  ASSUME EvidenceInv, UNCHANGED <<ledger, stored>>, minted' = minted,
         \A t \in Threads : thread'[t].pc = "prepared" => thread'[t] = thread[t]
  PROVE  HashesAreMinted' /\ JournalIsLatest'
<1>1. HashesAreMinted'
  BY DEF EvidenceInv, HashesAreMinted
<1>2. JournalIsLatest'
  BY DEF EvidenceInv, JournalIsLatest
<1>. QED BY <1>1, <1>2

\* A step that leaves thread t unprepared and the others alone.
LEMMA OthersRest ==
  ASSUME LedgerInv, NEW t \in Threads, NEW x, x.pc # "prepared", thread' = [thread EXCEPT ![t] = x]
  PROVE  \A u \in Threads : thread'[u].pc = "prepared" => thread'[u] = thread[u]
BY DEF LedgerInv, LTypeOK

LEMMA PrepareMints ==
  ASSUME EvidenceInv, NEW t \in Threads, Prepare(t)
  PROVE  HashesAreMinted' /\ JournalIsLatest'
<1>. DEFINE x == [thread[t] EXCEPT !.pc = "prepared", !.row = NextRow(ProcessOf[t], thread[t].event)]
<1>1. thread[t] \in Appends /\ minted \in Nat
  BY DEF EvidenceInv, LedgerInv, LTypeOK
<1>2. thread' = [thread EXCEPT ![t] = x] /\ minted' = minted + 1 /\ UNCHANGED <<ledger, stored>>
  BY DEF Prepare, tables
<1>3. x.pc = "prepared" /\ x.row.hash = minted + 1
  BY <1>1 DEF Appends, NextRow
<1>. HIDE DEF x
<1>4. \A u \in Threads : thread'[u] = IF u = t THEN x ELSE thread[u]
  BY <1>2 DEF EvidenceInv, LedgerInv, LTypeOK
<1>5. \A s \in DOMAIN ledger : ledger[s].hash \in 1 .. minted
  BY DEF EvidenceInv, HashesAreMinted
<1>6. \A s \in DOMAIN ledger : ledger[s].hash \in 1 .. (minted + 1) /\ ledger[s].hash # minted + 1
  BY <1>1, <1>5
<1>7. \A u \in Threads : u # t /\ thread[u].pc = "prepared" =>
        /\ thread[u].row.hash \in 1 .. (minted + 1) /\ thread[u].row.hash # minted + 1
        /\ \A s \in DOMAIN ledger : ledger[s].hash # thread[u].row.hash
  <2>1. \A u \in Threads : thread[u].pc = "prepared" =>
          /\ thread[u].row.hash \in 1 .. minted
          /\ \A s \in DOMAIN ledger : ledger[s].hash # thread[u].row.hash
    BY DEF EvidenceInv, HashesAreMinted
  <2>. QED BY <2>1, <1>1
<1>8. minted + 1 \in 1 .. (minted + 1)
  BY <1>1
<1>9. HashesAreMinted'
  <2>1. (\A s \in DOMAIN ledger : ledger[s].hash \in 1 .. minted)'
    BY <1>2, <1>6
  <2>2. (\A r, s \in DOMAIN ledger : ledger[r].hash = ledger[s].hash => r = s)'
    BY <1>2 DEF EvidenceInv, HashesAreMinted
  <2>3. (\A u \in Threads :
           thread[u].pc = "prepared" =>
             /\ thread[u].row.hash \in 1 .. minted
             /\ \A s \in DOMAIN ledger : ledger[s].hash # thread[u].row.hash)'
    BY <1>2, <1>3, <1>4, <1>6, <1>7, <1>8
  <2>4. (\A u, v \in Threads :
           thread[u].pc = "prepared" /\ thread[v].pc = "prepared"
             /\ thread[u].row.hash = thread[v].row.hash => u = v)'
    BY <1>3, <1>4, <1>7 DEF EvidenceInv, HashesAreMinted
  <2>. QED BY <2>1, <2>2, <2>3, <2>4 DEF HashesAreMinted
<1>10. JournalIsLatest'
  BY <1>2 DEF EvidenceInv, JournalIsLatest
<1>. QED BY <1>9, <1>10

LEMMA PersistAppends ==
  ASSUME EvidenceInv, NEW t \in Threads, Persist(t)
  PROVE  HashesAreMinted' /\ JournalIsLatest'
<1>. DEFINE row == thread[t].row
            x == [thread[t] EXCEPT !.pc = "persisted"]
<1>0. LedgerInv /\ LedgerInv'
  BY PersistLemma DEF EvidenceInv
<1>1. thread[t] \in Appends /\ thread[t].pc = "prepared" /\ row \in Rows
  BY <1>0 DEF LedgerInv, LTypeOK, Persist, Appends
<1>2. row.seq \notin DOMAIN ledger /\ ledger' = Inserted(row) /\ stored' = Upserted(row)
      /\ minted' = minted /\ thread' = [thread EXCEPT ![t] = x]
  BY DEF Persist, Insertable
<1>3. x.pc = "persisted"
  BY <1>1 DEF Appends
<1>4. \A u \in Threads : thread'[u] = IF u = t THEN x ELSE thread[u]
  BY <1>0, <1>2 DEF LedgerInv, LTypeOK
<1>. HIDE DEF x
<1>5. PICK n \in Nat : DOMAIN ledger = 1 .. n
  BY <1>0, Segment DEF LedgerInv
<1>6. PICK m \in Nat : DOMAIN ledger' = 1 .. m
  <2>1. row.seq \in DOMAIN ledger'
    BY <1>2 DEF Inserted
  <2>2. \E m \in DOMAIN ledger' : DOMAIN ledger' = 1 .. m
    BY <1>0, <2>1 DEF LedgerInv, ChainIntact
  <2>. QED BY <1>0, <2>2 DEF LedgerInv, LTypeOK
<1>7. DOMAIN ledger' = (1 .. n) \cup {row.seq}
  BY <1>2, <1>5 DEF Inserted
<1>8. row.seq = n + 1
  <2>1. row.seq \in 1 .. m /\ row.seq \notin 1 .. n
    BY <1>2, <1>5, <1>6, <1>7
  <2>2. n + 1 \in 1 .. m
    <3>1. n < row.seq /\ row.seq <= m /\ row.seq \in Nat
      BY <2>1, <1>5, <1>6
    <3>. QED BY <3>1, <1>5, <1>6
  <2>3. n + 1 \notin 1 .. n
    BY <1>5
  <2>. QED BY <2>2, <2>3, <1>6, <1>7
<1>9. \A s \in DOMAIN ledger' :
        \/ s \in DOMAIN ledger /\ s # row.seq /\ ledger'[s] = ledger[s]
        \/ s = row.seq /\ ledger'[s] = row
  BY <1>2, <1>5, <1>7 DEF Inserted
<1>. HIDE DEF row
<1>10. /\ row.hash \in 1 .. minted
       /\ \A s \in DOMAIN ledger : ledger[s].hash # row.hash
       /\ \A u \in Threads : thread[u].pc = "prepared" /\ thread[u].row.hash = row.hash => u = t
  BY <1>1 DEF EvidenceInv, HashesAreMinted, row
<1>11. HashesAreMinted'
  <2>1. (\A s \in DOMAIN ledger : ledger[s].hash \in 1 .. minted)'
    BY <1>2, <1>9, <1>10 DEF EvidenceInv, HashesAreMinted
  <2>2. (\A r, s \in DOMAIN ledger : ledger[r].hash = ledger[s].hash => r = s)'
    BY <1>9, <1>10 DEF EvidenceInv, HashesAreMinted
  <2>3. (\A u \in Threads :
           thread[u].pc = "prepared" =>
             /\ thread[u].row.hash \in 1 .. minted
             /\ \A s \in DOMAIN ledger : ledger[s].hash # thread[u].row.hash)'
    <3>. SUFFICES ASSUME NEW u \in Threads, thread'[u].pc = "prepared"
                  PROVE  /\ thread'[u].row.hash \in 1 .. minted'
                         /\ \A s \in DOMAIN ledger' : ledger'[s].hash # thread'[u].row.hash
      OBVIOUS
    <3>1. u # t /\ thread'[u] = thread[u]
      BY <1>3, <1>4
    <3>2. thread[u].row.hash # row.hash
      BY <3>1, <1>10
    <3>3. thread[u].row.hash \in 1 .. minted /\ \A s \in DOMAIN ledger : ledger[s].hash # thread[u].row.hash
      BY <3>1 DEF EvidenceInv, HashesAreMinted
    <3>. QED BY <3>1, <3>2, <3>3, <1>2, <1>9
  <2>4. (\A u, v \in Threads :
           thread[u].pc = "prepared" /\ thread[v].pc = "prepared"
             /\ thread[u].row.hash = thread[v].row.hash => u = v)'
    BY <1>3, <1>4 DEF EvidenceInv, HashesAreMinted
  <2>. QED BY <2>1, <2>2, <2>3, <2>4 DEF HashesAreMinted
<1>12. JournalIsLatest'
  <2>. SUFFICES ASSUME NEW s \in DOMAIN ledger', ledger'[s].event.journaled
                PROVE  stored'[ledger'[s].event.entry].seq >= s
    BY DEF JournalIsLatest
  <2>. DEFINE i == ledger'[s].event.entry
  <2>1. i \in Ids /\ s \in 1 .. n + 1
    <3>1. ledger'[s] \in Rows
      BY <1>0 DEF LedgerInv, LTypeOK
    <3>2. ledger'[s].event \in Events
      BY <3>1 DEF Rows
    <3>3. s \in 1 .. n + 1
      BY <1>7, <1>8, <1>5
    <3>. QED BY <3>2, <3>3 DEF Events, Plain
  <2>2. CASE row.event.journaled /\ row.event.entry = i
    <3>1. stored'[i] = [state |-> row.event.state, seq |-> row.seq]
      BY <2>1, <2>2, <1>0, <1>2 DEF Upserted, LedgerInv, LTypeOK
    <3>2. n + 1 >= s
      BY <2>1, <1>5
    <3>. QED BY <3>1, <3>2, <1>8
  <2>3. CASE ~(row.event.journaled /\ row.event.entry = i)
    <3>1. stored'[i] = stored[i]
      BY <2>1, <2>3, <1>0, <1>2 DEF Upserted, LedgerInv, LTypeOK
    <3>2. s \in DOMAIN ledger /\ ledger'[s] = ledger[s]
      BY <2>3, <1>9
    <3>3. stored[ledger[s].event.entry].seq >= s
      BY <3>2 DEF EvidenceInv, JournalIsLatest
    <3>. QED BY <3>1, <3>2, <3>3
  <2>. QED BY <2>2, <2>3
<1>. QED BY <1>11, <1>12

LEMMA EvidenceInitLemma == LInit => EvidenceInv
<1>. SUFFICES ASSUME LInit PROVE EvidenceInv
  OBVIOUS
<1>1. LedgerInv
  BY InitLemma
<1>2. DOMAIN ledger = {} /\ \A t \in Threads : thread[t].pc = "idle"
  BY DEF LInit, Idle
<1>. QED BY <1>1, <1>2 DEF EvidenceInv, HashesAreMinted, JournalIsLatest

LEMMA EvidenceStepLemma ==
  ASSUME EvidenceInv, [LNext]_lvars
  PROVE  EvidenceInv'
<1>0. LedgerInv /\ LedgerInv'
  BY StepLemma DEF EvidenceInv
<1>1. ASSUME NEW t \in Threads,
             \/ PlainEvent(t)
             \/ \E i \in Ids, state \in States : Transition(t, i, state)
      PROVE  HashesAreMinted' /\ JournalIsLatest'
  <2>1. \E event : Emit(t, event)
    BY <1>1 DEF PlainEvent, Transition
  <2>2. PICK event : Emit(t, event)
    BY <2>1
  <2>3. thread[t] \in Appends
    BY <1>0 DEF LedgerInv, LTypeOK
  <2>. DEFINE x == [thread[t] EXCEPT !.pc = "emit", !.event = event]
  <2>4. thread' = [thread EXCEPT ![t] = x] /\ x.pc = "emit"
    BY <2>2, <2>3 DEF Emit, Appends
  <2>. HIDE DEF x
  <2>5. x.pc # "prepared"
    BY <2>4
  <2>6. \A u \in Threads : thread'[u].pc = "prepared" => thread'[u] = thread[u]
    BY <2>4, <2>5, <1>0, OthersRest
  <2>7. UNCHANGED <<ledger, stored>> /\ minted' = minted
    BY <1>1 DEF PlainEvent, Transition, tables
  <2>. QED BY <2>6, <2>7, EvidenceFrame
<1>2. ASSUME NEW t \in Threads, NEW i \in Ids, Open(t, i)
      PROVE  HashesAreMinted' /\ JournalIsLatest'
  BY <1>2, EvidenceFrame DEF Open, tables
<1>3. ASSUME NEW t \in Threads, PersistFails(t) \/ Mirror(t)
      PROVE  HashesAreMinted' /\ JournalIsLatest'
  <2>1. Idle.pc # "prepared"
    BY DEF Idle
  <2>2. thread' = [thread EXCEPT ![t] = Idle]
    BY <1>3 DEF PersistFails, Mirror
  <2>3. \A u \in Threads : thread'[u].pc = "prepared" => thread'[u] = thread[u]
    BY <2>1, <2>2, <1>0, OthersRest
  <2>4. UNCHANGED <<ledger, stored>> /\ minted' = minted
    BY <1>3 DEF PersistFails, Mirror, tables
  <2>. QED BY <2>3, <2>4, EvidenceFrame
<1>4. ASSUME NEW p \in Processes, Crash(p) \/ Restart(p)
      PROVE  HashesAreMinted' /\ JournalIsLatest'
  <2>1. CASE Crash(p)
    <3>1. thread' = [t \in Threads |-> IF ProcessOf[t] = p THEN Idle ELSE thread[t]]
      BY <2>1 DEF Crash
    <3>2. Idle.pc # "prepared"
      BY DEF Idle
    <3>3. \A u \in Threads : thread'[u].pc = "prepared" => thread'[u] = thread[u]
      BY <3>1, <3>2
    <3>4. UNCHANGED <<ledger, stored>> /\ minted' = minted
      BY <2>1 DEF Crash, tables
    <3>. QED BY <3>3, <3>4, EvidenceFrame
  <2>2. CASE Restart(p)
    BY <2>2, EvidenceFrame DEF Restart, tables
  <2>. QED BY <1>4, <2>1, <2>2
<1>5. ASSUME UNCHANGED lvars
      PROVE  HashesAreMinted' /\ JournalIsLatest'
  BY <1>5, EvidenceFrame DEF lvars, tables
<1>6. HashesAreMinted' /\ JournalIsLatest'
  BY <1>1, <1>2, <1>3, <1>4, <1>5, PrepareMints, PersistAppends DEF LNext
<1>. QED BY <1>0, <1>6 DEF EvidenceInv

\* ... with what the hashes and the journal rows name.
THEOREM EvidenceInvariant == LSpec => []EvidenceInv
<1>. QED BY EvidenceInitLemma, EvidenceStepLemma, PTL DEF LSpec

-----------------------------------------------------------------------------
(* Merkle trees.  The library's induction theorems take an operator; here   *)
(* induction is over sets of natural numbers, which is first-order.         *)

LEMMA NaturalsInduct ==
  ASSUME NEW S \in SUBSET Nat, 0 \in S, \A n \in S : n + 1 \in S
  PROVE  S = Nat
<1>. DEFINE Less == {pair \in Nat \X Nat : pair[1] < pair[2]}
<1>. SUFFICES ASSUME Nat \ S # {} PROVE FALSE
  OBVIOUS
<1>1. IsWellFoundedOn(Less, Nat)
  BY NatLessThanWellFounded DEF OpToRel
<1>2. PICK x \in Nat \ S : \A y \in Nat \ S : <<y, x>> \notin Less
  BY <1>1, WFMin
<1>3. \A y \in Nat \ S : ~(y < x)
  BY <1>2
<1>4. x # 0 /\ x - 1 \in Nat /\ x - 1 \notin Nat \ S
  BY <1>3
<1>. QED BY <1>4

\* A level of the tree: a list of n nodes, whatever a node is.
IsList(s, n) == s = [i \in 1 .. n |-> s[i]]

LEMMA ListLength ==
  ASSUME NEW n \in Nat, NEW s, IsList(s, n)
  PROVE  Len(s) = n
<1>1. s \in [1 .. n -> {s[i] : i \in 1 .. n}]
  <2>. DEFINE S == {s[i] : i \in 1 .. n}
  <2>1. \A i \in 1 .. n : s[i] \in S
    OBVIOUS
  <2>. HIDE DEF S
  <2>2. [i \in 1 .. n |-> s[i]] \in [1 .. n -> S]
    BY <2>1
  <2>. QED BY <2>2 DEF IsList, S
<1>. QED BY <1>1, IsSequence

\* Half of a level, rounded up.
LEMMA Halved ==
  ASSUME NEW n \in Nat \ {0}
  PROVE  LET m == (n + 1) \div 2
         IN  /\ m \in Nat \ {0} /\ (2 * m = n \/ 2 * m = n + 1)
             /\ (n # 1 => m < n) /\ \A i \in 1 .. m : 2 * i - 1 \in 1 .. n
<1>. DEFINE m == (n + 1) \div 2
<1>1. m \in Nat /\ (2 * m = n \/ 2 * m = n + 1)
  OBVIOUS
<1>. HIDE DEF m
<1>2. m # 0 /\ (n # 1 => m < n)
  BY <1>1
<1>3. \A i \in 1 .. m : 2 * i - 1 \in 1 .. n
  BY <1>1
<1>. QED BY <1>1, <1>2, <1>3 DEF m

LEMMA NextLevelIs ==
  ASSUME NEW n \in Nat \ {0}, NEW s, IsList(s, n)
  PROVE  /\ IsList(NextLevel(s), (n + 1) \div 2)
         /\ \A i \in 1 .. (n + 1) \div 2 :
              NextLevel(s)[i] = <<s[2 * i - 1], IF 2 * i <= n THEN s[2 * i] ELSE s[2 * i - 1]>>
<1>1. Len(s) = n
  BY ListLength
<1>. QED BY <1>1, Zenon DEF NextLevel, IsList

\* The equation of Levels.
Upper(level) == IF Len(level) = 1 THEN level ELSE NextLevel(level)
LeafNodes(chain) == [n \in DOMAIN chain |-> <<chain[n].hash>>]
Climbs(tree, chain, n) ==
  tree = [k \in 0 .. n |-> IF k = 0 THEN LeafNodes(chain) ELSE Upper(tree[k - 1])]

LEMMA SomeLevels ==
  ASSUME NEW chain, NEW n \in Nat
  PROVE  \E tree : Climbs(tree, chain, n)
<1>. DEFINE S == {m \in Nat : \E tree : Climbs(tree, chain, m)}
<1>1. 0 \in S
  <2>. DEFINE tree == [k \in 0 .. 0 |-> LeafNodes(chain)]
  <2>1. tree = [k \in 0 .. 0 |-> IF k = 0 THEN LeafNodes(chain) ELSE Upper(tree[k - 1])]
    OBVIOUS
  <2>. QED BY <2>1 DEF Climbs
<1>2. ASSUME NEW m \in S PROVE m + 1 \in S
  <2>1. PICK tree : Climbs(tree, chain, m)
    OBVIOUS
  <2>. DEFINE next == [k \in 0 .. m + 1 |-> IF k = m + 1 THEN Upper(tree[m]) ELSE tree[k]]
  <2>2. ASSUME NEW k \in 0 .. m + 1
        PROVE  next[k] = IF k = 0 THEN LeafNodes(chain) ELSE Upper(next[k - 1])
    <3>0. m \in Nat
      OBVIOUS
    <3>1. CASE k = 0
      <4>1. next[0] = tree[0]
        BY <3>0
      <4>2. tree[0] = LeafNodes(chain)
        BY <2>1 DEF Climbs
      <4>. QED BY <4>1, <4>2, <3>1
    <3>2. CASE k = m + 1
      <4>1. next[m + 1] = Upper(tree[m]) /\ next[m] = tree[m]
        BY <3>0
      <4>2. k # 0 /\ k - 1 = m
        BY <3>0, <3>2
      <4>. HIDE DEF next
      <4>. QED BY <4>1, <4>2, <3>2
    <3>3. CASE k # 0 /\ k # m + 1
      <4>1. next[k] = tree[k] /\ next[k - 1] = tree[k - 1]
        BY <3>0, <3>3
      <4>2. k \in 0 .. m /\ k # 0
        BY <3>0, <3>3
      <4>3. tree[k] = Upper(tree[k - 1])
        BY <2>1, <4>2 DEF Climbs
      <4>. HIDE DEF next
      <4>. QED BY <4>1, <4>3, <3>3
    <3>. QED BY <3>1, <3>2, <3>3
  <2>3. next = [k \in 0 .. m + 1 |-> next[k]]
    OBVIOUS
  <2>. HIDE DEF next
  <2>4. Climbs(next, chain, m + 1)
    BY <2>2, <2>3, Zenon DEF Climbs
  <2>5. m + 1 \in Nat
    OBVIOUS
  <2>. QED BY <2>4, <2>5
<1>. HIDE DEF S
<1>3. S = Nat
  <2>1. S \in SUBSET Nat
    BY DEF S
  <2>. QED BY <1>1, <1>2, <2>1, NaturalsInduct
<1>4. n \in S
  BY <1>3
<1>. QED BY <1>4 DEF S

LEMMA LevelsClimb ==
  ASSUME NEW chain, Len(chain) \in Nat
  PROVE  Climbs(Levels(chain), chain, Len(chain))
<1>1. \E tree : Climbs(tree, chain, Len(chain))
  BY SomeLevels
<1>. QED BY <1>1, Zenon DEF Climbs, Levels, Upper, LeafNodes

\* A tree over distinct leaves: every level is a list of distinct nodes, and it
\* shrinks until one node is left.
Level(s, k, L) ==
  /\ Len(s) \in Nat \ {0} /\ IsList(s, Len(s)) /\ (Len(s) = 1 \/ Len(s) + k <= L)
  /\ \A i, j \in 1 .. Len(s) : s[i] = s[j] => i = j

LEMMA UpperIsLevel ==
  ASSUME NEW s, NEW k \in Nat, NEW L \in Nat, Level(s, k, L)
  PROVE  Level(Upper(s), k + 1, L)
<1>. DEFINE n == Len(s)
            t == NextLevel(s)
            m == (n + 1) \div 2
<1>1. CASE n = 1
  BY <1>1 DEF Upper, Level
<1>2. CASE n # 1
  <2>0. n \in Nat \ {0} /\ IsList(s, n) /\ Upper(s) = t
    BY <1>2 DEF Upper, Level
  <2>1. /\ m \in Nat \ {0} /\ (2 * m = n \/ 2 * m = n + 1)
        /\ m < n /\ \A i \in 1 .. m : 2 * i - 1 \in 1 .. n
    BY <2>0, <1>2, Halved
  <2>2. /\ IsList(t, m)
        /\ \A i \in 1 .. m : t[i] = <<s[2 * i - 1], IF 2 * i <= n THEN s[2 * i] ELSE s[2 * i - 1]>>
    BY <2>0, NextLevelIs
  <2>. HIDE DEF m, t
  <2>3. Len(t) = m
    BY <2>1, <2>2, ListLength
  <2>4. m + (k + 1) <= L
    BY <2>0, <2>1, <1>2 DEF Level
  <2>5. ASSUME NEW i \in 1 .. m, NEW j \in 1 .. m, t[i] = t[j]
        PROVE  i = j
    <3>a. /\ t[i] = <<s[2 * i - 1], IF 2 * i <= n THEN s[2 * i] ELSE s[2 * i - 1]>>
          /\ t[j] = <<s[2 * j - 1], IF 2 * j <= n THEN s[2 * j] ELSE s[2 * j - 1]>>
      BY <2>2, Zenon
    <3>0. \E u, v : <<s[2 * i - 1], u>> = <<s[2 * j - 1], v>>
      BY <2>5, <3>a, Zenon
    <3>1. s[2 * i - 1] = s[2 * j - 1]
      BY <2>5, <3>0
    <3>2. 2 * i - 1 \in 1 .. n /\ 2 * j - 1 \in 1 .. n
      BY <2>1
    <3>3. 2 * i - 1 = 2 * j - 1
      BY <3>1, <3>2 DEF Level
    <3>. QED BY <3>3
  <2>. QED BY <2>0, <2>1, <2>2, <2>3, <2>4, <2>5 DEF Level
<1>. QED BY <1>1, <1>2

Distinct(chain) ==
  Len(chain) \in Nat \ {0} /\ chain \in Seq(Rows)
  /\ \A i, j \in DOMAIN chain : chain[i].hash = chain[j].hash => i = j

LEMMA LevelsAre ==
  ASSUME NEW chain, Distinct(chain), NEW tree, Climbs(tree, chain, Len(chain))
  PROVE  \A k \in 0 .. Len(chain) : Level(tree[k], k, Len(chain))
<1>. DEFINE L == Len(chain)
            S == {k \in Nat : k <= L => Level(tree[k], k, L)}
<1>0. L \in Nat \ {0} /\ DOMAIN chain = 1 .. L
  BY DEF Distinct
<1>1. tree[0] = LeafNodes(chain) /\ \A k \in 1 .. L : tree[k] = Upper(tree[k - 1])
  BY <1>0 DEF Climbs
<1>2. 0 \in S
  <2>1. IsList(LeafNodes(chain), L)
    BY <1>0 DEF LeafNodes, IsList
  <2>2. Len(LeafNodes(chain)) = L
    BY <1>0, <2>1, ListLength
  <2>3. \A i, j \in 1 .. L : LeafNodes(chain)[i] = LeafNodes(chain)[j] => i = j
    BY <1>0 DEF LeafNodes, Distinct
  <2>4. L + 0 <= L
    BY <1>0
  <2>5. Level(LeafNodes(chain), 0, L)
    BY <1>0, <2>1, <2>2, <2>3, <2>4 DEF Level
  <2>. QED BY <1>1, <2>5
<1>3. ASSUME NEW k \in S PROVE k + 1 \in S
  <2>1. k \in Nat /\ (k <= L => Level(tree[k], k, L))
    OBVIOUS
  <2>2. ASSUME k + 1 <= L PROVE Level(tree[k + 1], k + 1, L)
    <3>1. k + 1 \in 1 .. L /\ (k + 1) - 1 = k /\ k <= L
      BY <2>1, <2>2, <1>0
    <3>2. tree[k + 1] = Upper(tree[k])
      BY <3>1, <1>1
    <3>. QED BY <2>1, <3>1, <3>2, <1>0, UpperIsLevel
  <2>. QED BY <2>1, <2>2
<1>4. S \in SUBSET Nat
  OBVIOUS
<1>. HIDE DEF S
<1>5. S = Nat
  BY <1>2, <1>3, <1>4, NaturalsInduct
<1>6. ASSUME NEW k \in 0 .. L PROVE Level(tree[k], k, L)
  <2>1. k \in S /\ k <= L
    BY <1>0, <1>5
  <2>. QED BY <2>1 DEF S
<1>. QED BY <1>6

\* The first level with one node is the root, and every level below it is paired.
Height(tree, K, L) ==
  /\ K \in 0 .. L /\ Len(tree[K]) = 1 /\ tree[L] = tree[K]
  /\ \A k \in 1 .. K : Len(tree[k - 1]) # 1 /\ tree[k] = NextLevel(tree[k - 1])

LEMMA SomeHeight ==
  ASSUME NEW chain, Distinct(chain), NEW tree, Climbs(tree, chain, Len(chain))
  PROVE  \E K : Height(tree, K, Len(chain))
<1>. DEFINE L == Len(chain)
            H == {k \in Nat : k <= L /\ Len(tree[k]) = 1}
            Less == {pair \in Nat \X Nat : pair[1] < pair[2]}
<1>0. L \in Nat \ {0}
  BY DEF Distinct
<1>1. \A k \in 1 .. L : tree[k] = Upper(tree[k - 1])
  BY <1>0 DEF Climbs
<1>2. L \in H
  <2>1. Level(tree[L], L, L)
    BY <1>0, LevelsAre
  <2>2. Len(tree[L]) \in Nat \ {0} /\ (Len(tree[L]) = 1 \/ Len(tree[L]) + L <= L)
    BY <2>1 DEF Level
  <2>. QED BY <2>2, <1>0
<1>3. PICK K \in H : \A k \in H : <<k, K>> \notin Less
  <2>1. IsWellFoundedOn(Less, Nat)
    BY NatLessThanWellFounded DEF OpToRel
  <2>2. H \in SUBSET Nat /\ H # {}
    BY <1>2
  <2>. HIDE DEF H, Less
  <2>. QED BY <2>1, <2>2, WFMin
<1>4. K \in Nat /\ K <= L /\ Len(tree[K]) = 1
  OBVIOUS
<1>5. ASSUME NEW k \in 1 .. K PROVE Len(tree[k - 1]) # 1 /\ tree[k] = NextLevel(tree[k - 1])
  <2>1. k - 1 \in Nat /\ k - 1 <= L /\ k - 1 < K /\ k \in 1 .. L
    BY <1>0, <1>4
  <2>2. <<k - 1, K>> \in Less
    <3>1. <<k - 1, K>> \in Nat \X Nat /\ <<k - 1, K>>[1] = k - 1 /\ <<k - 1, K>>[2] = K
      BY <2>1, <1>4
    <3>. QED BY <3>1, <2>1
  <2>3. k - 1 \notin H
    BY <2>2, <1>3
  <2>4. Len(tree[k - 1]) # 1
    BY <2>1, <2>3
  <2>. QED BY <2>1, <2>4, <1>1 DEF Upper
<1>6. tree[L] = tree[K]
  <2>. DEFINE S == {d \in Nat : K + d <= L => tree[K + d] = tree[K]}
  <2>1. 0 \in S
    BY <1>4
  <2>2. ASSUME NEW d \in S PROVE d + 1 \in S
    <3>1. d \in Nat /\ (K + d <= L => tree[K + d] = tree[K])
      OBVIOUS
    <3>2. ASSUME K + (d + 1) <= L PROVE tree[K + (d + 1)] = tree[K]
      <4>1. K + (d + 1) \in 1 .. L /\ (K + (d + 1)) - 1 = K + d /\ K + d <= L
        BY <3>1, <3>2, <1>0, <1>4
      <4>2. tree[K + (d + 1)] = Upper(tree[K + d]) /\ tree[K + d] = tree[K]
        BY <4>1, <3>1, <1>1
      <4>. QED BY <4>2, <1>4 DEF Upper
    <3>. QED BY <3>1, <3>2
  <2>3. S \in SUBSET Nat
    OBVIOUS
  <2>. HIDE DEF S
  <2>4. S = Nat
    BY <2>1, <2>2, <2>3, NaturalsInduct
  <2>5. L - K \in Nat /\ K + (L - K) = L
    BY <1>0, <1>4
  <2>6. L - K \in S
    BY <2>4, <2>5
  <2>7. K + (L - K) <= L => tree[K + (L - K)] = tree[K]
    BY <2>6 DEF S
  <2>. QED BY <2>5, <2>7, <1>0
<1>7. K \in 0 .. L
  BY <1>0, <1>4
<1>. QED BY <1>4, <1>5, <1>6, <1>7 DEF Height

\* The pairs of a level and the leaves of a tree.
LEMMA PairsAre ==
  ASSUME NEW s, NEW k \in Nat, NEW L \in Nat, Level(s, k, L)
  PROVE  LET t == NextLevel(s)
         IN  /\ Len(t) \in Nat \ {0} /\ 2 * Len(t) \in {Len(s), Len(s) + 1}
             /\ \A i \in 1 .. Len(t) :
                  t[i] = <<s[2 * i - 1], IF 2 * i <= Len(s) THEN s[2 * i] ELSE s[2 * i - 1]>>
<1>. DEFINE n == Len(s)
            t == NextLevel(s)
            m == (n + 1) \div 2
<1>1. n \in Nat \ {0} /\ IsList(s, n)
  BY DEF Level
<1>2. m \in Nat \ {0} /\ (2 * m = n \/ 2 * m = n + 1)
  BY <1>1, Halved
<1>3. /\ IsList(t, m)
      /\ \A i \in 1 .. m : t[i] = <<s[2 * i - 1], IF 2 * i <= n THEN s[2 * i] ELSE s[2 * i - 1]>>
  BY <1>1, NextLevelIs
<1>. HIDE DEF m, t
<1>4. Len(t) = m
  BY <1>2, <1>3, ListLength
<1>. QED BY <1>2, <1>3, <1>4 DEF t

\* Two trees of one height and one root have one list of leaves: only an odd level,
\* whose last node is paired with itself, could be taken for an even one, and an even
\* one has no node twice.
LEMMA OneLevelDown ==
  ASSUME NEW s, NEW t, NEW k \in Nat, NEW L \in Nat, NEW M \in Nat,
         Level(s, k, L), Level(t, k, M), NextLevel(s) = NextLevel(t)
  PROVE  s = t
<1>. DEFINE n == Len(s)
            o == Len(t)
            m == Len(NextLevel(s))
<1>1. n \in Nat \ {0} /\ o \in Nat \ {0}
  BY DEF Level
<1>2. /\ m \in Nat \ {0} /\ (2 * m = n \/ 2 * m = n + 1) /\ (2 * m = o \/ 2 * m = o + 1)
      /\ \A i \in 1 .. m :
           /\ NextLevel(s)[i] = <<s[2 * i - 1], IF 2 * i <= n THEN s[2 * i] ELSE s[2 * i - 1]>>
           /\ NextLevel(s)[i] = <<t[2 * i - 1], IF 2 * i <= o THEN t[2 * i] ELSE t[2 * i - 1]>>
  BY PairsAre
<1>. HIDE DEF n, o, m
<1>3. \A i \in 1 .. m :
        /\ s[2 * i - 1] = t[2 * i - 1]
        /\ (IF 2 * i <= n THEN s[2 * i] ELSE s[2 * i - 1])
             = (IF 2 * i <= o THEN t[2 * i] ELSE t[2 * i - 1])
  <2>1. \A x, y, u, v : <<x, y>> = <<u, v>> => x = u /\ y = v
    OBVIOUS
  <2>2. \A i \in 1 .. m :
          <<s[2 * i - 1], IF 2 * i <= n THEN s[2 * i] ELSE s[2 * i - 1]>>
            = <<t[2 * i - 1], IF 2 * i <= o THEN t[2 * i] ELSE t[2 * i - 1]>>
    BY <1>2, Zenon
  <2>. QED BY <2>1, <2>2, Zenon
<1>4. n = o
  <2>1. m \in 1 .. m /\ 2 * m - 1 \in Nat
    BY <1>2
  <2>2. ASSUME n = 2 * m, o + 1 = 2 * m PROVE FALSE
    <3>1. 2 * m <= n /\ ~(2 * m <= o)
      BY <2>2, <1>1, <1>2
    <3>2. s[2 * m] = s[2 * m - 1]
      BY <2>1, <3>1, <1>3
    <3>3. 2 * m \in 1 .. n /\ 2 * m - 1 \in 1 .. n /\ 2 * m # 2 * m - 1
      BY <2>2, <1>2
    <3>. QED BY <3>2, <3>3 DEF Level, n
  <2>3. ASSUME o = 2 * m, n + 1 = 2 * m PROVE FALSE
    <3>1. 2 * m <= o /\ ~(2 * m <= n)
      BY <2>3, <1>1, <1>2
    <3>2. t[2 * m] = t[2 * m - 1]
      BY <2>1, <3>1, <1>3
    <3>3. 2 * m \in 1 .. o /\ 2 * m - 1 \in 1 .. o /\ 2 * m # 2 * m - 1
      BY <2>3, <1>2
    <3>. QED BY <3>2, <3>3 DEF Level, o
  <2>. QED BY <2>2, <2>3, <1>1, <1>2
<1>5. ASSUME NEW j \in 1 .. n PROVE s[j] = t[j]
  <2>1. PICK i \in 1 .. m : j = 2 * i - 1 \/ j = 2 * i
    <3>. DEFINE q == (j + 1) \div 2
    <3>1. j \in Nat \ {0}
      BY <1>1
    <3>2. q \in Nat \ {0} /\ (2 * q = j \/ 2 * q = j + 1)
      BY <3>1, Halved
    <3>. HIDE DEF q
    <3>3. q <= m /\ (j = 2 * q - 1 \/ j = 2 * q)
      BY <3>1, <3>2, <1>1, <1>2
    <3>4. q \in 1 .. m
      BY <3>2, <3>3, <1>2
    <3>. QED BY <3>3, <3>4
  <2>2. CASE j = 2 * i - 1
    BY <2>2, <1>3
  <2>3. CASE j = 2 * i
    <3>1. 2 * i <= n /\ 2 * i <= o
      BY <2>3, <1>1, <1>4
    <3>. QED BY <2>3, <3>1, <1>3
  <2>. QED BY <2>1, <2>2, <2>3
<1>6. IsList(s, n) /\ IsList(t, n)
  BY <1>4 DEF Level, n, o
<1>. QED BY <1>5, <1>6 DEF IsList


\* The levels of a tree from its leaves to its root.
GrownTree(tree, K, chain) ==
  /\ K \in Nat /\ tree[0] = LeafNodes(chain) /\ Len(tree[K]) = 1
  /\ \A k \in 0 .. K : Level(tree[k], k, Len(chain))
  /\ \A k \in 1 .. K : tree[k] = NextLevel(tree[k - 1])

LEMMA TreeIsGrown ==
  ASSUME NEW chain, Distinct(chain)
  PROVE  \E tree, K : GrownTree(tree, K, chain) /\ MerkleRoot(chain) = tree[K][1]
<1>. DEFINE tree == Levels(chain)
            L == Len(chain)
<1>1. L \in Nat \ {0} /\ chain # <<>>
  BY DEF Distinct
<1>2. Climbs(tree, chain, L)
  BY <1>1, LevelsClimb
<1>3. MerkleRoot(chain) = tree[L][1]
  BY <1>1 DEF MerkleRoot
<1>. HIDE DEF tree
<1>4. \A k \in 0 .. L : Level(tree[k], k, L)
  BY <1>2, LevelsAre
<1>5. PICK K : Height(tree, K, L)
  BY <1>2, SomeHeight
<1>6. K \in Nat /\ K <= L
  BY <1>1, <1>5 DEF Height
<1>7. tree[0] = LeafNodes(chain)
  BY <1>1, <1>2 DEF Climbs
<1>8. \A k \in 0 .. K : Level(tree[k], k, L)
  BY <1>1, <1>4, <1>6
<1>. QED BY <1>3, <1>5, <1>6, <1>7, <1>8 DEF GrownTree, Height

LEMMA LeafIsLeaf ==
  ASSUME NEW chain, Distinct(chain)
  PROVE  LeafNodes(chain)[1] = <<chain[1].hash>>
BY DEF Distinct, LeafNodes

LEMMA FirstIs ==
  ASSUME NEW s, NEW k \in Nat, NEW L \in Nat, Level(s, k, L)
  PROVE  NextLevel(s)[1][1] = s[1] /\ \E x, y : NextLevel(s)[1] = <<x, y>>
<1>. DEFINE t == NextLevel(s)
<1>1. /\ Len(t) \in Nat \ {0}
      /\ \A i \in 1 .. Len(t) :
           t[i] = <<s[2 * i - 1], IF 2 * i <= Len(s) THEN s[2 * i] ELSE s[2 * i - 1]>>
  BY PairsAre
<1>. HIDE DEF t
<1>2. 1 \in 1 .. Len(t) /\ 2 * 1 - 1 = 1
  BY <1>1
<1>3. t[1] = <<s[1], IF 2 * 1 <= Len(s) THEN s[2 * 1] ELSE s[1]>>
  BY <1>1, <1>2
<1>4. t[1][1] = s[1]
  BY <1>3
<1>. QED BY <1>3, <1>4 DEF t

\* Down the first nodes of two trees of one root.
LEMMA FirstNodes ==
  ASSUME NEW a, NEW tree, NEW K, Distinct(a), GrownTree(tree, K, a),
         NEW b, NEW vp, NEW J, Distinct(b), GrownTree(vp, J, b), tree[K][1] = vp[J][1]
  PROVE  \A d \in Nat : d <= K /\ d <= J => tree[K - d][1] = vp[J - d][1]
<1>. DEFINE S == {d \in Nat : d <= K /\ d <= J => tree[K - d][1] = vp[J - d][1]}
<1>0. K \in Nat /\ J \in Nat /\ Len(a) \in Nat /\ Len(b) \in Nat
  BY DEF GrownTree, Distinct
<1>1. 0 \in S
  BY <1>0
<1>2. ASSUME NEW d \in S PROVE d + 1 \in S
  <2>1. d \in Nat /\ (d <= K /\ d <= J => tree[K - d][1] = vp[J - d][1])
    OBVIOUS
  <2>2. ASSUME d + 1 <= K, d + 1 <= J PROVE tree[K - (d + 1)][1] = vp[J - (d + 1)][1]
    <3>. DEFINE k == K - (d + 1)
                j == J - (d + 1)
    <3>1. k \in Nat /\ j \in Nat /\ K - d = k + 1 /\ J - d = j + 1 /\ k \in 0 .. K /\ j \in 0 .. J
          /\ k + 1 \in 1 .. K /\ j + 1 \in 1 .. J /\ (k + 1) - 1 = k /\ (j + 1) - 1 = j
          /\ d <= K /\ d <= J
      BY <1>0, <2>1, <2>2
    <3>. HIDE DEF k, j
    <3>2. tree[k + 1] = NextLevel(tree[k]) /\ vp[j + 1] = NextLevel(vp[j])
      BY <3>1 DEF GrownTree
    <3>3. Level(tree[k], k, Len(a)) /\ Level(vp[j], j, Len(b))
      BY <3>1 DEF GrownTree
    <3>4. NextLevel(tree[k])[1][1] = tree[k][1]
      BY <1>0, <3>1, <3>3, FirstIs
    <3>5. NextLevel(vp[j])[1][1] = vp[j][1]
      BY <1>0, <3>1, <3>3, FirstIs
    <3>6. tree[k + 1][1] = vp[j + 1][1]
      BY <2>1, <3>1
    <3>7. tree[k][1] = vp[j][1]
      BY <3>2, <3>4, <3>5, <3>6
    <3>. QED BY <3>7 DEF k, j
  <2>. QED BY <2>1, <2>2
<1>3. S \in SUBSET Nat
  OBVIOUS
<1>. HIDE DEF S
<1>4. S = Nat
  BY <1>1, <1>2, <1>3, NaturalsInduct
<1>. QED BY <1>4 DEF S

\* A leaf is no pair, so trees of one root are of one height.
LEMMA NoDeeper ==
  ASSUME NEW a, NEW tree, NEW K, Distinct(a), GrownTree(tree, K, a),
         NEW b, NEW vp, NEW J, Distinct(b), GrownTree(vp, J, b), tree[K][1] = vp[J][1]
  PROVE  ~(K < J)
<1>. SUFFICES ASSUME K < J PROVE FALSE
  OBVIOUS
<1>1. K \in Nat /\ J \in Nat /\ Len(b) \in Nat
  BY DEF GrownTree, Distinct
<1>2. K <= K /\ K <= J /\ K - K = 0
  BY <1>1
<1>3. tree[0][1] = vp[J - K][1]
  <2>1. \A d \in Nat : d <= K /\ d <= J => tree[K - d][1] = vp[J - d][1]
    BY FirstNodes
  <2>2. tree[K - K][1] = vp[J - K][1]
    BY <2>1, <1>1, <1>2
  <2>. QED BY <2>2, <1>2
<1>. DEFINE j == (J - K) - 1
<1>4. j \in Nat /\ j \in 0 .. J /\ J - K \in 1 .. J
  BY <1>1
<1>. HIDE DEF j
<1>5. vp[J - K] = NextLevel(vp[j]) /\ Level(vp[j], j, Len(b))
  BY <1>4 DEF GrownTree, j
<1>7. \E x, y : NextLevel(vp[j])[1] = <<x, y>>
  BY <1>1, <1>4, <1>5, FirstIs
<1>8. tree[0][1] = <<a[1].hash>>
  BY LeafIsLeaf DEF GrownTree
<1>9. \A x, y : <<a[1].hash>> # <<x, y>>
  OBVIOUS
<1>. QED BY <1>3, <1>5, <1>7, <1>8, <1>9

LEMMA SameLeaves ==
  ASSUME NEW a, NEW tree, NEW K, Distinct(a), GrownTree(tree, K, a),
         NEW b, NEW vp, Distinct(b), GrownTree(vp, K, b), tree[K][1] = vp[K][1]
  PROVE  LeafNodes(a) = LeafNodes(b)
<1>. DEFINE S == {d \in Nat : d <= K => tree[K - d] = vp[K - d]}
<1>0. K \in Nat /\ Len(a) \in Nat /\ Len(b) \in Nat
  BY DEF GrownTree, Distinct
<1>1. 0 \in S
  <2>1. Level(tree[K], K, Len(a)) /\ Level(vp[K], K, Len(b)) /\ Len(tree[K]) = 1 /\ Len(vp[K]) = 1
    BY <1>0 DEF GrownTree
  <2>2. tree[K] = [i \in 1 .. 1 |-> tree[K][i]] /\ vp[K] = [i \in 1 .. 1 |-> vp[K][i]]
    BY <2>1 DEF Level, IsList
  <2>3. \A i \in 1 .. 1 : tree[K][i] = vp[K][i]
    OBVIOUS
  <2>4. tree[K] = vp[K]
    BY <2>2, <2>3
  <2>5. K - 0 = K
    BY <1>0
  <2>. QED BY <2>4, <2>5
<1>2. ASSUME NEW d \in S PROVE d + 1 \in S
  <2>1. d \in Nat /\ (d <= K => tree[K - d] = vp[K - d])
    OBVIOUS
  <2>2. ASSUME d + 1 <= K PROVE tree[K - (d + 1)] = vp[K - (d + 1)]
    <3>. DEFINE k == K - (d + 1)
    <3>1. k \in Nat /\ K - d = k + 1 /\ k \in 0 .. K /\ k + 1 \in 1 .. K /\ (k + 1) - 1 = k /\ d <= K
      BY <1>0, <2>1, <2>2
    <3>. HIDE DEF k
    <3>2. tree[k + 1] = NextLevel(tree[k]) /\ vp[k + 1] = NextLevel(vp[k])
      BY <3>1 DEF GrownTree
    <3>3. Level(tree[k], k, Len(a)) /\ Level(vp[k], k, Len(b))
      BY <3>1 DEF GrownTree
    <3>4. NextLevel(tree[k]) = NextLevel(vp[k])
      BY <2>1, <3>1, <3>2
    <3>5. tree[k] = vp[k]
      BY <1>0, <3>1, <3>3, <3>4, OneLevelDown
    <3>. QED BY <3>5 DEF k
  <2>. QED BY <2>1, <2>2
<1>3. S \in SUBSET Nat
  OBVIOUS
<1>. HIDE DEF S
<1>4. S = Nat
  BY <1>1, <1>2, <1>3, NaturalsInduct
<1>5. K \in S /\ K <= K /\ K - K = 0
  BY <1>0, <1>4
<1>6. tree[0] = vp[0]
  <2>1. K <= K => tree[K - K] = vp[K - K]
    BY <1>5 DEF S
  <2>. QED BY <2>1, <1>5
<1>. QED BY <1>6 DEF GrownTree

\* One root, one list of leaves.
LEMMA RootsAre ==
  ASSUME NEW a, NEW b, Distinct(a), Distinct(b), MerkleRoot(a) = MerkleRoot(b)
  PROVE  LeafNodes(a) = LeafNodes(b)
<1>1. PICK tree, K : GrownTree(tree, K, a) /\ MerkleRoot(a) = tree[K][1]
  BY TreeIsGrown
<1>2. PICK vp, J : GrownTree(vp, J, b) /\ MerkleRoot(b) = vp[J][1]
  BY TreeIsGrown
<1>3. K \in Nat /\ J \in Nat
  BY <1>1, <1>2 DEF GrownTree
<1>4. tree[K][1] = vp[J][1]
  BY <1>1, <1>2
<1>5. ~(K < J)
  BY <1>1, <1>2, <1>4, NoDeeper
<1>6. ~(J < K)
  BY <1>1, <1>2, <1>4, NoDeeper
<1>7. J = K
  BY <1>3, <1>5, <1>6
<1>. QED BY <1>1, <1>2, <1>4, <1>7, SameLeaves

-----------------------------------------------------------------------------
(* What is published.                                                       *)

\* The hash a list of entries ends with, and the one before its n-th entry.
LEMMA HeadIs ==
  ASSUME NEW L \in Nat, NEW s, IsList(s, L)
  PROVE  /\ s = <<>> <=> L = 0
         /\ HeadOf(s) = IF L = 0 THEN Genesis ELSE s[L].hash
         /\ \A n \in 1 .. L :
              HeadOf(SubSeq(s, 1, n - 1)) = IF n = 1 THEN Genesis ELSE s[n - 1].hash
<1>. DEFINE S == {s[i] : i \in 1 .. L}
<1>1. \A i \in 1 .. L : s[i] \in S
  OBVIOUS
<1>. HIDE DEF S
<1>2. s \in [1 .. L -> S]
  BY <1>1 DEF IsList
<1>3. s \in Seq(S) /\ Len(s) = L
  BY <1>2, IsSequence
<1>4. s = <<>> <=> L = 0
  BY <1>3, EmptySeq
<1>5. HeadOf(s) = IF L = 0 THEN Genesis ELSE s[L].hash
  BY <1>3, <1>4 DEF HeadOf
<1>6. ASSUME NEW n \in 1 .. L
      PROVE  HeadOf(SubSeq(s, 1, n - 1)) = IF n = 1 THEN Genesis ELSE s[n - 1].hash
  <2>1. CASE n = 1
    <3>1. SubSeq(s, 1, n - 1) = <<>>
      BY <2>1, SubSeqEmpty
    <3>. QED BY <2>1, <3>1 DEF HeadOf
  <2>2. CASE n # 1
    <3>. DEFINE m == n - 1
    <3>1. m \in Int /\ 1 <= m /\ m - 1 + 1 = m /\ 1 + m - 1 = m /\ m \in 1 .. m - 1 + 1 /\ 1 \in Int
          /\ m \in Nat \ {0}
      BY <2>2
    <3>2. \A i \in 1 .. m : s[i] \in S
      BY <1>1
    <3>. HIDE DEF m
    <3>3. /\ SubSeq(s, 1, m) \in Seq(S) /\ Len(SubSeq(s, 1, m)) = m
          /\ SubSeq(s, 1, m)[m] = s[m]
      <4>1. /\ SubSeq(s, 1, m) \in Seq(S)
            /\ Len(SubSeq(s, 1, m)) = IF 1 <= m THEN m - 1 + 1 ELSE 0
            /\ \A i \in 1 .. m - 1 + 1 : SubSeq(s, 1, m)[i] = s[1 + i - 1]
        BY <3>1, <3>2, SubSeqProperties
      <4>. QED BY <3>1, <4>1
    <3>4. SubSeq(s, 1, m) # <<>>
      BY <3>1, <3>3, EmptySeq
    <3>5. HeadOf(SubSeq(s, 1, m)) = s[m].hash
      BY <3>3, <3>4 DEF HeadOf
    <3>. QED BY <2>2, <3>5 DEF m
  <2>. QED BY <2>1, <2>2
<1>. QED BY <1>4, <1>5, <1>6

\* A beginning of the ledger table, as a process holds it or reads it.
Genuine(chain) ==
  /\ Len(chain) \in Nat /\ chain \in Seq(Rows)
  /\ \A n \in 1 .. Len(chain) : n \in DOMAIN ledger /\ chain[n] = ledger[n]

LEMMA ChainsAreGenuine ==
  ASSUME EvidenceInv
  PROVE  /\ \A p \in Processes : Genuine(memory[p])
         /\ Loaded = ledger /\ Genuine(Loaded)
<1>1. LedgerInv
  BY DEF EvidenceInv
<1>2. ASSUME NEW p \in Processes PROVE Genuine(memory[p])
  <2>1. memory[p] \in Seq(Rows)
    BY <1>1 DEF LedgerInv, LTypeOK
  <2>2. Len(memory[p]) \in Nat /\ DOMAIN memory[p] = 1 .. Len(memory[p])
    BY <2>1
  <2>. QED BY <1>1, <2>1, <2>2 DEF LedgerInv, MemoryNeverAhead, Genuine
<1>3. Loaded = ledger /\ Loaded \in Seq(Rows)
  BY <1>1, LoadedIsLedger
<1>4. Len(Loaded) \in Nat /\ DOMAIN Loaded = 1 .. Len(Loaded)
  BY <1>3
<1>. QED BY <1>2, <1>3, <1>4 DEF Genuine

LEMMA GenuineIs ==
  ASSUME EvidenceInv, NEW chain, Genuine(chain)
  PROVE  /\ IsList(chain, Len(chain)) /\ Len(chain) \in Nat /\ DOMAIN chain = 1 .. Len(chain)
         /\ minted \in Nat
         /\ \A n \in 1 .. Len(chain) :
              /\ chain[n] \in Rows /\ chain[n].seq = n /\ chain[n].hash \in 1 .. minted
              /\ chain[n].prev = IF n = 1 THEN Genesis ELSE chain[n - 1].hash
              /\ chain[n].event \in Events /\ chain[n].event # Foreign
         /\ \A m, n \in 1 .. Len(chain) : chain[m].hash = chain[n].hash => m = n
<1>. DEFINE L == Len(chain)
<1>1. LedgerInv /\ minted \in Nat
  BY DEF EvidenceInv, LedgerInv, LTypeOK
<1>2. L \in Nat /\ chain \in Seq(Rows) /\ DOMAIN chain = 1 .. L /\ IsList(chain, L)
  BY DEF Genuine, IsList
<1>3. \A n \in 1 .. L : n \in DOMAIN ledger /\ chain[n] = ledger[n]
  BY DEF Genuine
<1>4. \A n \in 1 .. L : chain[n] \in Rows /\ chain[n].seq = n /\ chain[n].hash \in 1 .. minted
  <2>1. \A s \in DOMAIN ledger : ledger[s] \in Rows /\ ledger[s].seq = s /\ ledger[s].hash \in 1 .. minted
    BY <1>1 DEF EvidenceInv, HashesAreMinted, LedgerInv, LTypeOK, ChainIntact
  <2>. QED BY <2>1, <1>3
<1>5. ASSUME NEW n \in 1 .. L
      PROVE  chain[n].prev = IF n = 1 THEN Genesis ELSE chain[n - 1].hash
  <2>1. ledger[n].prev = IF n = 1 THEN Genesis ELSE ledger[n - 1].hash
    BY <1>1, <1>3 DEF LedgerInv, ChainIntact
  <2>2. n # 1 => n - 1 \in 1 .. L
    BY <1>2
  <2>. QED BY <2>1, <2>2, <1>3
<1>6. \A n \in 1 .. L : chain[n].event \in Events /\ chain[n].event # Foreign
  <2>1. \A event \in Events : event.state \in States \cup {"none"}
    BY DEF Events, Plain
  <2>2. Foreign.state = "foreign"
    BY DEF Foreign
  <2>3. "foreign" \notin States \cup {"none"}
    BY DEF States
  <2>4. Foreign \notin Events
    BY <2>1, <2>2, <2>3
  <2>. QED BY <1>4, <2>4 DEF Rows
<1>7. \A m, n \in 1 .. L : chain[m].hash = chain[n].hash => m = n
  BY <1>3 DEF EvidenceInv, HashesAreMinted
<1>. QED BY <1>1, <1>2, <1>4, <1>5, <1>6, <1>7

\* A beginning of the ledger verifies.
LEMMA GenuineVerifies ==
  ASSUME EvidenceInv, NEW chain, Genuine(chain)
  PROVE  Verified(chain, chain)
<1>. DEFINE L == Len(chain)
<1>1. /\ IsList(chain, L) /\ L \in Nat /\ DOMAIN chain = 1 .. L
      /\ \A n \in 1 .. L :
           /\ chain[n].seq = n
           /\ chain[n].prev = IF n = 1 THEN Genesis ELSE chain[n - 1].hash
  BY GenuineIs
<1>2. \A n \in 1 .. L :
        HeadOf(SubSeq(chain, 1, n - 1)) = IF n = 1 THEN Genesis ELSE chain[n - 1].hash
  BY <1>1, HeadIs
<1>3. ASSUME NEW n \in 1 .. L PROVE ComputeHash(chain[n], chain) = chain[n].hash
  <2>. DEFINE same == {m \in DOMAIN chain : Content(chain[m]) = Content(chain[n])}
  <2>1. n \in same
    BY <1>1
  <2>2. \A m \in same : m = n
    <3>1. \A m \in same : chain[m].seq = chain[n].seq
      BY DEF Content
    <3>. QED BY <3>1, <1>1
  <2>3. (CHOOSE m \in same : TRUE) = n
    BY <2>1, <2>2
  <2>. QED BY <2>1, <2>3 DEF ComputeHash
<1>. QED BY <1>1, <1>2, <1>3 DEF Verified

\* Beginnings of one ledger with one head hash are equal.
LEMMA HeadsAre ==
  ASSUME EvidenceInv, NEW a, NEW b, Genuine(a), Genuine(b)
  PROVE  /\ Len(a) = Len(b) => a = b
         /\ HeadOf(a) = HeadOf(b) => a = b
<1>1. /\ IsList(a, Len(a)) /\ Len(a) \in Nat /\ IsList(b, Len(b)) /\ Len(b) \in Nat
      /\ \A n \in 1 .. Len(a) : a[n].hash \in 1 .. minted
      /\ \A n \in 1 .. Len(b) : b[n].hash \in 1 .. minted
      /\ minted \in Nat
  BY GenuineIs
<1>2. /\ \A n \in 1 .. Len(a) : n \in DOMAIN ledger /\ a[n] = ledger[n]
      /\ \A n \in 1 .. Len(b) : n \in DOMAIN ledger /\ b[n] = ledger[n]
  BY DEF Genuine
<1>3. ASSUME Len(a) = Len(b) PROVE a = b
  BY <1>1, <1>2, <1>3 DEF IsList
<1>4. /\ HeadOf(a) = IF Len(a) = 0 THEN Genesis ELSE a[Len(a)].hash
      /\ HeadOf(b) = IF Len(b) = 0 THEN Genesis ELSE b[Len(b)].hash
  BY <1>1, HeadIs
<1>5. ASSUME HeadOf(a) = HeadOf(b) PROVE Len(a) = Len(b)
  <2>1. CASE Len(a) = 0 \/ Len(b) = 0
    <3>1. Len(a) # 0 => HeadOf(a) # 0
      BY <1>1, <1>4
    <3>2. Len(b) # 0 => HeadOf(b) # 0
      BY <1>1, <1>4
    <3>. QED BY <2>1, <3>1, <3>2, <1>4, <1>5 DEF Genesis
  <2>2. CASE Len(a) # 0 /\ Len(b) # 0
    <3>1. Len(a) \in DOMAIN ledger /\ Len(b) \in DOMAIN ledger
          /\ ledger[Len(a)].hash = ledger[Len(b)].hash
      BY <2>2, <1>1, <1>2, <1>4, <1>5
    <3>. QED BY <3>1 DEF EvidenceInv, HashesAreMinted
  <2>. QED BY <2>1, <2>2
<1>. QED BY <1>3, <1>5

\* ... and so are those with one Merkle root.
LEMMA GenuineIsDistinct ==
  ASSUME EvidenceInv, NEW chain, Genuine(chain)
  PROVE  chain # <<>> => Distinct(chain)
<1>1. /\ IsList(chain, Len(chain)) /\ Len(chain) \in Nat /\ DOMAIN chain = 1 .. Len(chain)
      /\ \A m, n \in 1 .. Len(chain) : chain[m].hash = chain[n].hash => m = n
  BY GenuineIs
<1>2. chain = <<>> <=> Len(chain) = 0
  BY <1>1, HeadIs
<1>. QED BY <1>1, <1>2 DEF Distinct, Genuine

LEMMA SomeRoot ==
  ASSUME NEW chain, Distinct(chain)
  PROVE  MerkleRoot(chain) # <<>>
<1>1. PICK tree, K : GrownTree(tree, K, chain) /\ MerkleRoot(chain) = tree[K][1]
  BY TreeIsGrown
<1>2. K \in Nat /\ Len(chain) \in Nat
  BY <1>1 DEF GrownTree, Distinct
<1>3. CASE K = 0
  <2>1. MerkleRoot(chain) = <<chain[1].hash>>
    BY <1>1, <1>3, LeafIsLeaf DEF GrownTree
  <2>. QED BY <2>1
<1>4. CASE K # 0
  <2>1. K - 1 \in Nat /\ K - 1 \in 0 .. K /\ K \in 1 .. K
    BY <1>2, <1>4
  <2>2. tree[K] = NextLevel(tree[K - 1]) /\ Level(tree[K - 1], K - 1, Len(chain))
    BY <1>1, <2>1 DEF GrownTree
  <2>3. \E x, y : NextLevel(tree[K - 1])[1] = <<x, y>>
    BY <1>2, <2>1, <2>2, FirstIs
  <2>4. \A x, y : <<x, y>> # <<>>
    OBVIOUS
  <2>. QED BY <1>1, <2>2, <2>3, <2>4
<1>. QED BY <1>3, <1>4

LEMMA MerkleRootsAre ==
  ASSUME EvidenceInv, NEW a, NEW b, Genuine(a), Genuine(b), MerkleRoot(a) = MerkleRoot(b)
  PROVE  a = b
<1>1. a # <<>> => Distinct(a) /\ MerkleRoot(a) # <<>>
  BY GenuineIsDistinct, SomeRoot
<1>2. b # <<>> => Distinct(b) /\ MerkleRoot(b) # <<>>
  BY GenuineIsDistinct, SomeRoot
<1>3. MerkleRoot(<<>>) = <<>>
  BY DEF MerkleRoot
<1>4. CASE a = <<>> \/ b = <<>>
  BY <1>1, <1>2, <1>3, <1>4
<1>5. CASE a # <<>> /\ b # <<>>
  <2>1. LeafNodes(a) = LeafNodes(b)
    BY <1>1, <1>2, <1>5, RootsAre
  <2>2. DOMAIN a = DOMAIN b
    <3>1. DOMAIN LeafNodes(a) = DOMAIN a /\ DOMAIN LeafNodes(b) = DOMAIN b
      BY DEF LeafNodes
    <3>. QED BY <2>1, <3>1
  <2>3. Len(a) = Len(b)
    BY <2>2, LenProperties DEF Genuine
  <2>. QED BY <2>3, HeadsAre
<1>. QED BY <1>4, <1>5

\* No damaged copy passes for the ledger.
LEMMA DamageFound ==
  ASSUME EvidenceInv, NEW p \in Processes
  PROVE  DamageIsFound(p)
<1>. DEFINE chain == memory[p]
            L == Len(chain)
            Right(copy) ==
              /\ Verified(copy, chain) => \A n \in DOMAIN copy : n < Len(copy) => copy[n] = chain[n]
              /\ VerifiedAgainst(HeadOf(chain), copy, chain) => copy = chain
<1>0. Genuine(chain)
  BY ChainsAreGenuine
<1>. HIDE DEF chain
<1>1. /\ IsList(chain, L) /\ L \in Nat /\ DOMAIN chain = 1 .. L /\ minted \in Nat
      /\ \A n \in 1 .. L :
           /\ chain[n] \in Rows /\ chain[n].seq = n /\ chain[n].hash \in 1 .. minted
           /\ chain[n].prev = IF n = 1 THEN Genesis ELSE chain[n - 1].hash
           /\ chain[n].event \in Events /\ chain[n].event # Foreign
      /\ \A m, n \in 1 .. L : chain[m].hash = chain[n].hash => m = n
  BY <1>0, GenuineIs
<1>2. HeadOf(chain) = (IF L = 0 THEN Genesis ELSE chain[L].hash) /\ HeadOf(chain) # minted + 1
  <2>1. HeadOf(chain) = IF L = 0 THEN Genesis ELSE chain[L].hash
    BY <1>1, HeadIs
  <2>. QED BY <1>1, <2>1 DEF Genesis
<1>3. ASSUME NEW copy \in Shuffled(chain)
      PROVE  Right(copy)
  <2>1. PICK n \in 0 .. L : copy \in [1 .. n -> Range(chain)]
    BY DEF Shuffled
  <2>2. n \in Nat /\ n <= L /\ Len(copy) = n /\ IsList(copy, n) /\ DOMAIN copy = 1 .. n
    <3>1. n \in Nat /\ n <= L
      BY <1>1
    <3>. QED BY <2>1, <3>1, IsSequence DEF IsList
  <2>3. ASSUME Verified(copy, chain), NEW k \in 1 .. n
        PROVE  copy[k] = chain[k]
    <3>1. PICK j \in 1 .. L : copy[k] = chain[j]
      BY <2>1, <1>1 DEF Range
    <3>2. copy[k].seq = k
      BY <2>2, <2>3 DEF Verified
    <3>. QED BY <3>1, <3>2, <1>1
  <2>4. ASSUME VerifiedAgainst(HeadOf(chain), copy, chain)
        PROVE  copy = chain
    <3>1. Verified(copy, chain) /\ HeadOf(copy) = HeadOf(chain)
      BY <2>4 DEF VerifiedAgainst
    <3>2. HeadOf(copy) = IF n = 0 THEN Genesis ELSE copy[n].hash
      BY <2>2, HeadIs
    <3>3. n = L
      <4>1. CASE n = 0
        <5>1. HeadOf(chain) = 0
          BY <4>1, <3>1, <3>2 DEF Genesis
        <5>2. L # 0 => L \in 1 .. L /\ chain[L].hash \in 1 .. minted
          BY <1>1
        <5>. QED BY <4>1, <5>1, <5>2, <1>1, <1>2
      <4>2. CASE n # 0
        <5>1. n \in 1 .. n /\ n \in 1 .. L /\ L \in 1 .. L /\ L # 0
          BY <4>2, <2>2, <1>1
        <5>2. copy[n] = chain[n]
          BY <5>1, <3>1, <2>3
        <5>3. chain[n].hash = chain[L].hash
          BY <4>2, <5>1, <5>2, <3>1, <3>2, <1>2
        <5>. QED BY <5>1, <5>3, <1>1
      <4>. QED BY <4>1, <4>2
    <3>. QED BY <3>1, <3>3, <2>2, <2>3, <1>1 DEF IsList
  <2>. QED BY <2>2, <2>3, <2>4
<1>4. ASSUME NEW copy \in Edited(chain)
      PROVE  Right(copy)
  <2>1. PICK n \in 1 .. L :
          \/ copy = [chain EXCEPT ![n].event = Foreign]
          \/ copy = [chain EXCEPT ![n].event = Foreign, ![n].hash = minted + 1]
    BY <1>1 DEF Edited
  <2>2. /\ IsList(copy, L) /\ DOMAIN copy = 1 .. L
        /\ \A k \in 1 .. L : k # n => copy[k] = chain[k]
        /\ copy[n].event = Foreign
        /\ copy[n].hash = chain[n].hash \/ copy[n].hash = minted + 1
    <3>1. chain[n] \in Rows
      BY <1>1
    <3>. QED BY <2>1, <3>1, <1>1 DEF IsList, Rows
  <2>3. Len(copy) = L
    BY <2>2, <1>1, ListLength
  <2>4. ASSUME Verified(copy, chain) PROVE n = L /\ copy[n].hash = minted + 1
    <3>1. ComputeHash(copy[n], chain) = minted + 1
      <4>1. \A m \in DOMAIN chain : Content(chain[m]) # Content(copy[n])
        BY <1>1, <2>2 DEF Content
      <4>. QED BY <4>1 DEF ComputeHash
    <3>2. copy[n].hash = minted + 1
      BY <2>2, <2>4, <3>1 DEF Verified
    <3>3. ASSUME n # L PROVE FALSE
      <4>. DEFINE m == n + 1
      <4>1. m \in 1 .. L /\ m # n /\ m # 1 /\ m - 1 = n
        <5>0. L \in Nat
          BY <1>1
        <5>1. n \in Nat /\ 1 <= n /\ n < L
          BY <5>0, <3>3
        <5>. QED BY <5>0, <5>1
      <4>. HIDE DEF m
      <4>2. copy[m].prev = HeadOf(SubSeq(copy, 1, m - 1))
        BY <2>2, <2>4, <4>1 DEF Verified
      <4>3. HeadOf(SubSeq(copy, 1, m - 1)) = copy[n].hash
        BY <1>1, <2>2, <4>1, HeadIs
      <4>4. copy[m].prev = chain[n].hash
        BY <1>1, <2>2, <4>1
      <4>. QED BY <3>2, <4>2, <4>3, <4>4, <1>1
    <3>. QED BY <3>2, <3>3
  <2>5. HeadOf(copy) = copy[L].hash
    BY <1>1, <2>1, <2>2, HeadIs
  <2>6. ~VerifiedAgainst(HeadOf(chain), copy, chain)
    BY <2>4, <2>5, <1>2 DEF VerifiedAgainst
  <2>7. Verified(copy, chain) => \A k \in DOMAIN copy : k < Len(copy) => copy[k] = chain[k]
    BY <2>2, <2>3, <2>4, <1>1
  <2>. QED BY <2>6, <2>7
<1>5. ASSUME NEW copy \in Lengthened(chain)
      PROVE  Right(copy)
  <2>. DEFINE row == [seq |-> L + 1, hash |-> minted + 1, prev |-> HeadOf(chain), event |-> Foreign]
              S == {chain[i] : i \in 1 .. L} \cup {row}
  <2>1. copy = Append(chain, row)
    BY DEF Lengthened
  <2>2. chain \in Seq(S) /\ row \in S
    <3>1. \A i \in 1 .. L : chain[i] \in S
      OBVIOUS
    <3>2. row \in S
      OBVIOUS
    <3>. HIDE DEF S
    <3>3. chain \in [1 .. L -> S]
      BY <1>1, <3>1 DEF IsList
    <3>. QED BY <1>1, <3>2, <3>3, IsSequence
  <2>3. row.hash = minted + 1
    OBVIOUS
  <2>. HIDE DEF row, S
  <2>4. /\ copy \in Seq(S) /\ Len(copy) = L + 1 /\ copy[L + 1] = row
        /\ \A k \in 1 .. L : copy[k] = chain[k]
    BY <1>1, <2>1, <2>2
  <2>5. IsList(copy, L + 1) /\ DOMAIN copy = 1 .. (L + 1)
    BY <1>1, <2>4 DEF IsList
  <2>6. HeadOf(copy) = minted + 1
    <3>1. L + 1 \in Nat /\ L + 1 # 0
      BY <1>1
    <3>. QED BY <3>1, <2>3, <2>4, <2>5, HeadIs
  <2>7. \A k \in DOMAIN copy : k < Len(copy) => copy[k] = chain[k]
    BY <1>1, <2>4, <2>5
  <2>. QED BY <2>6, <2>7, <1>2 DEF VerifiedAgainst
<1>. QED BY <1>3, <1>4, <1>5 DEF DamageIsFound, Copies, chain

\* The journal table shows each entry's last recorded transition.
LEMMA OpenIsCommitted ==
  ASSUME EvidenceInv
  PROVE  {i \in Ids : stored[i].state = "committed"} = LastCommitted
<1>. DEFINE Commit(i) == [entry |-> i, state |-> "committed", journaled |-> TRUE]
<1>0. LedgerInv
  BY DEF EvidenceInv
<1>1. DOMAIN ledger \subseteq Nat \ {0}
  <2>1. PICK n \in Nat : DOMAIN ledger = 1 .. n
    BY <1>0, Segment DEF LedgerInv
  <2>. QED BY <2>1
<1>2. \A s \in DOMAIN ledger :
        ledger[s].event.journaled => stored[ledger[s].event.entry].seq >= s
  BY DEF EvidenceInv, JournalIsLatest
<1>3. \A i \in Ids : stored[i] # NotStored =>
        /\ stored[i].seq \in DOMAIN ledger
        /\ ledger[stored[i].seq].event = [entry |-> i, state |-> stored[i].state, journaled |-> TRUE]
  BY <1>0 DEF LedgerInv, JournalIsBacked
<1>4. ASSUME NEW i \in Ids, stored[i].state = "committed"
      PROVE  i \in LastCommitted
  <2>1. stored[i] # NotStored
    BY <1>4 DEF NotStored
  <2>2. stored[i].seq \in DOMAIN ledger /\ ledger[stored[i].seq].event = Commit(i)
    BY <1>3, <1>4, <2>1
  <2>3. ASSUME NEW r \in DOMAIN ledger, r > stored[i].seq,
               ledger[r].event.entry = i, ledger[r].event.journaled
        PROVE  FALSE
    <3>1. stored[i].seq >= r
      BY <1>2, <2>3
    <3>2. r \in Nat /\ stored[i].seq \in Nat
      BY <1>1, <2>2
    <3>. QED BY <2>3, <3>1, <3>2
  <2>. QED BY <2>2, <2>3 DEF LastCommitted
<1>5. ASSUME NEW i \in LastCommitted
      PROVE  i \in Ids /\ stored[i].state = "committed"
  <2>1. i \in Ids
    BY DEF LastCommitted
  <2>2. PICK s \in DOMAIN ledger :
          /\ ledger[s].event = Commit(i)
          /\ \A r \in DOMAIN ledger : r > s => ~(ledger[r].event.entry = i /\ ledger[r].event.journaled)
    BY DEF LastCommitted
  <2>3. stored[i].seq >= s /\ stored[i].seq \in Nat /\ s \in Nat \ {0}
    <3>1. ledger[s].event.journaled /\ ledger[s].event.entry = i
      BY <2>2
    <3>2. stored[i].seq \in Nat
      BY <2>1, <1>0 DEF LedgerInv, LTypeOK
    <3>. QED BY <1>1, <1>2, <3>1, <3>2
  <2>4. stored[i] # NotStored
    BY <2>3 DEF NotStored
  <2>5. /\ stored[i].seq \in DOMAIN ledger
        /\ ledger[stored[i].seq].event = [entry |-> i, state |-> stored[i].state, journaled |-> TRUE]
    BY <2>1, <2>4, <1>3
  <2>6. ~(stored[i].seq > s)
    BY <2>2, <2>5
  <2>7. stored[i].seq = s
    BY <2>3, <2>6
  <2>. QED BY <2>1, <2>2, <2>5, <2>7
<1>. QED BY <1>4, <1>5 DEF LastCommitted

LEMMA EvidenceHolds ==
  ASSUME EvidenceInv
  PROVE  PublishedHeadsHold
<1>1. ASSUME NEW p \in Processes
      PROVE  Integrity(p, HeadOf(memory[p])).verified /\ DamageIsFound(p)
  <2>1. Verified(memory[p], memory[p])
    BY ChainsAreGenuine, GenuineVerifies
  <2>. QED BY <2>1, DamageFound DEF Integrity
<1>2. ASSUME NEW p \in Processes, NEW q \in Processes
      PROVE  /\ Integrity(p, HeadOf(memory[q])).matches <=> memory[p] = memory[q]
             /\ Checkpoint(p).root = Checkpoint(q).root <=> memory[p] = memory[q]
             /\ Len(memory[p]) <= Len(memory[q]) => IsPrefix(memory[p], memory[q])
  <2>1. Genuine(memory[p]) /\ Genuine(memory[q])
    BY ChainsAreGenuine
  <2>2. HeadOf(memory[q]) = HeadOf(memory[p]) => memory[p] = memory[q]
    BY <2>1, HeadsAre
  <2>3. MerkleRoot(memory[p]) = MerkleRoot(memory[q]) => memory[p] = memory[q]
    BY <2>1, MerkleRootsAre
  <2>4. Len(memory[p]) <= Len(memory[q]) => IsPrefix(memory[p], memory[q])
    <3>. SUFFICES ASSUME Len(memory[p]) <= Len(memory[q])
                  PROVE  SubSeq(memory[p], 1, Len(memory[p])) = SubSeq(memory[q], 1, Len(memory[p]))
      BY DEF IsPrefix
    <3>. DEFINE L == Len(memory[p])
                a == SubSeq(memory[p], 1, L)
                b == SubSeq(memory[q], 1, L)
    <3>1. L \in Nat /\ L <= Len(memory[q]) /\ Len(memory[q]) \in Nat
      BY <2>1 DEF Genuine
    <3>2. /\ \A i \in 1 .. L : memory[p][i] \in Rows /\ memory[q][i] \in Rows /\ memory[p][i] = memory[q][i]
      BY <2>1, <3>1, GenuineIs DEF Genuine
    <3>3. /\ a \in Seq(Rows) /\ Len(a) = (IF 1 <= L THEN L - 1 + 1 ELSE 0)
          /\ \A i \in 1 .. L - 1 + 1 : a[i] = memory[p][1 + i - 1]
      BY <3>1, <3>2, SubSeqProperties
    <3>4. /\ b \in Seq(Rows) /\ Len(b) = (IF 1 <= L THEN L - 1 + 1 ELSE 0)
          /\ \A i \in 1 .. L - 1 + 1 : b[i] = memory[q][1 + i - 1]
      BY <3>1, <3>2, SubSeqProperties
    <3>. HIDE DEF L, a, b
    <3>5. Len(a) = L /\ Len(b) = L
      BY <3>1, <3>3, <3>4
    <3>6. \A i \in 1 .. L : a[i] = b[i]
      BY <3>1, <3>2, <3>3, <3>4
    <3>7. a = b
      <4>1. a = [i \in 1 .. L |-> a[i]] /\ b = [i \in 1 .. L |-> b[i]]
        BY <3>1, <3>3, <3>4, <3>5
      <4>. QED BY <3>6, <4>1, Zenon
    <3>. QED BY <3>7 DEF a, b, L
  <2>. QED BY <2>2, <2>3, <2>4 DEF Integrity, Checkpoint
<1>3. StartupReport.verified /\ StartupReport.open = LastCommitted
  <2>1. Verified(Loaded, Loaded)
    BY ChainsAreGenuine, GenuineVerifies
  <2>. QED BY <2>1, OpenIsCommitted DEF StartupReport
<1>4. ASSUME NEW p \in Processes
      PROVE  StartupReport.entries >= Checkpoint(p).entries
  <2>1. Genuine(memory[p]) /\ Loaded = ledger /\ Genuine(Loaded)
    BY ChainsAreGenuine
  <2>2. /\ Len(memory[p]) \in Nat /\ Len(Loaded) \in Nat /\ DOMAIN ledger = 1 .. Len(Loaded)
        /\ \A n \in 1 .. Len(memory[p]) : n \in DOMAIN ledger
    BY <2>1, LenProperties DEF Genuine
  <2>3. Len(Loaded) >= Len(memory[p])
    <3>1. Len(memory[p]) # 0 => Len(memory[p]) \in 1 .. Len(Loaded)
      BY <2>2
    <3>. QED BY <2>2, <3>1
  <2>. QED BY <2>3 DEF StartupReport, Checkpoint
<1>. QED BY <1>1, <1>2, <1>3, <1>4 DEF PublishedHeadsHold

\* A pack, a checkpoint or a startup report can be relied on, for any number of writers
\* and crashes: it verifies, its head and its Merkle root are of one list of entries,
\* an older one is of a beginning of it, no damaged copy passes for the ledger, and what
\* is open is what was committed last (evidence.py, Ledger.verify_integrity,
\* Ledger.merkle_root, SqliteStore.startup_report).
THEOREM HeadsHold == LSpec => []PublishedHeadsHold
<1>. QED BY EvidenceInvariant, EvidenceHolds, PTL

-----------------------------------------------------------------------------
(* The books of the enforcer.                                              *)

\* The writer's view of the file: the offset lies within it, what it counts is at least
\* the lines, and the file but for what a failed write left, and at most the file and what
\* was there when it was opened; a closed one is full.
WriterInv ==
  /\ ~writer.open => Full
  /\ writer.open =>
       /\ writer.pos <= Len(file) /\ writer.written <= writer.pos + Len(file)
       /\ Lines(file) <= writer.written
       /\ Len(file) <= writer.written + IF writer.broken THEN 1 ELSE 0

EnforcerInv ==
  /\ TypeOK /\ CountersAgree /\ RecentIsKept /\ WriterInv
  /\ since <= Len(kept)
  /\ ~up => /\ InStage({"counted", "journalled", "answered"}) = {}
            /\ counts = NoCounts /\ log = <<>> /\ taken = 0

\* A piece more is a line more, unless it is torn.
LEMMA LinesOf ==
  ASSUME NEW s \in Seq(Pieces)
  PROVE  /\ Lines(s) \in Nat /\ Lines(s) <= Len(s)
         /\ Lines(<<>>) = 0
         /\ \A r \in Requests : Lines(s \o <<r>>) = Lines(s) + 1
         /\ Lines(s \o <<Torn>>) = Lines(s)
         /\ s \o <<>> = s
<1>. DEFINE L(q) == {i \in DOMAIN q : q[i] # Torn}
<1>0. Len(s) \in Nat /\ DOMAIN s = 1 .. Len(s) /\ Torn \notin Requests
  BY EnforcerAssumption
<1>1. IsFiniteSet(1 .. Len(s)) /\ Cardinality(1 .. Len(s)) = Len(s)
  BY <1>0, FS_Interval
<1>2. L(s) \subseteq 1 .. Len(s)
  BY <1>0
<1>3. IsFiniteSet(L(s)) /\ Cardinality(L(s)) \in Nat /\ Cardinality(L(s)) <= Len(s)
  BY <1>1, <1>2, FS_Subset, FS_CardinalityType
<1>4. Lines(<<>>) = 0
  <2>1. L(<<>>) = {}
    OBVIOUS
  <2>2. Lines(<<>>) = Cardinality({})
    BY <2>1 DEF Lines
  <2>. QED BY <2>2, FS_EmptySet
<1>5. ASSUME NEW r \in Requests PROVE Lines(s \o <<r>>) = Lines(s) + 1
  <2>1. L(s \o <<r>>) = L(s) \cup {Len(s) + 1}
    BY <1>0, <1>5
  <2>2. Len(s) + 1 \notin L(s)
    BY <1>0
  <2>. HIDE DEF L
  <2>3. Cardinality(L(s) \cup {Len(s) + 1}) = Cardinality(L(s)) + 1
    BY <1>3, <2>2, FS_AddElement
  <2>. QED BY <2>1, <2>3 DEF Lines, L
<1>6. Lines(s \o <<Torn>>) = Lines(s)
  <2>1. L(s \o <<Torn>>) = L(s)
    BY <1>0
  <2>. QED BY <2>1 DEF Lines, L
<1>7. s \o <<>> = s
  OBVIOUS
<1>. QED BY <1>3, <1>4, <1>5, <1>6, <1>7 DEF Lines, L

\* A request that moves on to another stage.
LEMMA StageMoves ==
  ASSUME TypeOK, NEW r \in Requests, NEW x, served' = [served EXCEPT ![r] = x],
         NEW stages
  PROVE  /\ IsFiniteSet(InStage(stages)) /\ Cardinality(InStage(stages)) \in Nat
         /\ x.stage \in stages /\ served[r].stage \in stages =>
              InStage(stages)' = InStage(stages)
         /\ x.stage \notin stages /\ served[r].stage \notin stages =>
              InStage(stages)' = InStage(stages)
         /\ x.stage \in stages /\ served[r].stage \notin stages =>
              Cardinality(InStage(stages)') = Cardinality(InStage(stages)) + 1
<1>0. /\ served \in [Requests -> [stage : {"new", "counted", "journalled", "answered", "lost", "before"},
                              allowed : BOOLEAN, index : Int]]
      /\ IsFiniteSet(Requests)
  BY EnforcerAssumption DEF TypeOK
<1>1. InStage(stages) \subseteq Requests
  BY DEF InStage
<1>2. IsFiniteSet(InStage(stages)) /\ Cardinality(InStage(stages)) \in Nat
  BY <1>0, <1>1, FS_Subset, FS_CardinalityType
<1>3. \A q \in Requests : served'[q] = IF q = r THEN x ELSE served[q]
  BY <1>0
<1>4. InStage(stages)' = {q \in Requests : (IF q = r THEN x ELSE served[q]).stage \in stages}
  BY <1>3 DEF InStage
<1>5. ASSUME x.stage \in stages, served[r].stage \notin stages
      PROVE  Cardinality(InStage(stages)') = Cardinality(InStage(stages)) + 1
  <2>1. InStage(stages)' = InStage(stages) \cup {r} /\ r \notin InStage(stages)
    BY <1>4, <1>5 DEF InStage
  <2>. QED BY <1>2, <2>1, FS_AddElement
<1>6. ASSUME x.stage \in stages <=> served[r].stage \in stages
      PROVE  InStage(stages)' = InStage(stages)
  BY <1>4, <1>6 DEF InStage
<1>. QED BY <1>2, <1>5, <1>6

\* The last entries of t are s.
IsEnd(s, t) == Len(s) <= Len(t) /\ \A i \in 1 .. Len(s) : s[i] = t[Len(t) - Len(s) + i]

LEMMA EndIs ==
  ASSUME NEW s \in Seq(Pieces), NEW t \in Seq(Pieces)
  PROVE  IsEnd(s, t) <=> Len(s) <= Len(t) /\ s = SubSeq(t, Len(t) - Len(s) + 1, Len(t))
<1>. DEFINE u == SubSeq(t, Len(t) - Len(s) + 1, Len(t))
<1>1. SUFFICES ASSUME Len(s) <= Len(t)
               PROVE  (\A i \in 1 .. Len(s) : s[i] = t[Len(t) - Len(s) + i]) <=> s = u
  BY DEF IsEnd
<1>2. Len(s) \in Nat /\ Len(t) \in Nat
  OBVIOUS
<1>3. /\ u \in Seq(Pieces) /\ Len(u) = Len(s)
      /\ \A i \in 1 .. Len(s) : u[i] = t[Len(t) - Len(s) + i]
  <2>1. \A i \in Len(t) - Len(s) + 1 .. Len(t) : t[i] \in Pieces
    BY <1>1, <1>2
  <2>2. /\ u \in Seq(Pieces)
        /\ Len(u) = IF Len(t) - Len(s) + 1 <= Len(t) THEN Len(t) - (Len(t) - Len(s) + 1) + 1 ELSE 0
        /\ \A i \in 1 .. Len(t) - (Len(t) - Len(s) + 1) + 1 : u[i] = t[(Len(t) - Len(s) + 1) + i - 1]
    BY <1>1, <1>2, <2>1, SubSeqProperties
  <2>. HIDE DEF u
  <2>3. Len(u) = Len(s)
    BY <1>1, <1>2, <2>2
  <2>4. Len(t) - (Len(t) - Len(s) + 1) + 1 = Len(s)
    BY <1>2
  <2>5. \A i \in 1 .. Len(s) : u[i] = t[Len(t) - Len(s) + i]
    <3>1. \A i \in 1 .. Len(s) : (Len(t) - Len(s) + 1) + i - 1 = Len(t) - Len(s) + i
      BY <1>2
    <3>. QED BY <2>2, <2>4, <3>1
  <2>. QED BY <2>2, <2>3, <2>5
<1>. HIDE DEF u
<1>4. ASSUME \A i \in 1 .. Len(s) : s[i] = u[i] PROVE s = u
  <2>1. s = [i \in 1 .. Len(s) |-> s[i]] /\ u = [i \in 1 .. Len(s) |-> u[i]]
    BY <1>3
  <2>. QED BY <1>4, <2>1, Zenon
<1>. QED BY <1>3, <1>4

\* What stands at the end still does when both grow by the same, or what stands before
\* it is left out.
LEMMA EndGrows ==
  ASSUME NEW s \in Seq(Pieces), NEW t \in Seq(Pieces), NEW p \in Seq(Pieces), IsEnd(s, t)
  PROVE  IsEnd(s \o p, t \o p)
<1>1. /\ Len(s) \in Nat /\ Len(t) \in Nat /\ Len(p) \in Nat /\ Len(s) <= Len(t)
      /\ \A i \in 1 .. Len(s) : s[i] = t[Len(t) - Len(s) + i]
  BY DEF IsEnd
<1>2. /\ Len(s \o p) = Len(s) + Len(p) /\ Len(t \o p) = Len(t) + Len(p)
      /\ \A i \in 1 .. Len(s) + Len(p) :
           (s \o p)[i] = IF i <= Len(s) THEN s[i] ELSE p[i - Len(s)]
      /\ \A i \in 1 .. Len(t) + Len(p) :
           (t \o p)[i] = IF i <= Len(t) THEN t[i] ELSE p[i - Len(t)]
  BY ConcatProperties
<1>. DEFINE d == Len(t) - Len(s)
<1>3. d \in Nat /\ Len(t \o p) - Len(s \o p) = d /\ Len(t) = Len(s) + d
  BY <1>1, <1>2
<1>. HIDE DEF d
<1>4. ASSUME NEW i \in 1 .. Len(s) + Len(p)
      PROVE  (s \o p)[i] = (t \o p)[d + i]
  <2>1. d + i \in 1 .. Len(t) + Len(p) /\ (d + i <= Len(t) <=> i <= Len(s)) /\ (d + i) - Len(t) = i - Len(s)
    BY <1>1, <1>3
  <2>2. i <= Len(s) => s[i] = t[d + i]
    <3>1. \A j \in 1 .. Len(s) : s[j] = t[d + j]
      BY <1>1 DEF d
    <3>. QED BY <1>1, <3>1
  <2>3. /\ (s \o p)[i] = IF i <= Len(s) THEN s[i] ELSE p[i - Len(s)]
        /\ (t \o p)[d + i] = IF d + i <= Len(t) THEN t[d + i] ELSE p[(d + i) - Len(t)]
    BY <1>2, <2>1
  <2>. QED BY <2>1, <2>2, <2>3
<1>5. Len(s \o p) <= Len(t \o p)
  BY <1>1, <1>2
<1>6. \A i \in 1 .. Len(s \o p) : (s \o p)[i] = (t \o p)[Len(t \o p) - Len(s \o p) + i]
  BY <1>2, <1>3, <1>4
<1>. QED BY <1>5, <1>6 DEF IsEnd

LEMMA EndOfEnd ==
  ASSUME NEW a \in Seq(Pieces), NEW b \in Seq(Pieces), NEW t \in Seq(Pieces), IsEnd(a \o b, t)
  PROVE  IsEnd(b, t)
<1>1. /\ Len(a) \in Nat /\ Len(b) \in Nat /\ Len(t) \in Nat
      /\ Len(a \o b) = Len(a) + Len(b) /\ Len(a \o b) <= Len(t)
      /\ \A i \in 1 .. Len(a) + Len(b) :
           (a \o b)[i] = IF i <= Len(a) THEN a[i] ELSE b[i - Len(a)]
      /\ \A i \in 1 .. Len(a) + Len(b) : (a \o b)[i] = t[Len(t) - (Len(a) + Len(b)) + i]
  BY ConcatProperties DEF IsEnd
<1>2. ASSUME NEW i \in 1 .. Len(b)
      PROVE  b[i] = t[Len(t) - Len(b) + i]
  <2>1. /\ Len(a) + i \in 1 .. Len(a) + Len(b) /\ ~(Len(a) + i <= Len(a)) /\ (Len(a) + i) - Len(a) = i
        /\ Len(t) - (Len(a) + Len(b)) + (Len(a) + i) = Len(t) - Len(b) + i
    BY <1>1
  <2>2. (a \o b)[Len(a) + i] = b[i]
    BY <1>1, <2>1
  <2>. QED BY <1>1, <2>1, <2>2
<1>3. Len(b) <= Len(t)
  BY <1>1
<1>. QED BY <1>2, <1>3 DEF IsEnd

\* What is added after the first n entries.
LEMMA TailGrows ==
  ASSUME NEW s \in Seq(Pieces), NEW p \in Seq(Pieces), NEW n \in Nat, n <= Len(s)
  PROVE  /\ SubSeq(s, n + 1, Len(s)) \in Seq(Pieces)
         /\ SubSeq(s \o p, n + 1, Len(s \o p)) = SubSeq(s, n + 1, Len(s)) \o p
<1>. DEFINE t == s \o p
            u == SubSeq(s, n + 1, Len(s))
            v == SubSeq(t, n + 1, Len(t))
            w == u \o p
<1>1. /\ Len(s) \in Nat /\ Len(p) \in Nat /\ t \in Seq(Pieces) /\ Len(t) = Len(s) + Len(p)
      /\ \A i \in 1 .. Len(s) + Len(p) : t[i] = IF i <= Len(s) THEN s[i] ELSE p[i - Len(s)]
  BY ConcatProperties
<1>. HIDE DEF t
<1>2. /\ u \in Seq(Pieces) /\ Len(u) = Len(s) - n
      /\ \A i \in 1 .. Len(s) - n : u[i] = s[n + i]
  <2>1. \A i \in n + 1 .. Len(s) : s[i] \in Pieces
    BY <1>1
  <2>2. /\ u \in Seq(Pieces)
        /\ Len(u) = IF n + 1 <= Len(s) THEN Len(s) - (n + 1) + 1 ELSE 0
        /\ \A i \in 1 .. Len(s) - (n + 1) + 1 : u[i] = s[n + 1 + i - 1]
    BY <1>1, <2>1, SubSeqProperties
  <2>. HIDE DEF u
  <2>3. Len(s) - (n + 1) + 1 = Len(s) - n /\ \A i \in Nat : n + 1 + i - 1 = n + i
    BY <1>1
  <2>5. \A i \in 1 .. Len(s) - n : u[i] = s[n + 1 + i - 1]
    BY <2>2, <2>3
  <2>4. Len(u) = Len(s) - n
    BY <1>1, <2>2
  <2>6. \A i \in 1 .. Len(s) - n : i \in Nat
    OBVIOUS
  <2>. QED BY <2>2, <2>3, <2>4, <2>5, <2>6
<1>3. /\ v \in Seq(Pieces) /\ Len(v) = Len(t) - n
      /\ \A i \in 1 .. Len(t) - n : v[i] = t[n + i]
  <2>0. Len(t) \in Nat /\ n <= Len(t)
    BY <1>1
  <2>1. \A i \in n + 1 .. Len(t) : t[i] \in Pieces
    BY <1>1
  <2>2. /\ v \in Seq(Pieces)
        /\ Len(v) = IF n + 1 <= Len(t) THEN Len(t) - (n + 1) + 1 ELSE 0
        /\ \A i \in 1 .. Len(t) - (n + 1) + 1 : v[i] = t[n + 1 + i - 1]
    BY <1>1, <2>0, <2>1, SubSeqProperties
  <2>. HIDE DEF v
  <2>3. Len(t) - (n + 1) + 1 = Len(t) - n /\ \A i \in Nat : n + 1 + i - 1 = n + i
    BY <2>0
  <2>5. \A i \in 1 .. Len(t) - n : v[i] = t[n + 1 + i - 1]
    BY <2>2, <2>3
  <2>4. Len(v) = Len(t) - n
    BY <2>0, <2>2
  <2>6. \A i \in 1 .. Len(t) - n : i \in Nat
    OBVIOUS
  <2>. QED BY <2>2, <2>3, <2>4, <2>5, <2>6
<1>. HIDE DEF u, v
<1>4. /\ w \in Seq(Pieces) /\ Len(w) = Len(u) + Len(p)
      /\ \A i \in 1 .. Len(u) + Len(p) : w[i] = IF i <= Len(u) THEN u[i] ELSE p[i - Len(u)]
  BY <1>2, ConcatProperties
<1>. HIDE DEF w
<1>5. Len(v) = Len(w)
  BY <1>1, <1>2, <1>3, <1>4
<1>6. ASSUME NEW i \in 1 .. Len(w) PROVE v[i] = w[i]
  <2>1. /\ i \in 1 .. Len(u) + Len(p) /\ i \in 1 .. Len(t) - n /\ n + i \in 1 .. Len(s) + Len(p)
        /\ (i <= Len(u) <=> n + i <= Len(s)) /\ (n + i) - Len(s) = i - Len(u)
        /\ (i <= Len(u) => i \in 1 .. Len(s) - n)
    BY <1>1, <1>2, <1>4
  <2>2. v[i] = IF n + i <= Len(s) THEN s[n + i] ELSE p[(n + i) - Len(s)]
    BY <1>1, <1>3, <2>1
  <2>3. w[i] = IF i <= Len(u) THEN u[i] ELSE p[i - Len(u)]
    BY <1>4, <2>1
  <2>4. i <= Len(u) => u[i] = s[n + i]
    BY <1>2, <2>1
  <2>. QED BY <2>1, <2>2, <2>3, <2>4
<1>7. v = w
  <2>1. v = [i \in 1 .. Len(w) |-> v[i]] /\ w = [i \in 1 .. Len(w) |-> w[i]]
    BY <1>3, <1>4, <1>5
  <2>. QED BY <1>6, <2>1, Zenon
<1>. QED BY <1>2, <1>7 DEF t, u, v, w

LEMMA Associative ==
  ASSUME NEW a \in Seq(Pieces), NEW b \in Seq(Pieces), NEW c \in Seq(Pieces)
  PROVE  (a \o b) \o c = a \o (b \o c)
BY ConcatAssociative

Onward == previous \o file

\* RecentIsKept, by index.
LEMMA RecentIs ==
  ASSUME TypeOK
  PROVE  /\ Onward \in Seq(Pieces) /\ Len(Onward) = Len(previous) + Len(file)
         /\ RecentIsKept <=>
              /\ IsEnd(Onward, kept)
              /\ 2 * Len(Onward) >= MaxSize \/ Len(Onward) = Len(kept)
              /\ Lines(file) <= MaxSize /\ Lines(previous) <= MaxSize
<1>1. Onward \in Seq(Pieces) /\ Len(Onward) = Len(previous) + Len(file)
  BY DEF TypeOK, Onward
<1>2. IsEnd(Onward, kept) <=>
        Len(Onward) <= Len(kept) /\ Onward = SubSeq(kept, Len(kept) - Len(Onward) + 1, Len(kept))
  BY <1>1, EndIs DEF TypeOK
<1>. QED BY <1>1, <1>2 DEF RecentIsKept, Onward

\* Where a line goes: the file, or the one that begins when a full one was moved aside.
Base == IF Full THEN <<>> ELSE file

\* A write keeps the end of what was written, and is counted on top of it.
LEMMA WriteKeeps ==
  ASSUME TypeOK, RecentIsKept, WriterInv, since <= Len(kept),
         NEW pieces \in Seq(Pieces), Write(pieces), Lines(Base \o pieces) <= MaxSize
  PROVE  /\ file' \in Seq(Pieces) /\ previous' \in Seq(Pieces) /\ kept' \in Seq(Pieces)
         /\ since <= Len(kept')
         /\ IsEnd(previous' \o file', kept')
         /\ 2 * (Len(previous') + Len(file')) >= MaxSize \/ Len(previous') + Len(file') = Len(kept')
         /\ Lines(file') <= MaxSize /\ Lines(previous') <= MaxSize
<1>0. /\ file \in Seq(Pieces) /\ previous \in Seq(Pieces) /\ kept \in Seq(Pieces)
      /\ writer \in [open : BOOLEAN, broken : BOOLEAN, pos : Nat, written : Nat, dropped : Nat]
      /\ MaxSize \in Nat \ {0} /\ since \in Nat
      /\ Len(pieces) \in Nat /\ Len(kept) \in Nat /\ Len(file) \in Nat /\ Len(previous) \in Nat
  BY EnforcerAssumption DEF TypeOK
<1>1. /\ IsEnd(previous \o file, kept)
      /\ 2 * (Len(previous) + Len(file)) >= MaxSize \/ Len(previous) + Len(file) = Len(kept)
      /\ Lines(file) <= MaxSize /\ Lines(previous) <= MaxSize
  BY RecentIs DEF Onward
<1>2. kept' = kept \o pieces /\ Len(kept') = Len(kept) + Len(pieces) /\ kept' \in Seq(Pieces)
  BY <1>0 DEF Write
<1>3. file' = Base \o pieces
  BY DEF Write, Base
<1>4. CASE Full
  <2>1. writer.open /\ file' = pieces /\ previous' = file
    BY <1>0, <1>3, <1>4 DEF Write, Replacing, Base
  <2>2. IsEnd(file \o pieces, kept \o pieces)
    BY <1>0, <1>1, EndOfEnd, EndGrows
  <2>3. writer.pos <= Len(file) /\ writer.written <= writer.pos + Len(file) /\ writer.written >= MaxSize
    BY <1>4, <2>1 DEF WriterInv, Full
  <2>4. writer.pos \in Nat /\ writer.written \in Nat
    BY <1>0
  <2>5. 2 * (Len(file) + Len(pieces)) >= MaxSize
    BY <1>0, <2>3, <2>4
  <2>6. Lines(pieces) <= MaxSize
    BY <1>0, <1>3, <2>1
  <2>7. since <= Len(kept) + Len(pieces)
    BY <1>0
  <2>. QED BY <1>0, <1>1, <1>2, <2>1, <2>2, <2>5, <2>6, <2>7
<1>5. CASE ~Full
  <2>1. file' = file \o pieces /\ previous' = previous /\ Len(file') = Len(file) + Len(pieces)
        /\ file' \in Seq(Pieces)
    BY <1>0, <1>3, <1>5 DEF Write, Base
  <2>2. IsEnd((previous \o file) \o pieces, kept \o pieces)
    <3>1. previous \o file \in Seq(Pieces)
      BY <1>0
    <3>. QED BY <1>0, <1>1, <3>1, EndGrows
  <2>3. (previous \o file) \o pieces = previous \o (file \o pieces)
    BY <1>0, Associative
  <2>4. \/ 2 * (Len(previous) + (Len(file) + Len(pieces))) >= MaxSize
        \/ Len(previous) + (Len(file) + Len(pieces)) = Len(kept) + Len(pieces)
    <3>1. MaxSize \in Nat
      BY <1>0
    <3>2. CASE 2 * (Len(previous) + Len(file)) >= MaxSize
      <4>1. \A a, b, c, m \in Nat : 2 * (a + b) >= m => 2 * (a + (b + c)) >= m
        OBVIOUS
      <4>. QED BY <1>0, <3>1, <3>2, <4>1
    <3>3. CASE Len(previous) + Len(file) = Len(kept)
      <4>. DEFINE a == Len(previous)
                  b == Len(file)
                  c == Len(pieces)
                  d == Len(kept)
      <4>1. a \in Nat /\ b \in Nat /\ c \in Nat /\ d \in Nat /\ a + b = d
        BY <1>0, <3>3
      <4>. HIDE DEF a, b, c, d
      <4>2. a + (b + c) = d + c
        BY <4>1
      <4>. QED BY <4>2 DEF a, b, c, d
    <3>. QED BY <1>1, <3>2, <3>3
  <2>5. since <= Len(kept) + Len(pieces)
    BY <1>0
  <2>6. IsEnd(previous \o (file \o pieces), kept \o pieces)
    BY <2>2, <2>3
  <2>7. Len(previous') + Len(file') = Len(previous) + (Len(file) + Len(pieces))
    BY <2>1
  <2>8. IsEnd(previous' \o file', kept')
    BY <1>2, <2>1, <2>6
  <2>9. \/ 2 * (Len(previous') + Len(file')) >= MaxSize
        \/ Len(previous') + Len(file') = Len(kept')
    BY <1>2, <2>4, <2>7
  <2>a. Lines(file') <= MaxSize /\ Lines(previous') <= MaxSize
    BY <1>1, <1>3, <2>1
  <2>b. previous' \in Seq(Pieces) /\ since <= Len(kept')
    BY <1>0, <1>2, <2>1, <2>5
  <2>. QED BY <1>2, <2>1, <2>8, <2>9, <2>a, <2>b
<1>. QED BY <1>4, <1>5

\* What is written begins where the writer left the file.
LEMMA WriterStep ==
  ASSUME TypeOK, RecentIsKept, WriterInv, NEW pieces \in Seq(Pieces), Write(pieces)
  PROVE  /\ Base \in Seq(Pieces) /\ Lines(Base) \in Nat /\ Len(Base) \in Nat
         /\ file' = Base \o pieces /\ Len(file') = Len(Base) + Len(pieces) /\ file' \in Seq(Pieces)
         /\ writer.open /\ Rotated.open
         /\ Rotated \in [open : BOOLEAN, broken : BOOLEAN, pos : Nat, written : Nat, dropped : Nat]
         /\ Rotated.dropped = writer.dropped
         /\ Rotated.pos <= Len(Base) /\ Rotated.written <= Rotated.pos + Len(Base)
         /\ Lines(Base) <= Rotated.written /\ Rotated.written < MaxSize
         /\ ~Rotated.broken => Len(Base) <= Rotated.written
<1>0. /\ file \in Seq(Pieces) /\ <<>> \in Seq(Pieces) /\ Len(<<>>) = 0 /\ Lines(<<>>) = 0
      /\ writer \in [open : BOOLEAN, broken : BOOLEAN, pos : Nat, written : Nat, dropped : Nat]
      /\ MaxSize \in Nat \ {0}
  BY EnforcerAssumption, LinesOf DEF TypeOK
<1>1. Base \in Seq(Pieces) /\ file' = Base \o pieces
  BY <1>0 DEF Base, Write
<1>2. Lines(Base) \in Nat /\ Len(Base) \in Nat
  BY <1>1, LinesOf
<1>3. file' \in Seq(Pieces) /\ Len(file') = Len(Base) + Len(pieces)
  BY <1>1
<1>4. writer.open
  BY <1>0 DEF WriterInv, Write
<1>5. CASE Full
  <2>1. Rotated = [writer EXCEPT !.broken = FALSE, !.pos = 0, !.written = 0] /\ Base = <<>>
    BY <1>5 DEF Rotated, Base
  <2>2. /\ Rotated.open = writer.open /\ Rotated.dropped = writer.dropped
        /\ Rotated.pos = 0 /\ Rotated.written = 0
        /\ Rotated \in [open : BOOLEAN, broken : BOOLEAN, pos : Nat, written : Nat, dropped : Nat]
    BY <1>0, <2>1
  <2>. QED BY <1>0, <1>1, <1>2, <1>3, <1>4, <2>1, <2>2
<1>6. CASE ~Full
  <2>1. Rotated = writer /\ Base = file
    BY <1>6 DEF Rotated, Base
  <2>2. writer.written < MaxSize
    BY <1>0, <1>6 DEF Full
  <2>3. /\ writer.pos <= Len(file) /\ writer.written <= writer.pos + Len(file)
        /\ Lines(file) <= writer.written /\ (~writer.broken => Len(file) <= writer.written)
    <3>1. /\ writer.pos <= Len(file) /\ writer.written <= writer.pos + Len(file)
          /\ Lines(file) <= writer.written
          /\ Len(file) <= writer.written + IF writer.broken THEN 1 ELSE 0
      BY <1>4 DEF WriterInv
    <3>2. ~writer.broken => Len(file) <= writer.written + 0
      BY <3>1
    <3>. QED BY <1>0, <3>1, <3>2
  <2>. QED BY <1>0, <1>1, <1>2, <1>3, <1>4, <2>1, <2>2, <2>3
<1>. QED BY <1>5, <1>6

Handed == taken = writer.dropped + Lines(SubSeq(kept, since + 1, Len(kept)))

BooksOf ==
  /\ file \in Seq(Pieces) /\ previous \in Seq(Pieces) /\ kept \in Seq(Pieces)
  /\ writer \in [open : BOOLEAN, broken : BOOLEAN, pos : Nat, written : Nat, dropped : Nat]
  /\ taken \in Nat /\ since \in Nat
  /\ RecentIsKept /\ WriterInv /\ since <= Len(kept) /\ Handed

\* Append, whatever becomes of the line, keeps the books of the journal.
LEMMA JournalStep ==
  ASSUME TypeOK, RecentIsKept, WriterInv, since <= Len(kept), Handed, NEW r \in Requests,
         JournalAppend(r) \/ EncodeFails(r) \/ StillBroken(r) \/ RotateFails(r)
  PROVE  BooksOf'
<1>0. /\ file \in Seq(Pieces) /\ previous \in Seq(Pieces) /\ kept \in Seq(Pieces)
      /\ writer \in [open : BOOLEAN, broken : BOOLEAN, pos : Nat, written : Nat, dropped : Nat]
      /\ taken \in Nat /\ since \in Nat /\ Len(kept) \in Nat /\ Len(file) \in Nat
      /\ MaxSize \in Nat \ {0}
  BY EnforcerAssumption DEF TypeOK
<1>1. taken' = taken + 1 /\ since' = since
  BY DEF JournalAppend, EncodeFails, StillBroken, RotateFails, life
<1>2. SubSeq(kept, since + 1, Len(kept)) \in Seq(Pieces)
  <2>1. <<>> \in Seq(Pieces)
    OBVIOUS
  <2>. QED BY <1>0, <2>1, TailGrows
<1>. DEFINE own == SubSeq(kept, since + 1, Len(kept))
            w == writer'
<1>3. Lines(own) \in Nat
  BY <1>2, LinesOf
<1>4. ASSUME NEW pieces \in Seq(Pieces), Write(pieces),
             Lines(Base \o pieces) = Lines(Base) + Lines(pieces),
             Lines(own \o pieces) = Lines(own) + Lines(pieces),
             Lines(pieces) \in 0 .. 1, Lines(pieces) <= Len(pieces),
             w \in [open : BOOLEAN, broken : BOOLEAN, pos : Nat, written : Nat, dropped : Nat], w.open,
             w.pos <= Len(file'), w.written <= w.pos + Len(file'),
             Len(file') <= w.written + IF w.broken THEN 1 ELSE 0,
             Lines(Base) + Lines(pieces) <= w.written,
             w.dropped + Lines(pieces) = writer.dropped + 1
      PROVE  BooksOf'
  <2>1. /\ Base \in Seq(Pieces) /\ Lines(Base) \in Nat /\ Len(Base) \in Nat
        /\ file' = Base \o pieces
        /\ Lines(Base) <= Rotated.written /\ Rotated.written < MaxSize
        /\ Rotated.written \in Nat
    <3>1. /\ Base \in Seq(Pieces) /\ Lines(Base) \in Nat /\ Len(Base) \in Nat
          /\ file' = Base \o pieces
          /\ Lines(Base) <= Rotated.written /\ Rotated.written < MaxSize
          /\ Rotated \in [open : BOOLEAN, broken : BOOLEAN, pos : Nat, written : Nat, dropped : Nat]
      BY <1>4, WriterStep, Zenon
    <3>. QED BY <3>1
  <2>2. Lines(Base \o pieces) <= MaxSize
    <3>1. Lines(Base \o pieces) = Lines(Base) + Lines(pieces) /\ Lines(pieces) \in 0 .. 1
      BY <1>4
    <3>2. MaxSize \in Nat
      BY <1>0
    <3>3. Lines(Base) \in Nat /\ Lines(Base) < MaxSize
      BY <2>1, <3>2
    <3>. QED BY <3>1, <3>2, <3>3
  <2>3. /\ file' \in Seq(Pieces) /\ previous' \in Seq(Pieces) /\ kept' \in Seq(Pieces)
        /\ since <= Len(kept')
        /\ IsEnd(previous' \o file', kept')
        /\ 2 * (Len(previous') + Len(file')) >= MaxSize \/ Len(previous') + Len(file') = Len(kept')
        /\ Lines(file') <= MaxSize /\ Lines(previous') <= MaxSize
    BY <1>4, <2>2, WriteKeeps
  <2>4. SubSeq(kept', since' + 1, Len(kept')) = own \o pieces
    BY <1>0, <1>1, <1>4, TailGrows DEF Write
  <2>5. Handed'
    <3>1. taken' = w.dropped + Lines(own \o pieces)
      <4>1. taken = writer.dropped + Lines(own)
        BY DEF Handed
      <4>2. w.dropped \in Nat /\ writer.dropped \in Nat
        BY <1>0, <1>4
      <4>. HIDE DEF own, w
      <4>3. Lines(pieces) \in Nat /\ Lines(own \o pieces) = Lines(own) + Lines(pieces)
            /\ w.dropped + Lines(pieces) = writer.dropped + 1
        BY <1>4
      <4>. DEFINE a == writer.dropped
                  b == w.dropped
                  c == Lines(pieces)
                  d == Lines(own)
      <4>4. a \in Nat /\ b \in Nat /\ c \in Nat /\ d \in Nat /\ b + c = a + 1
        BY <1>3, <4>2, <4>3
      <4>5. taken' = a + d + 1 /\ Lines(own \o pieces) = d + c
        BY <1>1, <4>1, <4>3
      <4>. HIDE DEF a, b, c, d
      <4>6. a + d + 1 = b + (d + c)
        BY <4>4
      <4>. QED BY <4>5, <4>6 DEF b
    <3>. QED BY <2>4, <3>1 DEF Handed
  <2>6. WriterInv'
    BY <1>4, <2>1 DEF WriterInv
  <2>7. RecentIsKept'
    <3>. DEFINE o == previous' \o file'
                k == kept'
    <3>1. o \in Seq(Pieces) /\ k \in Seq(Pieces) /\ Len(o) = Len(previous') + Len(file') /\ IsEnd(o, k)
      BY <2>3
    <3>. HIDE DEF o, k
    <3>2. Len(o) <= Len(k) /\ o = SubSeq(k, Len(k) - Len(o) + 1, Len(k))
      BY <3>1, EndIs
    <3>3. 2 * Len(o) >= MaxSize \/ Len(o) = Len(k)
      BY <2>3, <3>1 DEF k
    <3>. QED BY <2>3, <3>2, <3>3 DEF RecentIsKept, o, k
  <2>. QED BY <1>0, <1>1, <1>4, <2>3, <2>5, <2>6, <2>7 DEF BooksOf
<1>5. CASE JournalAppend(r)
  <2>1. Write(<<r>>) /\ w = Advanced(Rotated, file') /\ <<r>> \in Seq(Pieces) /\ Len(<<r>>) = 1
    BY <1>5 DEF JournalAppend, Pieces
  <2>2. /\ Base \in Seq(Pieces) /\ Lines(Base) \in Nat /\ Len(Base) \in Nat
        /\ Len(file') = Len(Base) + 1
        /\ Rotated.open /\ Rotated.dropped = writer.dropped
        /\ Rotated \in [open : BOOLEAN, broken : BOOLEAN, pos : Nat, written : Nat, dropped : Nat]
        /\ Rotated.pos <= Len(Base) /\ Rotated.written <= Rotated.pos + Len(Base)
        /\ Lines(Base) <= Rotated.written /\ ~Rotated.broken /\ Len(Base) <= Rotated.written
    <3>1. ~Rotated.broken
      BY <1>5 DEF JournalAppend
    <3>. QED BY <2>1, <3>1, WriterStep
  <2>3. /\ w.open /\ w.pos = Len(Base) + 1 /\ w.dropped = writer.dropped /\ ~w.broken
        /\ w.written = Rotated.written + (Len(Base) + 1) - Rotated.pos
        /\ w = [open |-> TRUE, broken |-> FALSE, pos |-> w.pos, written |-> w.written, dropped |-> w.dropped]
    BY <2>1, <2>2 DEF Advanced
  <2>4. /\ Rotated.written \in Nat /\ Rotated.pos \in Nat /\ writer.dropped \in Nat
    BY <1>0, <2>2
  <2>. HIDE DEF w
  <2>5. /\ w.written \in Nat /\ w.written <= w.pos + Len(file') /\ Lines(Base) + 1 <= w.written
        /\ w.pos \in Nat /\ w.pos <= Len(file') /\ w.dropped \in Nat /\ w.dropped + 1 = writer.dropped + 1
        /\ Len(file') <= w.written + 0
    BY <2>2, <2>3, <2>4
  <2>6. w \in [open : BOOLEAN, broken : BOOLEAN, pos : Nat, written : Nat, dropped : Nat]
    <3>1. w = [open |-> TRUE, broken |-> FALSE, pos |-> w.pos, written |-> w.written, dropped |-> w.dropped]
      BY <2>3
    <3>2. w.pos \in Nat /\ w.written \in Nat /\ w.dropped \in Nat
      BY <2>5
    <3>3. \A p, q, d \in Nat :
            [open |-> TRUE, broken |-> FALSE, pos |-> p, written |-> q, dropped |-> d]
              \in [open : BOOLEAN, broken : BOOLEAN, pos : Nat, written : Nat, dropped : Nat]
      OBVIOUS
    <3>4. [open |-> TRUE, broken |-> FALSE, pos |-> w.pos, written |-> w.written, dropped |-> w.dropped]
            \in [open : BOOLEAN, broken : BOOLEAN, pos : Nat, written : Nat, dropped : Nat]
      BY <3>2, <3>3
    <3>. QED BY <3>1, <3>4, Zenon
  <2>7. Lines(<<r>>) = 1 /\ Lines(Base \o <<r>>) = Lines(Base) + 1 /\ Lines(own \o <<r>>) = Lines(own) + 1
    <3>1. Lines(Base \o <<r>>) = Lines(Base) + 1
      BY <2>2, LinesOf
    <3>2. Lines(own \o <<r>>) = Lines(own) + 1
      BY <1>2, LinesOf
    <3>3. <<>> \in Seq(Pieces) /\ <<>> \o <<r>> = <<r>>
      BY <2>1
    <3>4. Lines(<<>> \o <<r>>) = Lines(<<>>) + 1 /\ Lines(<<>>) = 0
      BY <3>3, LinesOf
    <3>. QED BY <3>1, <3>2, <3>3, <3>4
  <2>8. Lines(<<r>>) \in 0 .. 1 /\ Lines(<<r>>) <= Len(<<r>>)
    BY <2>1, <2>7
  <2>. HIDE DEF own
  <2>. QED BY <1>4, <2>1, <2>3, <2>5, <2>6, <2>7, <2>8
<1>6. CASE EncodeFails(r)
  <2>0. PICK left \in {<<>>, <<Torn>>} :
          /\ Write(left)
          /\ w = Dropped([Rotated EXCEPT !.broken = TRUE,
                                         !.pos = IF left = <<>> THEN @ ELSE Len(file')])
    BY <1>6 DEF EncodeFails
  <2>a. ~Rotated.broken
    BY <1>6 DEF EncodeFails
  <2>1. CASE left = <<Torn>>
    <3>1. <<Torn>> \in Seq(Pieces) /\ Len(<<Torn>>) = 1
      BY DEF Pieces
    <3>2. /\ Base \in Seq(Pieces) /\ Lines(Base) \in Nat /\ Len(Base) \in Nat
          /\ Len(file') = Len(Base) + 1
          /\ Rotated.open /\ Rotated.dropped = writer.dropped
          /\ Rotated \in [open : BOOLEAN, broken : BOOLEAN, pos : Nat, written : Nat, dropped : Nat]
          /\ Rotated.pos <= Len(Base) /\ Rotated.written <= Rotated.pos + Len(Base)
          /\ Lines(Base) <= Rotated.written /\ Len(Base) <= Rotated.written
      BY <2>0, <2>1, <2>a, <3>1, WriterStep
    <3>3. /\ w.open /\ w.pos = Len(Base) + 1 /\ w.dropped = writer.dropped + 1 /\ w.broken
          /\ w.written = Rotated.written
          /\ w = [open |-> TRUE, broken |-> TRUE, pos |-> w.pos, written |-> w.written, dropped |-> w.dropped]
      <4>1. <<Torn>> # <<>>
        OBVIOUS
      <4>. QED BY <2>0, <2>1, <3>2, <4>1 DEF Dropped
    <3>4. /\ Rotated.written \in Nat /\ Rotated.pos \in Nat /\ writer.dropped \in Nat
      BY <1>0, <3>2
    <3>. HIDE DEF w
    <3>5. /\ w.written \in Nat /\ w.written <= w.pos + Len(file') /\ Lines(Base) + 0 <= w.written
          /\ w.pos \in Nat /\ w.pos <= Len(file') /\ w.dropped \in Nat /\ w.dropped + 0 = writer.dropped + 1
          /\ Len(file') <= w.written + 1
      BY <3>2, <3>3, <3>4
    <3>6. w \in [open : BOOLEAN, broken : BOOLEAN, pos : Nat, written : Nat, dropped : Nat]
      BY <3>3, <3>5
    <3>7. Lines(<<Torn>>) = 0 /\ Lines(Base \o <<Torn>>) = Lines(Base) + 0 /\ Lines(own \o <<Torn>>) = Lines(own) + 0
      <4>1. Lines(Base \o <<Torn>>) = Lines(Base)
        BY <3>2, LinesOf
      <4>2. Lines(own \o <<Torn>>) = Lines(own)
        BY <1>2, LinesOf
      <4>3. <<>> \in Seq(Pieces) /\ <<>> \o <<Torn>> = <<Torn>>
        BY <3>1
      <4>4. Lines(<<>> \o <<Torn>>) = Lines(<<>>) /\ Lines(<<>>) = 0
        BY <4>3, LinesOf
      <4>. HIDE DEF own
      <4>. QED BY <1>3, <3>2, <4>1, <4>2, <4>3, <4>4
    <3>8. Lines(<<Torn>>) \in 0 .. 1 /\ Lines(<<Torn>>) <= Len(<<Torn>>)
      BY <3>1, <3>7
    <3>. HIDE DEF own
    <3>. QED BY <1>4, <2>0, <2>1, <3>1, <3>3, <3>5, <3>6, <3>7, <3>8
  <2>2. CASE left = <<>>
    <3>0. <<>> \in Seq(Pieces) /\ Len(<<>>) = 0
      OBVIOUS
    <3>1. <<>> \in Seq(Pieces) /\ Len(<<>>) = 0 /\ Lines(<<>>) = 0
      BY <3>0, LinesOf
    <3>2. /\ Base \in Seq(Pieces) /\ Lines(Base) \in Nat /\ Len(Base) \in Nat
          /\ Len(file') = Len(Base) + 0
          /\ Rotated.open /\ Rotated.dropped = writer.dropped
          /\ Rotated \in [open : BOOLEAN, broken : BOOLEAN, pos : Nat, written : Nat, dropped : Nat]
          /\ Rotated.pos <= Len(Base) /\ Rotated.written <= Rotated.pos + Len(Base)
          /\ Lines(Base) <= Rotated.written /\ Len(Base) <= Rotated.written
      BY <2>0, <2>2, <2>a, <3>1, WriterStep
    <3>3. /\ w.open /\ w.pos = Rotated.pos /\ w.dropped = writer.dropped + 1 /\ w.broken
          /\ w.written = Rotated.written
          /\ w = [open |-> TRUE, broken |-> TRUE, pos |-> w.pos, written |-> w.written, dropped |-> w.dropped]
      BY <2>0, <2>2, <3>2 DEF Dropped
    <3>4. /\ Rotated.written \in Nat /\ Rotated.pos \in Nat /\ writer.dropped \in Nat
      BY <1>0, <3>2
    <3>. HIDE DEF w
    <3>5. /\ w.written \in Nat /\ w.written <= w.pos + Len(file') /\ Lines(Base) + 0 <= w.written
          /\ w.pos \in Nat /\ w.pos <= Len(file') /\ w.dropped \in Nat /\ w.dropped + 0 = writer.dropped + 1
          /\ Len(file') <= w.written + 1
      BY <3>2, <3>3, <3>4
    <3>6. w \in [open : BOOLEAN, broken : BOOLEAN, pos : Nat, written : Nat, dropped : Nat]
      BY <3>3, <3>5
    <3>7. Lines(Base \o <<>>) = Lines(Base) + 0 /\ Lines(own \o <<>>) = Lines(own) + 0
      <4>1. Base \o <<>> = Base
        BY <3>2, LinesOf
      <4>2. own \o <<>> = own
        BY <1>2, LinesOf
      <4>. HIDE DEF own
      <4>. QED BY <1>3, <3>2, <4>1, <4>2
    <3>. HIDE DEF own
    <3>8. Lines(<<>>) \in 0 .. 1 /\ Lines(<<>>) <= Len(<<>>)
      BY <3>1
    <3>. QED BY <1>4, <2>0, <2>2, <3>1, <3>3, <3>5, <3>6, <3>7, <3>8
  <2>. QED BY <2>0, <2>1, <2>2
<1>7. CASE RotateFails(r)
  <2>1. Full /\ w = Closed(writer)
    BY <1>7 DEF RotateFails
  <2>2. /\ w.open = FALSE /\ w.pos = writer.pos /\ w.dropped = writer.dropped + 1
        /\ w.written = writer.written
        /\ w \in [open : BOOLEAN, broken : BOOLEAN, pos : Nat, written : Nat, dropped : Nat]
    <3>. DEFINE d == Dropped(writer)
    <3>1. /\ d.open = writer.open /\ d.pos = writer.pos /\ d.dropped = writer.dropped + 1
          /\ d.written = writer.written
          /\ d \in [open : BOOLEAN, broken : BOOLEAN, pos : Nat, written : Nat, dropped : Nat]
      <4>1. writer \in [open : BOOLEAN, broken : BOOLEAN, pos : Nat, written : Nat, dropped : Nat]
        BY <1>0
      <4>2. writer.dropped + 1 \in Nat
        BY <4>1
      <4>3. d = [writer EXCEPT !.dropped = writer.dropped + 1]
        BY DEF Dropped
      <4>. HIDE DEF d
      <4>. QED BY <4>1, <4>2, <4>3
    <3>2. w = [d EXCEPT !.open = FALSE]
      BY <2>1 DEF Closed
    <3>. HIDE DEF d, w
    <3>. QED BY <3>1, <3>2
  <2>3. kept' = kept
    BY <1>7 DEF RotateFails, disk
  <2>4. WriterInv'
    BY <2>1, <2>2 DEF WriterInv, Full
  <2>5. Handed'
    <3>1. taken + 1 = writer.dropped + 1 + Lines(own)
      BY <1>0, <1>3 DEF Handed
    <3>. QED BY <1>1, <2>2, <2>3, <3>1 DEF Handed
  <2>6. CASE file' = file /\ previous' = previous
    <3>1. RecentIsKept'
      BY <2>3, <2>6 DEF RecentIsKept
    <3>. QED BY <1>0, <1>1, <2>2, <2>3, <2>4, <2>5, <2>6, <3>1 DEF BooksOf
  <2>7. CASE writer.open /\ previous' = file /\ file' = <<>>
    <3>1. IsEnd(previous \o file, kept) /\ Lines(file) <= MaxSize
      BY RecentIs DEF Onward
    <3>2. IsEnd(file, kept)
      BY <1>0, <3>1, EndOfEnd
    <3>3. writer.pos <= Len(file) /\ writer.written <= writer.pos + Len(file) /\ writer.written >= MaxSize
      BY <2>1, <2>7 DEF WriterInv, Full
    <3>4. 2 * Len(file) >= MaxSize
      <4>1. writer.pos \in Nat /\ writer.written \in Nat /\ MaxSize \in Nat /\ Len(file) \in Nat
        BY <1>0
      <4>. QED BY <3>3, <4>1
    <3>5. Len(file) <= Len(kept) /\ file = SubSeq(kept, Len(kept) - Len(file) + 1, Len(kept))
      BY <1>0, <3>2, EndIs
    <3>6. previous' \o file' = file /\ <<>> \in Seq(Pieces) /\ Lines(<<>>) = 0
      BY <1>0, <2>7, LinesOf
    <3>7. RecentIsKept'
      <4>1. Lines(file') <= MaxSize /\ Lines(previous') <= MaxSize
        BY <1>0, <2>7, <3>1, <3>6
      <4>. QED BY <2>3, <3>4, <3>5, <3>6, <4>1 DEF RecentIsKept
    <3>. QED BY <1>0, <1>1, <2>2, <2>3, <2>4, <2>5, <2>7, <3>6, <3>7 DEF BooksOf
  <2>. QED BY <1>7, <2>6, <2>7 DEF RotateFails, disk
<1>8. CASE StillBroken(r)
  <2>1. UNCHANGED <<file, previous, kept>> /\ w = [writer EXCEPT !.dropped = writer.dropped + 1]
    BY <1>8 DEF StillBroken, Dropped, disk
  <2>2. /\ w.open = writer.open /\ w.broken = writer.broken /\ w.pos = writer.pos
        /\ w.written = writer.written /\ w.dropped = writer.dropped + 1
        /\ w \in [open : BOOLEAN, broken : BOOLEAN, pos : Nat, written : Nat, dropped : Nat]
    BY <1>0, <2>1
  <2>3. WriterInv' /\ RecentIsKept'
    BY <2>1, <2>2 DEF WriterInv, RecentIsKept, Full
  <2>4. Handed'
    <3>1. taken + 1 = writer.dropped + 1 + Lines(own)
      BY <1>0, <1>3 DEF Handed
    <3>. QED BY <1>1, <2>1, <2>2, <3>1 DEF Handed
  <2>. QED BY <1>0, <1>1, <2>1, <2>2, <2>3, <2>4 DEF BooksOf
<1>. QED BY <1>5, <1>6, <1>7, <1>8

\* The requests of this life that enforce mode stops.
Stopped == {r \in InStage({"counted", "journalled", "answered"}) : ~served[r].allowed}

\* What a request's stage says of the counters and of the log.
StagesAgree ==
  up => /\ counts.total = Cardinality(InStage({"counted", "journalled", "answered"}))
        /\ counts.wouldHaveBlocked = IF mode = "shadow" THEN Cardinality(Stopped) ELSE 0
        /\ Len(log) = Cardinality(InStage({"answered"}))
        /\ taken = Cardinality(InStage({"journalled", "answered"}))

\* CountersAgree is what the stages say, and what the journal was handed.
LEMMA CountersAre == CountersAgree <=> StagesAgree /\ (up => Handed)
BY DEF CountersAgree, StagesAgree, Stopped, Handed

\* A request that is decided is stopped or not, and stays so.
LEMMA StopsMove ==
  ASSUME TypeOK, NEW r \in Requests, NEW x, served' = [served EXCEPT ![r] = x],
         x.stage \in {"counted", "journalled", "answered"}
  PROVE  /\ Cardinality(Stopped) \in Nat
         /\ served[r].stage \in {"counted", "journalled", "answered"} /\ x.allowed = served[r].allowed =>
              Stopped' = Stopped
         /\ served[r].stage \notin {"counted", "journalled", "answered"} =>
              Cardinality(Stopped') = Cardinality(Stopped) + IF x.allowed THEN 0 ELSE 1
<1>. DEFINE C == {"counted", "journalled", "answered"}
<1>0. /\ served \in [Requests -> [stage : {"new", "counted", "journalled", "answered", "lost", "before"},
                              allowed : BOOLEAN, index : Int]]
      /\ IsFiniteSet(Requests)
  BY EnforcerAssumption DEF TypeOK
<1>1. IsFiniteSet(Stopped) /\ Cardinality(Stopped) \in Nat
  <2>1. Stopped \subseteq Requests
    BY DEF Stopped, InStage
  <2>. QED BY <1>0, <2>1, FS_Subset, FS_CardinalityType
<1>2. \A q \in Requests : served'[q] = IF q = r THEN x ELSE served[q]
  BY <1>0
<1>3. /\ Stopped = {q \in Requests : served[q].stage \in C /\ ~served[q].allowed}
      /\ Stopped' = {q \in Requests : served'[q].stage \in C /\ ~served'[q].allowed}
  BY DEF Stopped, InStage
<1>4. CASE served[r].stage \in C /\ x.allowed = served[r].allowed
  <2>1. Stopped' = Stopped
    BY <1>2, <1>3, <1>4
  <2>. QED BY <1>1, <1>4, <2>1
<1>5. CASE served[r].stage \notin C
  <2>1. r \notin Stopped
    BY <1>3, <1>5
  <2>2. CASE x.allowed
    <3>1. Stopped' = Stopped
      BY <1>2, <1>3, <1>5, <2>2
    <3>. QED BY <1>1, <1>5, <2>2, <3>1
  <2>3. CASE ~x.allowed
    <3>1. Stopped' = Stopped \cup {r}
      BY <1>2, <1>3, <1>5, <2>3
    <3>2. Cardinality(Stopped \cup {r}) = Cardinality(Stopped) + 1
      BY <1>1, <2>1, FS_AddElement
    <3>. QED BY <1>1, <1>5, <2>3, <3>1, <3>2
  <2>. QED BY <2>2, <2>3
<1>. QED BY <1>1, <1>4, <1>5

\* A step of a request counts it where it is next.
LEMMA StageStep ==
  ASSUME TypeOK, StagesAgree, NEW r \in Requests, Serve(r)
  PROVE  /\ StagesAgree'
         /\ served' \in [Requests -> [stage : {"new", "counted", "journalled", "answered", "lost", "before"},
                              allowed : BOOLEAN, index : Int]]
         /\ counts' \in [total : Nat, wouldHaveBlocked : Nat]
         /\ log' \in Seq(BOOLEAN) /\ up /\ up'
<1>. DEFINE counted == {"counted", "journalled", "answered"}
            answered == {"answered"}
            journalled == {"journalled", "answered"}
            S == [stage : {"new", "counted", "journalled", "answered", "lost", "before"},
                  allowed : BOOLEAN, index : Int]
<1>0. /\ served \in [Requests -> S] /\ served[r] \in S
      /\ counts \in [total : Nat, wouldHaveBlocked : Nat]
      /\ log \in Seq(BOOLEAN) /\ Len(log) \in Nat /\ taken \in Nat
      /\ mode \in {"shadow", "enforce"}
  BY DEF TypeOK
<1>1. up /\ up'
  BY DEF Serve, Decide, JournalAppend, EncodeFails, StillBroken, RotateFails, LogAppend, At, life
<1>2. /\ counts.total = Cardinality(InStage(counted))
      /\ Len(log) = Cardinality(InStage(answered))
      /\ taken = Cardinality(InStage(journalled))
      /\ counts.wouldHaveBlocked = IF mode = "shadow" THEN Cardinality(Stopped) ELSE 0
  BY <1>1 DEF StagesAgree
<1>3. CASE \E allowed \in BOOLEAN : Decide(r, allowed)
  <2>1. PICK allowed \in BOOLEAN : Decide(r, allowed)
    BY <1>3
  <2>. DEFINE x == [served[r] EXCEPT !.stage = "counted", !.allowed = allowed]
  <2>2. served' = [served EXCEPT ![r] = x] /\ served[r].stage = "new"
    BY <1>0, <2>1 DEF Decide, At
  <2>3. x.stage = "counted" /\ x \in S /\ x.allowed = allowed
    BY <1>0, <2>1
  <2>. HIDE DEF x
  <2>4. Cardinality(InStage(counted)') = Cardinality(InStage(counted)) + 1
    <3>1. x.stage \in counted /\ served[r].stage \notin counted
      BY <2>2, <2>3
    <3>. QED BY <2>2, <3>1, StageMoves
  <2>5. InStage(answered)' = InStage(answered)
    <3>1. x.stage \notin answered /\ served[r].stage \notin answered
      BY <2>2, <2>3
    <3>. QED BY <2>2, <3>1, StageMoves
  <2>6. InStage(journalled)' = InStage(journalled)
    <3>1. x.stage \notin journalled /\ served[r].stage \notin journalled
      BY <2>2, <2>3
    <3>. QED BY <2>2, <3>1, StageMoves
  <2>7. /\ counts'.total = counts.total + 1 /\ log' = log /\ taken' = taken
        /\ counts' = [total |-> counts.total + 1,
                      wouldHaveBlocked |-> counts.wouldHaveBlocked
                                           + IF mode = "shadow" /\ ~allowed THEN 1 ELSE 0]
    BY <2>1 DEF Decide
  <2>8. counts' \in [total : Nat, wouldHaveBlocked : Nat]
    BY <1>0, <2>7
  <2>9. served' \in [Requests -> S]
    BY <1>0, <2>2, <2>3
  <2>a. counts'.wouldHaveBlocked = IF mode' = "shadow" THEN Cardinality(Stopped') ELSE 0
    <3>1. mode' = mode
      BY <2>1 DEF Decide, life
    <3>2. /\ Cardinality(Stopped) \in Nat
          /\ Cardinality(Stopped') = Cardinality(Stopped) + IF x.allowed THEN 0 ELSE 1
      <4>1. x.stage \in counted /\ served[r].stage \notin counted
        BY <2>2, <2>3
      <4>. QED BY <2>2, <4>1, StopsMove
    <3>. QED BY <1>0, <1>2, <2>3, <2>7, <3>1, <3>2
  <2>. QED BY <1>0, <1>1, <1>2, <2>4, <2>5, <2>6, <2>7, <2>8, <2>9, <2>a DEF StagesAgree
<1>4. CASE JournalAppend(r) \/ EncodeFails(r) \/ StillBroken(r) \/ RotateFails(r)
  <2>. DEFINE x == [served[r] EXCEPT !.stage = "journalled"]
  <2>2. served' = [served EXCEPT ![r] = x] /\ served[r].stage = "counted"
    BY <1>0, <1>4 DEF JournalAppend, EncodeFails, StillBroken, RotateFails, At, Go
  <2>3. x.stage = "journalled" /\ x \in S /\ x.allowed = served[r].allowed
    BY <1>0
  <2>. HIDE DEF x
  <2>4. InStage(counted)' = InStage(counted)
    <3>1. x.stage \in counted /\ served[r].stage \in counted
      BY <2>2, <2>3
    <3>. QED BY <2>2, <3>1, StageMoves
  <2>5. InStage(answered)' = InStage(answered)
    <3>1. x.stage \notin answered /\ served[r].stage \notin answered
      BY <2>2, <2>3
    <3>. QED BY <2>2, <3>1, StageMoves
  <2>6. Cardinality(InStage(journalled)') = Cardinality(InStage(journalled)) + 1
    <3>1. x.stage \in journalled /\ served[r].stage \notin journalled
      BY <2>2, <2>3
    <3>. QED BY <2>2, <3>1, StageMoves
  <2>7. counts' = counts /\ log' = log /\ taken' = taken + 1 /\ mode' = mode
    BY <1>4 DEF JournalAppend, EncodeFails, StillBroken, RotateFails, life
  <2>9. served' \in [Requests -> S]
    BY <1>0, <2>2, <2>3
  <2>a. Stopped' = Stopped
    <3>1. x.stage \in counted /\ served[r].stage \in counted
      BY <2>2, <2>3
    <3>. QED BY <2>2, <2>3, <3>1, StopsMove
  <2>. QED BY <1>0, <1>1, <1>2, <2>4, <2>5, <2>6, <2>7, <2>9, <2>a DEF StagesAgree
<1>5. CASE LogAppend(r)
  <2>. DEFINE x == [served[r] EXCEPT !.stage = "answered", !.index = Len(log)]
  <2>2. served' = [served EXCEPT ![r] = x] /\ served[r].stage = "journalled"
    BY <1>0, <1>5 DEF LogAppend, At
  <2>3. x.stage = "answered" /\ x \in S /\ x.allowed = served[r].allowed
    <3>1. served[r] \in S /\ Len(log) \in Int
      BY <1>0
    <3>. QED BY <3>1
  <2>. HIDE DEF x
  <2>4. InStage(counted)' = InStage(counted)
    <3>1. x.stage \in counted /\ served[r].stage \in counted
      BY <2>2, <2>3
    <3>. QED BY <2>2, <3>1, StageMoves
  <2>5. Cardinality(InStage(answered)') = Cardinality(InStage(answered)) + 1
    <3>1. x.stage \in answered /\ served[r].stage \notin answered
      BY <2>2, <2>3
    <3>. QED BY <2>2, <3>1, StageMoves
  <2>6. InStage(journalled)' = InStage(journalled)
    <3>1. x.stage \in journalled /\ served[r].stage \in journalled
      BY <2>2, <2>3
    <3>. QED BY <2>2, <3>1, StageMoves
  <2>7. counts' = counts /\ log' = Append(log, served[r].allowed) /\ taken' = taken /\ mode' = mode
    BY <1>5 DEF LogAppend, life
  <2>8. log' \in Seq(BOOLEAN) /\ Len(log') = Len(log) + 1
    BY <1>0, <2>7
  <2>9. served' \in [Requests -> S]
    BY <1>0, <2>2, <2>3
  <2>a. Stopped' = Stopped
    <3>1. x.stage \in counted /\ served[r].stage \in counted
      BY <2>2, <2>3
    <3>. QED BY <2>2, <2>3, <3>1, StopsMove
  <2>. QED BY <1>0, <1>1, <1>2, <2>4, <2>5, <2>6, <2>7, <2>8, <2>9, <2>a DEF StagesAgree
<1>. QED BY <1>3, <1>4, <1>5 DEF Serve

\* What the invariant says of a process that does not run.
AtRest ==
  ~up => /\ InStage({"counted", "journalled", "answered"}) = {}
         /\ counts = NoCounts /\ log = <<>> /\ taken = 0

LEMMA EnforcerInvIs ==
  EnforcerInv <=> TypeOK /\ StagesAgree /\ (up => Handed) /\ RecentIsKept /\ WriterInv
                  /\ since <= Len(kept) /\ AtRest
BY CountersAre DEF EnforcerInv, AtRest

\* A step that leaves the journal alone keeps what is known of it.
LEMMA JournalAlone ==
  ASSUME RecentIsKept, WriterInv, since <= Len(kept), UNCHANGED <<file, previous, kept, writer, since>>
  PROVE  RecentIsKept' /\ WriterInv' /\ since' <= Len(kept')
BY DEF RecentIsKept, WriterInv, Full

LEMMA ServeKeeps ==
  ASSUME EnforcerInv, NEW r \in Requests, Serve(r)
  PROVE  EnforcerInv'
<1>0. /\ TypeOK /\ StagesAgree /\ (up => Handed) /\ RecentIsKept /\ WriterInv
      /\ since <= Len(kept)
  BY EnforcerInvIs
<1>1. /\ StagesAgree'
      /\ served' \in [Requests -> [stage : {"new", "counted", "journalled", "answered", "lost", "before"},
                           allowed : BOOLEAN, index : Int]]
      /\ counts' \in [total : Nat, wouldHaveBlocked : Nat]
      /\ log' \in Seq(BOOLEAN) /\ up /\ up'
  BY <1>0, StageStep
<1>2. CASE JournalAppend(r) \/ EncodeFails(r) \/ StillBroken(r) \/ RotateFails(r)
  <2>1. BooksOf'
    BY <1>0, <1>1, <1>2, JournalStep
  <2>2. /\ file' \in Seq(Pieces) /\ previous' \in Seq(Pieces) /\ kept' \in Seq(Pieces)
        /\ writer' \in [open : BOOLEAN, broken : BOOLEAN, pos : Nat, written : Nat, dropped : Nat]
        /\ taken' \in Nat /\ since' \in Nat
        /\ RecentIsKept' /\ WriterInv' /\ since' <= Len(kept') /\ Handed'
    BY <2>1 DEF BooksOf
  <2>3. /\ mode' = mode /\ restarts' = restarts /\ faults' \in Nat
    <3>1. mode' = mode /\ restarts' = restarts
      BY <1>2 DEF JournalAppend, EncodeFails, StillBroken, RotateFails, life
    <3>2. faults \in Nat
      BY <1>0 DEF TypeOK
    <3>3. faults' = faults \/ faults' = faults + 1
      BY <1>2 DEF JournalAppend, EncodeFails, StillBroken, RotateFails, Fail
    <3>. QED BY <3>1, <3>2, <3>3
  <2>4. TypeOK'
    BY <1>0, <1>1, <2>2, <2>3 DEF TypeOK
  <2>5. (up => Handed)' /\ AtRest'
    BY <1>1, <2>2 DEF AtRest
  <2>. QED BY <1>1, <2>2, <2>4, <2>5 DEF EnforcerInv, CountersAgree, StagesAgree, Stopped, Handed, AtRest
<1>3. CASE (\E allowed \in BOOLEAN : Decide(r, allowed)) \/ LogAppend(r)
  <2>1. /\ UNCHANGED <<file, previous, kept, writer, since>>
        /\ mode' = mode /\ restarts' = restarts /\ faults' = faults /\ taken' = taken
    BY <1>3 DEF Decide, LogAppend, disk, life
  <2>2. RecentIsKept' /\ WriterInv' /\ since' <= Len(kept')
    BY <1>0, <2>1, JournalAlone
  <2>3. Handed' /\ AtRest' /\ (up => Handed)'
    BY <1>0, <1>1, <2>1 DEF Handed, AtRest
  <2>4. TypeOK'
    BY <1>0, <1>1, <2>1 DEF TypeOK
  <2>. QED BY <1>1, <2>2, <2>3, <2>4 DEF EnforcerInv, CountersAgree, StagesAgree, Stopped, Handed, AtRest
<1>. QED BY <1>2, <1>3 DEF Serve

LEMMA DieKeeps ==
  ASSUME EnforcerInv, Die
  PROVE  EnforcerInv'
<1>. DEFINE S == [stage : {"new", "counted", "journalled", "answered", "lost", "before"},
                  allowed : BOOLEAN, index : Int]
<1>0. TypeOK /\ RecentIsKept /\ WriterInv /\ since <= Len(kept) /\ served \in [Requests -> S]
  BY DEF EnforcerInv, TypeOK
<1>1. /\ UNCHANGED <<file, previous, kept, writer, since>> /\ up' = FALSE
      /\ counts' = NoCounts /\ log' = <<>> /\ taken' = 0
      /\ UNCHANGED <<faults, restarts, mode>>
      /\ served' = [r \in Requests |->
           IF served[r].stage \in {"counted", "journalled"}
           THEN [served[r] EXCEPT !.stage = "lost"]
           ELSE IF served[r].stage = "answered" THEN [served[r] EXCEPT !.stage = "before"]
           ELSE served[r]]
  BY DEF Die, disk
<1>2. \A r \in Requests : served'[r] \in S /\ served'[r].stage \notin {"counted", "journalled", "answered"}
  <2>. SUFFICES ASSUME NEW r \in Requests
                PROVE  served'[r] \in S /\ served'[r].stage \notin {"counted", "journalled", "answered"}
    OBVIOUS
  <2>. DEFINE x == served[r]
  <2>1. x \in S
    BY <1>0
  <2>2. served'[r] = IF x.stage \in {"counted", "journalled"} THEN [x EXCEPT !.stage = "lost"]
                     ELSE IF x.stage = "answered" THEN [x EXCEPT !.stage = "before"] ELSE x
    BY <1>1
  <2>. HIDE DEF x
  <2>3. [x EXCEPT !.stage = "lost"] \in S /\ [x EXCEPT !.stage = "lost"].stage = "lost"
    BY <2>1
  <2>4. [x EXCEPT !.stage = "before"] \in S /\ [x EXCEPT !.stage = "before"].stage = "before"
    BY <2>1
  <2>. HIDE DEF S
  <2>5. CASE x.stage \in {"counted", "journalled"}
    BY <2>2, <2>3, <2>5
  <2>6. CASE x.stage = "answered"
    BY <2>2, <2>4, <2>6
  <2>7. CASE x.stage \notin {"counted", "journalled", "answered"}
    BY <2>1, <2>2, <2>7
  <2>. QED BY <2>5, <2>6, <2>7
<1>3. served' \in [Requests -> S]
  BY <1>1, <1>2
<1>4. InStage({"counted", "journalled", "answered"})' = {}
  BY <1>2 DEF InStage
<1>5. TypeOK'
  <2>1. counts' \in [total : Nat, wouldHaveBlocked : Nat]
    BY <1>1 DEF NoCounts
  <2>2. /\ file \in Seq(Pieces) /\ previous \in Seq(Pieces) /\ kept \in Seq(Pieces)
        /\ writer \in [open : BOOLEAN, broken : BOOLEAN, pos : Nat, written : Nat, dropped : Nat]
        /\ mode \in {"shadow", "enforce"} /\ faults \in Nat /\ restarts \in Nat /\ since \in Nat
    BY <1>0 DEF TypeOK
  <2>3. log' \in Seq(BOOLEAN) /\ taken' \in Nat /\ up' \in BOOLEAN
    <3>1. log' = <<>> /\ taken' = 0 /\ up' = FALSE
      BY <1>1
    <3>2. <<>> \in Seq(BOOLEAN)
      OBVIOUS
    <3>. QED BY <3>1, <3>2
  <2>4. UNCHANGED <<file, previous, kept, writer, since, faults, restarts, mode>>
    BY <1>1
  <2>. QED BY <1>3, <2>1, <2>2, <2>3, <2>4 DEF TypeOK
<1>6. RecentIsKept' /\ WriterInv' /\ since' <= Len(kept')
  BY <1>0, <1>1, JournalAlone
<1>7. StagesAgree' /\ (up => Handed)' /\ AtRest'
  BY <1>1, <1>4 DEF StagesAgree, AtRest, NoCounts
<1>. QED BY <1>5, <1>6, <1>7 DEF EnforcerInv, CountersAgree, StagesAgree, Stopped, Handed, AtRest

LEMMA StartKeeps ==
  ASSUME EnforcerInv, Start
  PROVE  EnforcerInv'
<1>0. TypeOK /\ RecentIsKept /\ AtRest
  BY EnforcerInvIs
<1>1. /\ ~up /\ up' = TRUE /\ restarts' = restarts + 1 /\ mode' \in {"shadow", "enforce"}
      /\ writer' = Opened(file) /\ since' = Len(kept)
      /\ UNCHANGED <<served, counts, file, previous, kept, log, faults, taken>>
  BY DEF Start, disk
<1>2. /\ file \in Seq(Pieces) /\ kept \in Seq(Pieces) /\ Len(kept) \in Nat /\ Len(file) \in Nat
      /\ Lines(file) \in Nat /\ Lines(file) <= Len(file)
      /\ InStage({"counted", "journalled", "answered"}) = {} /\ log = <<>> /\ taken = 0
      /\ counts.total = 0 /\ counts.wouldHaveBlocked = 0
  BY <1>0, <1>1, LinesOf DEF TypeOK, AtRest, NoCounts
<1>3. /\ writer' \in [open : BOOLEAN, broken : BOOLEAN, pos : Nat, written : Nat, dropped : Nat]
      /\ writer'.open = TRUE /\ writer'.pos = 0 /\ writer'.written = Len(file) /\ writer'.dropped = 0
      /\ writer'.broken = FALSE
  BY <1>1, <1>2 DEF Opened
<1>4. TypeOK'
  BY <1>0, <1>1, <1>2, <1>3 DEF TypeOK
<1>5. WriterInv'
  BY <1>1, <1>2, <1>3 DEF WriterInv
<1>6. RecentIsKept'
  BY <1>0, <1>1 DEF RecentIsKept
<1>7. since' <= Len(kept')
  BY <1>1, <1>2
<1>8. StagesAgree'
  <2>1. \A stages \in SUBSET {"counted", "journalled", "answered"} : InStage(stages)' = {}
    BY <1>1, <1>2 DEF InStage
  <2>2. /\ InStage({"counted", "journalled", "answered"})' = {} /\ InStage({"answered"})' = {}
        /\ InStage({"journalled", "answered"})' = {}
    BY <2>1
  <2>3. Stopped' = {}
    BY <2>2 DEF Stopped
  <2>. QED BY <1>1, <1>2, <2>2, <2>3, FS_EmptySet DEF StagesAgree
<1>9. Handed'
  <2>1. SubSeq(kept, Len(kept) + 1, Len(kept)) = <<>>
    BY <1>2
  <2>2. Lines(<<>>) = 0
    BY <1>2, LinesOf
  <2>3. Lines(SubSeq(kept, since + 1, Len(kept)))' = 0
    BY <1>1, <2>1, <2>2
  <2>. QED BY <1>1, <1>2, <1>3, <2>3 DEF Handed
<1>. QED BY <1>1, <1>4, <1>5, <1>6, <1>7, <1>8, <1>9 DEF EnforcerInv, CountersAgree, StagesAgree, Stopped, Handed, AtRest

LEMMA EnforcerInitially == Init => EnforcerInv
<1>. SUFFICES ASSUME Init PROVE EnforcerInv
  OBVIOUS
<1>1. /\ up = TRUE /\ mode \in {"shadow", "enforce"}
      /\ served = [r \in Requests |-> [stage |-> "new", allowed |-> FALSE, index |-> -1]]
      /\ counts = NoCounts
      /\ writer = Opened(<<>>) /\ file = <<>> /\ previous = <<>>
      /\ log = <<>>
      /\ faults = 0 /\ restarts = 0 /\ kept = <<>> /\ taken = 0 /\ since = 0
  BY DEF Init
<1>2. <<>> \in Seq(Pieces) /\ <<>> \in Seq(BOOLEAN) /\ Len(<<>>) = 0
  OBVIOUS
<1>3. Lines(<<>>) = 0
  BY <1>2, LinesOf
<1>4. MaxSize \in Nat \ {0}
  BY EnforcerAssumption
<1>5. /\ writer \in [open : BOOLEAN, broken : BOOLEAN, pos : Nat, written : Nat, dropped : Nat]
      /\ writer.open = TRUE /\ writer.pos = 0 /\ writer.written = 0 /\ writer.dropped = 0
      /\ writer.broken = FALSE
  BY <1>1, <1>2 DEF Opened
<1>6. TypeOK
  BY <1>1, <1>2, <1>5 DEF TypeOK, NoCounts
<1>7. WriterInv
  BY <1>1, <1>2, <1>3, <1>5 DEF WriterInv
<1>8. RecentIsKept
  <2>1. previous \o file = <<>> /\ SubSeq(kept, Len(kept) - 0 + 1, Len(kept)) = <<>>
    BY <1>1, <1>2
  <2>. QED BY <1>1, <1>2, <1>3, <1>4, <2>1 DEF RecentIsKept
<1>9. StagesAgree
  <2>1. /\ InStage({"counted", "journalled", "answered"}) = {} /\ InStage({"answered"}) = {}
        /\ InStage({"journalled", "answered"}) = {}
    BY <1>1 DEF InStage
  <2>2. Stopped = {}
    BY <2>1 DEF Stopped
  <2>. QED BY <1>1, <1>2, <2>1, <2>2, FS_EmptySet DEF StagesAgree, NoCounts
<1>a. Handed
  <2>1. SubSeq(<<>>, 0 + 1, Len(<<>>)) = <<>>
    BY <1>2
  <2>2. Lines(SubSeq(kept, since + 1, Len(kept))) = 0
    BY <1>1, <1>3, <2>1
  <2>. QED BY <1>1, <1>5, <2>2 DEF Handed
<1>. QED BY <1>1, <1>2, <1>6, <1>7, <1>8, <1>9, <1>a, EnforcerInvIs DEF AtRest

LEMMA EnforcerNext == EnforcerInv /\ [Next]_vars => EnforcerInv'
<1>. SUFFICES ASSUME EnforcerInv, [Next]_vars PROVE EnforcerInv'
  OBVIOUS
<1>1. CASE \E r \in Requests : Serve(r)
  BY <1>1, ServeKeeps
<1>2. CASE Die
  BY <1>2, DieKeeps
<1>3. CASE Start
  BY <1>3, StartKeeps
<1>4. CASE UNCHANGED vars
  BY <1>4 DEF vars, EnforcerInv, TypeOK, CountersAgree, RecentIsKept, WriterInv, InStage, Full
<1>. QED BY <1>1, <1>2, <1>3, <1>4 DEF Next

LEMMA EnforcerInvariant == AuditSpec => []EnforcerInv
<1>1. AuditInit => EnforcerInv
  BY EnforcerInitially DEF AuditInit
<1>2. EnforcerInv /\ [AuditNext]_auditVars => EnforcerInv'
  <2>1. [AuditNext]_auditVars => [Next]_vars
    BY DEF AuditNext, auditVars
  <2>. QED BY <2>1, EnforcerNext
<1>. QED BY <1>1, <1>2, PTL DEF AuditSpec

\* Whatever the requests in flight do and whatever the disk does, the numbers of
\* /v1/stats account for every request that was decided and every line the journal was
\* handed, and the two generations hold the end of what was written without a gap.
THEOREM BooksAlwaysAgree == AuditSpec => []BooksAgree
<1>1. EnforcerInv => BooksAgree
  <2>. SUFFICES ASSUME EnforcerInv PROVE BytesAgree
    BY DEF EnforcerInv, BooksAgree
  <2>1. writer.pos \in Nat /\ writer.written \in Nat /\ Len(file) \in Nat
    BY DEF EnforcerInv, TypeOK
  <2>. QED BY <2>1 DEF EnforcerInv, WriterInv, BytesAgree
<1>. QED BY <1>1, EnforcerInvariant, PTL

-----------------------------------------------------------------------------
(* The transparency log.                                                   *)

\* Strong induction.
LEMMA StrongInduct ==
  ASSUME NEW S \in SUBSET Nat, \A n \in Nat : (\A k \in Nat : k < n => k \in S) => n \in S
  PROVE  S = Nat
<1>. DEFINE T == {n \in Nat : \A k \in Nat : k < n => k \in S}
<1>1. 0 \in T
  OBVIOUS
<1>2. ASSUME NEW n \in T PROVE n + 1 \in T
  <2>1. n \in S /\ n \in Nat
    OBVIOUS
  <2>2. ASSUME NEW k \in Nat, k < n + 1 PROVE k \in S
    <3>1. k < n \/ k = n
      BY <2>1, <2>2
    <3>. QED BY <2>1, <3>1
  <2>. QED BY <2>1, <2>2
<1>3. T \in SUBSET Nat
  OBVIOUS
<1>. HIDE DEF T
<1>4. T = Nat
  BY <1>1, <1>2, <1>3, NaturalsInduct
<1>5. \A n \in Nat : \A k \in Nat : k < n => k \in S
  BY <1>4 DEF T
<1>. QED BY <1>5

\* What a step makes of a function depends on its values at lesser numbers.
Local(V, step) ==
  \A n \in Nat : \A g, h \in [Nat -> V] :
    (\A i \in Nat : i < n => g[i] = h[i]) => step[n][g] = step[n][h]

Steps(V) == [Nat -> [[Nat -> V] -> V]]

HasSolution(V, step) == \E f \in [Nat -> V] : \A n \in Nat : f[n] = step[n][f]

\* A function on the naturals may be defined by a step from its values at lesser ones.
LEMMA Recursion ==
  ASSUME NEW V, NEW v \in V, NEW step \in Steps(V), Local(V, step)
  PROVE  HasSolution(V, step)
<1>0. step \in [Nat -> [[Nat -> V] -> V]]
  BY DEF Steps
<1>. DEFINE Good(g, n) == \A i \in Nat : i < n => g[i] = step[i][g]
            T == {n \in Nat : \E g \in [Nat -> V] : Good(g, n)}
<1>1. ASSUME NEW g \in [Nat -> V], NEW h \in [Nat -> V], NEW n \in Nat, NEW m \in Nat,
             Good(g, n), Good(h, m)
      PROVE  \A i \in Nat : i < n /\ i < m => g[i] = h[i]
  <2>. DEFINE S == {i \in Nat : i < n /\ i < m => g[i] = h[i]}
  <2>1. ASSUME NEW i \in Nat, \A k \in Nat : k < i => k \in S PROVE i \in S
    <3>1. SUFFICES ASSUME i < n, i < m PROVE g[i] = h[i]
      OBVIOUS
    <3>2. \A k \in Nat : k < i => g[k] = h[k]
      <4>1. \A k \in Nat : k < i => k < n /\ k < m
        BY <3>1
      <4>. QED BY <2>1, <4>1
    <3>3. step[i][g] = step[i][h]
      BY <3>2 DEF Local
    <3>4. g[i] = step[i][g] /\ h[i] = step[i][h]
      BY <1>1, <3>1
    <3>. QED BY <3>3, <3>4
  <2>2. S \in SUBSET Nat
    OBVIOUS
  <2>. HIDE DEF S
  <2>3. S = Nat
    BY <2>1, <2>2, StrongInduct
  <2>. QED BY <2>3 DEF S
<1>2. 0 \in T
  <2>1. [i \in Nat |-> v] \in [Nat -> V]
    OBVIOUS
  <2>2. Good([i \in Nat |-> v], 0)
    OBVIOUS
  <2>. QED BY <2>1, <2>2
<1>3. ASSUME NEW n \in T PROVE n + 1 \in T
  <2>1. PICK g \in [Nat -> V] : Good(g, n)
    OBVIOUS
  <2>. DEFINE x == step[n][g]
              h == [g EXCEPT ![n] = x]
  <2>2. n \in Nat /\ x \in V
    BY <1>0
  <2>3. h \in [Nat -> V] /\ h[n] = x /\ \A i \in Nat : i < n => h[i] = g[i]
    BY <2>2
  <2>. HIDE DEF h
  <2>4. ASSUME NEW i \in Nat, i < n + 1 PROVE h[i] = step[i][h]
    <3>1. i < n \/ i = n
      BY <2>2, <2>4
    <3>2. \A k \in Nat : k < i => g[k] = h[k]
      <4>1. \A k \in Nat : k < i => k < n
        BY <2>2, <3>1
      <4>. QED BY <2>3, <4>1
    <3>3. step[i][g] = step[i][h]
      BY <2>3, <3>2 DEF Local
    <3>4. CASE i < n
      BY <2>1, <2>3, <3>3, <3>4
    <3>5. CASE i = n
      BY <2>3, <3>3, <3>5 DEF x
    <3>. QED BY <3>1, <3>4, <3>5
  <2>5. Good(h, n + 1)
    BY <2>4
  <2>. HIDE DEF Good
  <2>. QED BY <2>2, <2>3, <2>5
<1>4. T \in SUBSET Nat
  OBVIOUS
<1>5. T = Nat
  <2>. HIDE DEF T
  <2>. QED BY <1>2, <1>3, <1>4, NaturalsInduct
<1>. DEFINE G(n) == CHOOSE g \in [Nat -> V] : Good(g, n + 1)
            f == [n \in Nat |-> G(n)[n]]
<1>6. ASSUME NEW n \in Nat PROVE G(n) \in [Nat -> V] /\ Good(G(n), n + 1)
  <2>1. n + 1 \in T
    <3>. HIDE DEF T
    <3>. QED BY <1>5
  <2>2. \E g : g \in [Nat -> V] /\ Good(g, n + 1)
    BY <2>1
  <2>. HIDE DEF Good
  <2>. QED BY <2>2, Zenon
<1>. HIDE DEF G, Good
<1>7. f \in [Nat -> V] /\ \A n \in Nat : f[n] = G(n)[n]
  BY <1>6
<1>. HIDE DEF f
<1>8. ASSUME NEW n \in Nat PROVE f[n] = step[n][f]
  <2>1. ASSUME NEW i \in Nat, i < n PROVE f[i] = G(n)[i]
    <3>1. i + 1 \in Nat /\ n + 1 \in Nat /\ i < i + 1 /\ i < n + 1
      BY <2>1
    <3>2. G(i) \in [Nat -> V] /\ G(n) \in [Nat -> V] /\ Good(G(i), i + 1) /\ Good(G(n), n + 1)
      BY <1>6
    <3>3. PICK g \in [Nat -> V], h \in [Nat -> V] : g = G(i) /\ h = G(n)
      BY <3>2
    <3>4. Good(g, i + 1) /\ Good(h, n + 1)
      BY <3>2, <3>3
    <3>5. \A k \in Nat : k < i + 1 /\ k < n + 1 => g[k] = h[k]
      BY <1>1, <3>1, <3>4
    <3>6. G(i)[i] = G(n)[i]
      BY <3>1, <3>3, <3>5
    <3>. QED BY <1>7, <3>6
  <2>2. step[n][G(n)] = step[n][f]
    BY <1>6, <1>7, <2>1 DEF Local
  <2>3. G(n)[n] = step[n][G(n)]
    <3>1. Good(G(n), n + 1) /\ n < n + 1
      BY <1>6
    <3>. QED BY <3>1 DEF Good
  <2>. QED BY <1>7, <2>2, <2>3
<1>. QED BY <1>7, <1>8 DEF HasSolution

\* Powers of two.
LEMMA PowerIs ==
  /\ Power \in [Nat -> Nat] /\ Power[0] = 1
  /\ \A i \in Nat : Power[i + 1] = 2 * Power[i]
<1>. DEFINE step == [n \in Nat |-> [f \in [Nat -> Nat] |-> IF n = 0 THEN 1 ELSE 2 * f[n - 1]]]
            Is(f) == f = [i \in Nat |-> IF i = 0 THEN 1 ELSE 2 * f[i - 1]]
<1>1. \A n \in Nat, g \in [Nat -> Nat] : step[n][g] = IF n = 0 THEN 1 ELSE 2 * g[n - 1]
  OBVIOUS
<1>2. step \in Steps(Nat)
  <2>1. ASSUME NEW n \in Nat, NEW g \in [Nat -> Nat]
        PROVE  (IF n = 0 THEN 1 ELSE 2 * g[n - 1]) \in Nat
    OBVIOUS
  <2>. QED BY <2>1 DEF Steps
<1>. HIDE DEF step
<1>3. ASSUME NEW n \in Nat, NEW g \in [Nat -> Nat], NEW h \in [Nat -> Nat],
             \A i \in Nat : i < n => g[i] = h[i]
      PROVE  step[n][g] = step[n][h]
  <2>1. n # 0 => n - 1 \in Nat /\ n - 1 < n
    OBVIOUS
  <2>. QED BY <1>1, <1>3, <2>1
<1>4. Local(Nat, step)
  BY <1>3 DEF Local
<1>5. \E f \in [Nat -> Nat] : \A n \in Nat : f[n] = step[n][f]
  <2>1. 0 \in Nat
    OBVIOUS
  <2>2. HasSolution(Nat, step)
    BY <1>2, <1>4, <2>1, Recursion
  <2>. QED BY <2>2 DEF HasSolution
<1>6. PICK f \in [Nat -> Nat] : \A n \in Nat : f[n] = step[n][f]
  BY <1>5
<1>7. Is(f)
  <2>1. \A n \in Nat : f[n] = IF n = 0 THEN 1 ELSE 2 * f[n - 1]
    BY <1>1, <1>6
  <2>2. f = [n \in Nat |-> f[n]]
    BY <1>6
  <2>. QED BY <2>1, <2>2, Zenon
<1>8. Is(Power)
  <2>1. Power = CHOOSE g : Is(g)
    BY DEF Power
  <2>. HIDE DEF Is
  <2>. QED BY <1>7, <2>1
<1>9. \A n \in Nat : Power[n] = IF n = 0 THEN 1 ELSE 2 * Power[n - 1]
  BY <1>8, Zenon
<1>10. Power[0] = 1 /\ \A n \in Nat : Power[n + 1] = 2 * Power[n]
  <2>1. \A n \in Nat : n + 1 # 0 /\ n + 1 \in Nat /\ (n + 1) - 1 = n
    OBVIOUS
  <2>. QED BY <1>9, <2>1
<1>11. \A n \in Nat : Power[n] \in Nat
  <2>. DEFINE S == {n \in Nat : Power[n] \in Nat}
  <2>1. 0 \in S /\ S \in SUBSET Nat
    BY <1>10
  <2>2. \A n \in S : n + 1 \in S
    BY <1>10
  <2>. HIDE DEF S
  <2>3. S = Nat
    BY <2>1, <2>2, NaturalsInduct
  <2>. QED BY <2>3 DEF S
<1>12. Power = [n \in Nat |-> Power[n]]
  BY <1>8, Zenon
<1>13. Power \in [Nat -> Nat]
  BY <1>11, <1>12
<1>. QED BY <1>10, <1>13

\* Of two powers of two the greater is at least twice the lesser.
LEMMA PowersApart ==
  /\ \A i \in Nat : Power[i] \in Nat /\ Power[i] > 0 /\ i < Power[i]
  /\ \A i, j \in Nat : i < j => 2 * Power[i] <= Power[j]
<1>1. \A i \in Nat : Power[i] \in Nat /\ Power[i + 1] = 2 * Power[i]
  BY PowerIs
<1>2. \A i \in Nat : Power[i] > 0 /\ i < Power[i]
  <2>. DEFINE S == {n \in Nat : Power[n] > 0 /\ n < Power[n]}
  <2>1. 0 \in S /\ S \in SUBSET Nat
    BY PowerIs
  <2>2. \A n \in S : n + 1 \in S
    BY <1>1
  <2>. HIDE DEF S
  <2>3. S = Nat
    BY <2>1, <2>2, NaturalsInduct
  <2>. QED BY <2>3 DEF S
<1>3. ASSUME NEW i \in Nat PROVE \A j \in Nat : i < j => 2 * Power[i] <= Power[j]
  <2>. DEFINE S == {j \in Nat : i < j => 2 * Power[i] <= Power[j]}
  <2>1. 0 \in S /\ S \in SUBSET Nat
    OBVIOUS
  <2>2. ASSUME NEW j \in S PROVE j + 1 \in S
    <3>1. j \in Nat /\ (i < j => 2 * Power[i] <= Power[j])
      OBVIOUS
    <3>2. /\ Power[i] \in Nat /\ Power[j] \in Nat /\ Power[i + 1] = 2 * Power[i]
          /\ Power[j + 1] = 2 * Power[j]
      BY <1>1, <3>1
    <3>3. CASE i < j
      BY <3>1, <3>2, <3>3
    <3>4. CASE i = j
      BY <3>1, <3>2, <3>4
    <3>. QED BY <3>1, <3>3, <3>4
  <2>. HIDE DEF S
  <2>3. S = Nat
    BY <2>1, <2>2, NaturalsInduct
  <2>. QED BY <2>3 DEF S
<1>. QED BY <1>1, <1>2, <1>3

\* A tree is split where no other power of two would do.
LEMMA SplitIs ==
  /\ \A n \in Nat : n >= 2 => \E d \in Nat : Split(n) = Power[d]
  /\ \A n \in Nat : n >= 2 => /\ Split(n) \in Nat /\ 0 < Split(n) /\ Split(n) < n
                              /\ n <= 2 * Split(n)
  /\ \A d, n \in Nat : Power[d] < n /\ n <= 2 * Power[d] => Split(n) = Power[d]
<1>. DEFINE Fits(n, d) == Power[d] < n /\ n <= 2 * Power[d]
            S == {n \in Nat : n >= 2 => \E d \in Nat : Fits(n, d)}
<1>1. \A i \in Nat : Power[i] \in Nat /\ Power[i] > 0 /\ i < Power[i] /\ Power[i + 1] = 2 * Power[i]
  BY PowerIs, PowersApart
<1>2. 0 \in S /\ S \in SUBSET Nat
  OBVIOUS
<1>3. ASSUME NEW n \in S PROVE n + 1 \in S
  <2>1. n \in Nat
    OBVIOUS
  <2>2. SUFFICES ASSUME n + 1 >= 2 PROVE \E d \in Nat : Fits(n + 1, d)
    OBVIOUS
  <2>3. CASE n + 1 = 2
    <3>1. Fits(n + 1, 0)
      BY <2>3, PowerIs
    <3>. QED BY <3>1
  <2>4. CASE n + 1 # 2
    <3>1. n >= 2
      BY <2>1, <2>2, <2>4
    <3>2. PICK d \in Nat : Fits(n, d)
      BY <3>1
    <3>3. Power[d] \in Nat /\ Power[d + 1] = 2 * Power[d] /\ Power[d] > 0
      BY <1>1
    <3>4. CASE n + 1 <= 2 * Power[d]
      <4>1. Fits(n + 1, d)
        BY <2>1, <3>2, <3>3, <3>4
      <4>. QED BY <4>1
    <3>5. CASE ~(n + 1 <= 2 * Power[d])
      <4>1. Fits(n + 1, d + 1)
        BY <2>1, <3>2, <3>3, <3>5
      <4>. QED BY <4>1
    <3>. QED BY <3>4, <3>5
  <2>. QED BY <2>3, <2>4
<1>4. \A n \in Nat : n >= 2 => \E d \in Nat : Fits(n, d)
  <2>. HIDE DEF S
  <2>1. S = Nat
    BY <1>2, <1>3, NaturalsInduct
  <2>. QED BY <2>1 DEF S
<1>5. ASSUME NEW d \in Nat, NEW n \in Nat, Fits(n, d) PROVE Split(n) = Power[d]
  <2>. DEFINE K == {Power[i] : i \in 0 .. n}
              P(k) == k < n /\ n <= 2 * k
  <2>1. Power[d] \in K /\ P(Power[d])
    <3>1. Power[d] \in Nat /\ d < Power[d]
      BY <1>1
    <3>2. d \in 0 .. n
      BY <1>5, <3>1
    <3>. QED BY <1>5, <3>2
  <2>2. ASSUME NEW k \in K, P(k) PROVE k = Power[d]
    <3>1. PICK i \in 0 .. n : k = Power[i]
      OBVIOUS
    <3>2. i \in Nat /\ Power[i] \in Nat /\ Power[d] \in Nat
      BY <1>1
    <3>3. (i < d => 2 * Power[i] <= Power[d]) /\ (d < i => 2 * Power[d] <= Power[i])
      BY <3>2, PowersApart
    <3>4. ~(i < d) /\ ~(d < i)
      BY <1>5, <2>2, <3>1, <3>2, <3>3
    <3>5. i = d
      BY <3>2, <3>4
    <3>. QED BY <3>1, <3>5
  <2>3. Split(n) = CHOOSE k \in K : P(k)
    BY DEF Split
  <2>. HIDE DEF K, P
  <2>. QED BY <2>1, <2>2, <2>3
<1>6. ASSUME NEW n \in Nat, n >= 2
      PROVE  /\ \E d \in Nat : Split(n) = Power[d]
             /\ Split(n) \in Nat /\ 0 < Split(n) /\ Split(n) < n /\ n <= 2 * Split(n)
  <2>1. PICK d \in Nat : Fits(n, d)
    BY <1>4, <1>6
  <2>2. Split(n) = Power[d]
    BY <1>5, <2>1
  <2>. QED BY <1>1, <2>1, <2>2
<1>. QED BY <1>5, <1>6

LEMMA StripIs ==
  \A fn, sn \in Nat :
    Strip[fn][sn] = IF fn = 0 \/ fn % 2 = 1 THEN <<fn, sn>> ELSE Strip[fn \div 2][sn \div 2]
<1>. DEFINE V == [Nat -> Nat \X Nat]
            Of(f, n) == [sn \in Nat |-> IF n = 0 \/ n % 2 = 1 THEN <<n, sn>> ELSE f[n \div 2][sn \div 2]]
            step == [n \in Nat |-> [f \in [Nat -> V] |-> Of(f, n)]]
            Is(f) == f = [n \in Nat |-> Of(f, n)]
<1>1. \A n \in Nat, f \in [Nat -> V] : step[n][f] = Of(f, n)
  OBVIOUS
<1>2. step \in Steps(V)
  <2>1. ASSUME NEW n \in Nat, NEW f \in [Nat -> V] PROVE Of(f, n) \in V
    <3>1. ASSUME NEW sn \in Nat
          PROVE  (IF n = 0 \/ n % 2 = 1 THEN <<n, sn>> ELSE f[n \div 2][sn \div 2]) \in Nat \X Nat
      <4>1. n \div 2 \in Nat /\ sn \div 2 \in Nat
        OBVIOUS
      <4>2. f[n \div 2] \in V
        BY <4>1
      <4>3. f[n \div 2][sn \div 2] \in Nat \X Nat
        BY <4>1, <4>2
      <4>. QED BY <4>3
    <3>. QED BY <3>1
  <2>. HIDE DEF Of, V
  <2>. QED BY <2>1 DEF Steps
<1>3. Local(V, step)
  <2>1. ASSUME NEW n \in Nat, NEW g \in [Nat -> V], NEW h \in [Nat -> V],
               \A i \in Nat : i < n => g[i] = h[i]
        PROVE  Of(g, n) = Of(h, n)
    <3>1. CASE n = 0
      BY <3>1
    <3>2. CASE n # 0
      <4>1. n \div 2 \in Nat /\ n \div 2 < n
        BY <3>2
      <4>2. g[n \div 2] = h[n \div 2]
        BY <2>1, <4>1
      <4>. QED BY <4>2
    <3>. QED BY <3>1, <3>2
  <2>. HIDE DEF Of, V, step
  <2>. QED BY <1>1, <2>1 DEF Local
<1>4. [sn \in Nat |-> <<0, 0>>] \in V
  OBVIOUS
<1>5. \E f \in [Nat -> V] : \A n \in Nat : f[n] = step[n][f]
  <2>. HIDE DEF V, step, Is
  <2>1. HasSolution(V, step)
    BY <1>2, <1>3, <1>4, Recursion
  <2>. QED BY <2>1 DEF HasSolution
<1>6. PICK f \in [Nat -> V] : \A n \in Nat : f[n] = step[n][f]
  BY <1>5
<1>7. Is(f)
  <2>. HIDE DEF V, step, Of
  <2>1. \A n \in Nat : f[n] = Of(f, n)
    BY <1>1, <1>6
  <2>2. f = [n \in Nat |-> f[n]]
    BY <1>6
  <2>. QED BY <2>1, <2>2, Zenon
<1>8. Is(Strip)
  <2>1. Strip = CHOOSE g : Is(g)
    BY DEF Strip
  <2>. HIDE DEF Is
  <2>. QED BY <1>7, <2>1
<1>9. \A n \in Nat : Strip[n] = Of(Strip, n)
  <2>. HIDE DEF Of
  <2>. QED BY <1>8, Zenon
<1>10. ASSUME NEW fn \in Nat, NEW sn \in Nat
       PROVE  Of(Strip, fn)[sn] = IF fn = 0 \/ fn % 2 = 1 THEN <<fn, sn>> ELSE Strip[fn \div 2][sn \div 2]
  BY <1>10, Zenon
<1>11. ASSUME NEW fn \in Nat, NEW sn \in Nat PROVE Strip[fn][sn] = Of(Strip, fn)[sn]
  <2>. HIDE DEF Of
  <2>. QED BY <1>9
<1>. HIDE DEF Of
<1>. QED BY <1>10, <1>11

\* The last node of a level, where it stands alone, in a tree and in one that a full
\* tree was put before.
LEMMA StripsAlike ==
  \A x \in Nat : x # 0 => \A e \in Nat : x < Power[e] =>
    \E y, f \in Nat :
      /\ y % 2 = 1 /\ f > 0 /\ y < Power[f]
      /\ Strip[x][x] = <<y, y>>
      /\ Strip[x + Power[e]][x + Power[e]] = <<y + Power[f], y + Power[f]>>
<1>. DEFINE Alike(x, e) ==
              \E y, f \in Nat :
                /\ y % 2 = 1 /\ f > 0 /\ y < Power[f]
                /\ Strip[x][x] = <<y, y>>
                /\ Strip[x + Power[e]][x + Power[e]] = <<y + Power[f], y + Power[f]>>
            S == {x \in Nat : x # 0 => \A e \in Nat : x < Power[e] => Alike(x, e)}
<1>1. ASSUME NEW x \in Nat, \A k \in Nat : k < x => k \in S PROVE x \in S
  <2>1. SUFFICES ASSUME x # 0, NEW e \in Nat, x < Power[e] PROVE Alike(x, e)
    OBVIOUS
  <2>2. e # 0
    BY <2>1, PowerIs
  <2>3. e - 1 \in Nat /\ (e - 1) + 1 = e
    BY <2>2
  <2>4. Power[e] = 2 * Power[e - 1] /\ Power[e - 1] \in Nat /\ Power[e] \in Nat
    <3>1. Power[(e - 1) + 1] = 2 * Power[e - 1] /\ Power[e - 1] \in Nat
      BY <2>3, PowerIs
    <3>. QED BY <2>3, <3>1
  <2>. DEFINE p == Power[e]
              q == Power[e - 1]
  <2>5. p \in Nat /\ q \in Nat /\ p = 2 * q /\ x < p
    BY <2>1, <2>4
  <2>6. CASE x % 2 = 1
    <3>. HIDE DEF p, q
    <3>1. (x + p) % 2 = 1 /\ x + p \in Nat
      BY <2>5, <2>6
    <3>2. Strip[x][x] = <<x, x>>
      BY <2>6, StripIs
    <3>3. Strip[x + p][x + p] = <<x + p, x + p>>
      BY <3>1, StripIs
    <3>. QED BY <2>2, <2>5, <2>6, <3>2, <3>3 DEF p
  <2>7. CASE x % 2 # 1
    <3>. DEFINE h == x \div 2
    <3>. HIDE DEF p, q, h
    <3>1. h \in Nat /\ h # 0 /\ h < x /\ h < q
      BY <2>1, <2>5, <2>7 DEF h
    <3>2. x + p \in Nat /\ (x + p) % 2 # 1 /\ x + p # 0 /\ (x + p) \div 2 = h + q
      BY <2>1, <2>5, <2>7 DEF h
    <3>3. Alike(h, e - 1)
      <4>1. h \in S
        BY <1>1, <3>1
      <4>. HIDE DEF Alike
      <4>. QED BY <2>3, <3>1, <4>1 DEF q
    <3>4. Strip[x][x] = Strip[h][h]
      BY <2>1, <2>7, StripIs DEF h
    <3>5. Strip[x + p][x + p] = Strip[h + q][h + q]
      <4>. DEFINE y == x + p
      <4>1. y \in Nat /\ y # 0 /\ y % 2 # 1 /\ y \div 2 = h + q
        BY <3>2
      <4>. HIDE DEF y
      <4>2. Strip[y][y] = Strip[y \div 2][y \div 2]
        BY <4>1, StripIs
      <4>. QED BY <4>1, <4>2 DEF y
    <3>. QED BY <3>3, <3>4, <3>5 DEF p, q
  <2>. QED BY <2>6, <2>7
<1>2. S \in SUBSET Nat
  OBVIOUS
<1>3. S = Nat
  <2>. HIDE DEF S
  <2>. QED BY <1>1, <1>2, StrongInduct
<1>4. \A x \in Nat : x # 0 => \A e \in Nat : x < Power[e] => Alike(x, e)
  <2>. HIDE DEF Alike
  <2>. QED BY <1>3
<1>. QED BY <1>4

LEMMA StripsToOne == \A e \in Nat : Strip[Power[e]][Power[e]] = <<1, 1>>
<1>. DEFINE S == {e \in Nat : Strip[Power[e]][Power[e]] = <<1, 1>>}
<1>1. 0 \in S /\ S \in SUBSET Nat
  <2>1. 1 % 2 = 1
    OBVIOUS
  <2>2. Strip[1][1] = <<1, 1>>
    BY <2>1, StripIs
  <2>. QED BY <2>2, PowerIs
<1>2. ASSUME NEW e \in S PROVE e + 1 \in S
  <2>. DEFINE y == Power[e + 1]
  <2>1. y = 2 * Power[e] /\ Power[e] \in Nat /\ Power[e] > 0
    BY PowerIs, PowersApart
  <2>2. y \in Nat /\ y # 0 /\ y % 2 # 1 /\ y \div 2 = Power[e]
    BY <2>1
  <2>. HIDE DEF y
  <2>3. Strip[y][y] = Strip[y \div 2][y \div 2]
    BY <2>2, StripIs
  <2>. QED BY <2>2, <2>3 DEF y
<1>. HIDE DEF S
<1>3. S = Nat
  BY <1>1, <1>2, NaturalsInduct
<1>. QED BY <1>3 DEF S

\* A climb in a subtree and the same climb in the tree, when e levels are left of the
\* subtree: the full one on the left, or the one on the right of it.
OnTheLeft(a, b, e) ==
  /\ a.sn + 1 = Power[e] /\ a.fn = b.fn
  /\ Power[e] <= b.sn /\ b.sn < 2 * Power[e]

OnTheRight(a, b, e) ==
  /\ a.sn < Power[e]
  /\ b.fn = a.fn + Power[e] /\ b.sn = a.sn + Power[e]

Placed(x) == x.fn \in Nat /\ x.sn \in Nat

Beside(a, b, isRight) ==
  /\ Placed(a) /\ Placed(b)
  /\ a.fn <= a.sn /\ a.computed = b.computed
  /\ \E e \in Nat : IF isRight THEN OnTheRight(a, b, e) ELSE OnTheLeft(a, b, e)

\* What a round does, by the parity of the position.
LEMMA RoundIs ==
  ASSUME NEW x, NEW p, x.fn \in Nat, x.sn \in Nat
  PROVE  /\ x.fn % 2 = 1 => /\ Round(x, p).computed = HashNode(p, x.computed)
                            /\ Round(x, p).fn = x.fn \div 2 /\ Round(x, p).sn = x.sn \div 2
         /\ x.fn % 2 # 1 /\ x.fn # x.sn =>
              /\ Round(x, p).computed = HashNode(x.computed, p)
              /\ Round(x, p).fn = x.fn \div 2 /\ Round(x, p).sn = x.sn \div 2
         /\ x.fn % 2 # 1 /\ x.fn = x.sn =>
              /\ Round(x, p).computed = HashNode(p, x.computed)
              /\ Round(x, p).fn = Strip[x.fn][x.fn][1] \div 2
              /\ Round(x, p).sn = Strip[x.fn][x.fn][2] \div 2
<1>1. x.fn % 2 = 1 => Strip[x.fn][x.sn] = <<x.fn, x.sn>>
  BY StripIs
<1>. QED BY <1>1 DEF Round

LEMMA PowerDown ==
  ASSUME NEW e \in Nat, e # 0
  PROVE  /\ e - 1 \in Nat /\ Power[e - 1] \in Nat /\ Power[e] = 2 * Power[e - 1]
         /\ Power[e] \in Nat /\ Power[e - 1] > 0
<1>1. e - 1 \in Nat /\ (e - 1) + 1 = e
  OBVIOUS
<1>2. Power[(e - 1) + 1] = 2 * Power[e - 1] /\ Power[e - 1] \in Nat /\ Power[e - 1] > 0 /\ Power[e] \in Nat
  BY <1>1, PowerIs, PowersApart
<1>. QED BY <1>1, <1>2

LEMMA RoundBeside ==
  ASSUME NEW a, NEW b, NEW isRight \in BOOLEAN, Beside(a, b, isRight), a.sn # 0, NEW p
  PROVE  Beside(Round(a, p), Round(b, p), isRight)
<1>. DEFINE c == Round(a, p)
            d == Round(b, p)
<1>1. /\ a.fn \in Nat /\ a.sn \in Nat /\ b.fn \in Nat /\ b.sn \in Nat
      /\ a.fn <= a.sn /\ a.computed = b.computed
  BY DEF Beside, Placed
<1>2. PICK e \in Nat : IF isRight THEN OnTheRight(a, b, e) ELSE OnTheLeft(a, b, e)
  BY DEF Beside
<1>3. e # 0
  <2>1. CASE isRight
    BY <1>1, <1>2, <2>1, PowerIs DEF OnTheRight
  <2>2. CASE ~isRight
    BY <1>1, <1>2, <2>2, PowerIs DEF OnTheLeft
  <2>. QED BY <2>1, <2>2
<1>. DEFINE P == Power[e]
            Q == Power[e - 1]
<1>4. e - 1 \in Nat /\ P \in Nat /\ Q \in Nat /\ P = 2 * Q /\ Q > 0
  BY <1>3, PowerDown
<1>. HIDE DEF P, Q, c, d
<1>5. CASE ~isRight
  <2>1. a.sn + 1 = P /\ a.fn = b.fn /\ P <= b.sn /\ b.sn < 2 * P
    BY <1>2, <1>5 DEF OnTheLeft, P
  <2>2. a.sn \div 2 + 1 = Q /\ Q <= b.sn \div 2 /\ b.sn \div 2 < 2 * Q
    <3>1. a.sn + 1 = 2 * Q /\ 2 * Q <= b.sn /\ b.sn < 4 * Q
      BY <1>1, <1>4, <2>1
    <3>2. \A x, q \in Nat : x + 1 = 2 * q => x \div 2 + 1 = q
      OBVIOUS
    <3>3. \A x, q \in Nat : 2 * q <= x /\ x < 4 * q => q <= x \div 2 /\ x \div 2 < 2 * q
      OBVIOUS
    <3>4. a.sn \div 2 + 1 = Q
      BY <1>1, <1>4, <3>1, <3>2
    <3>5. Q <= b.sn \div 2 /\ b.sn \div 2 < 2 * Q
      BY <1>1, <1>4, <3>1, <3>3
    <3>. QED BY <3>4, <3>5
  <2>3. b.fn # b.sn /\ (a.fn % 2 # 1 => a.fn # a.sn)
    BY <1>1, <1>4, <2>1
  <2>4. /\ c.computed = d.computed /\ c.fn = a.fn \div 2 /\ c.sn = a.sn \div 2
        /\ d.fn = b.fn \div 2 /\ d.sn = b.sn \div 2
    <3>1. CASE a.fn % 2 = 1
      <4>1. /\ c.computed = HashNode(p, a.computed) /\ c.fn = a.fn \div 2 /\ c.sn = a.sn \div 2
        BY <1>1, <3>1, RoundIs DEF c
      <4>2. /\ d.computed = HashNode(p, b.computed) /\ d.fn = b.fn \div 2 /\ d.sn = b.sn \div 2
        BY <1>1, <2>1, <3>1, RoundIs DEF d
      <4>. QED BY <1>1, <4>1, <4>2
    <3>2. CASE a.fn % 2 # 1
      <4>1. /\ c.computed = HashNode(a.computed, p) /\ c.fn = a.fn \div 2 /\ c.sn = a.sn \div 2
        BY <1>1, <2>3, <3>2, RoundIs DEF c
      <4>2. /\ d.computed = HashNode(b.computed, p) /\ d.fn = b.fn \div 2 /\ d.sn = b.sn \div 2
        BY <1>1, <2>1, <2>3, <3>2, RoundIs DEF d
      <4>. QED BY <1>1, <4>1, <4>2
    <3>. QED BY <3>1, <3>2
  <2>5. c.fn \in Nat /\ c.sn \in Nat /\ d.fn \in Nat /\ d.sn \in Nat /\ c.fn <= c.sn /\ c.fn = d.fn
    BY <1>1, <2>1, <2>4
  <2>6. OnTheLeft(c, d, e - 1)
    BY <2>2, <2>4, <2>5 DEF OnTheLeft, Q
  <2>. QED BY <1>4, <1>5, <2>4, <2>5, <2>6 DEF Beside, Placed, c, d
<1>6. CASE isRight
  <2>1. a.sn < P /\ b.fn = a.fn + P /\ b.sn = a.sn + P
    BY <1>2, <1>6 DEF OnTheRight, P
  <2>2. b.fn % 2 = a.fn % 2 /\ (b.fn = b.sn <=> a.fn = a.sn)
        /\ b.fn \div 2 = a.fn \div 2 + Q /\ b.sn \div 2 = a.sn \div 2 + Q /\ a.sn \div 2 < Q
        /\ a.fn \div 2 \in Nat /\ a.sn \div 2 \in Nat /\ a.fn \div 2 <= a.sn \div 2
    BY <1>1, <1>4, <2>1
  <2>3. CASE a.fn % 2 = 1 \/ a.fn # a.sn
    <3>1. /\ c.computed = d.computed /\ c.fn = a.fn \div 2 /\ c.sn = a.sn \div 2
          /\ d.fn = b.fn \div 2 /\ d.sn = b.sn \div 2
      <4>1. CASE a.fn % 2 = 1
        <5>1. /\ c.computed = HashNode(p, a.computed) /\ c.fn = a.fn \div 2 /\ c.sn = a.sn \div 2
          BY <1>1, <4>1, RoundIs DEF c
        <5>2. /\ d.computed = HashNode(p, b.computed) /\ d.fn = b.fn \div 2 /\ d.sn = b.sn \div 2
          BY <1>1, <2>2, <4>1, RoundIs DEF d
        <5>. QED BY <1>1, <5>1, <5>2
      <4>2. CASE a.fn % 2 # 1
        <5>1. /\ c.computed = HashNode(a.computed, p) /\ c.fn = a.fn \div 2 /\ c.sn = a.sn \div 2
          BY <1>1, <2>3, <4>2, RoundIs DEF c
        <5>2. /\ d.computed = HashNode(b.computed, p) /\ d.fn = b.fn \div 2 /\ d.sn = b.sn \div 2
          BY <1>1, <2>2, <2>3, <4>2, RoundIs DEF d
        <5>. QED BY <1>1, <5>1, <5>2
      <4>. QED BY <4>1, <4>2
    <3>2. c.fn \in Nat /\ c.sn \in Nat /\ d.fn \in Nat /\ d.sn \in Nat /\ c.fn <= c.sn
      BY <1>4, <2>2, <3>1
    <3>3. OnTheRight(c, d, e - 1)
      BY <2>2, <3>1 DEF OnTheRight, Q
    <3>. QED BY <1>4, <1>6, <3>1, <3>2, <3>3 DEF Beside, Placed, c, d
  <2>4. CASE a.fn % 2 # 1 /\ a.fn = a.sn
    <3>1. a.fn # 0 /\ a.fn < Power[e]
      BY <1>1, <2>1, <2>4 DEF P
    <3>2. PICK y \in Nat, f \in Nat :
            /\ y % 2 = 1 /\ f > 0 /\ y < Power[f]
            /\ Strip[a.fn][a.fn] = <<y, y>>
            /\ Strip[a.fn + Power[e]][a.fn + Power[e]] = <<y + Power[f], y + Power[f]>>
      BY <1>1, <3>1, StripsAlike
    <3>3. /\ f - 1 \in Nat /\ Power[f - 1] \in Nat /\ Power[f] = 2 * Power[f - 1] /\ Power[f] \in Nat
      BY <3>2, PowerDown
    <3>4. /\ c.computed = HashNode(p, a.computed) /\ c.fn = y \div 2 /\ c.sn = y \div 2
      <4>1. /\ c.computed = HashNode(p, a.computed)
            /\ c.fn = Strip[a.fn][a.fn][1] \div 2 /\ c.sn = Strip[a.fn][a.fn][2] \div 2
        BY <1>1, <2>4, RoundIs DEF c
      <4>. QED BY <3>2, <4>1
    <3>5. /\ d.computed = HashNode(p, b.computed)
          /\ d.fn = (y + Power[f]) \div 2 /\ d.sn = (y + Power[f]) \div 2
      <4>1. /\ d.computed = HashNode(p, b.computed)
            /\ d.fn = Strip[b.fn][b.fn][1] \div 2 /\ d.sn = Strip[b.fn][b.fn][2] \div 2
        BY <1>1, <2>2, <2>4, RoundIs DEF d
      <4>2. b.fn = a.fn + Power[e]
        BY <2>1 DEF P
      <4>. QED BY <3>2, <4>1, <4>2
    <3>6. y \div 2 \in Nat /\ y \div 2 < Power[f - 1] /\ (y + Power[f]) \div 2 = y \div 2 + Power[f - 1]
      BY <3>2, <3>3
    <3>7. /\ c.fn \in Nat /\ c.sn \in Nat /\ d.fn \in Nat /\ d.sn \in Nat /\ c.fn <= c.sn
          /\ c.computed = d.computed
      BY <1>1, <3>3, <3>4, <3>5, <3>6
    <3>8. OnTheRight(c, d, f - 1)
      BY <3>4, <3>5, <3>6 DEF OnTheRight
    <3>. QED BY <1>6, <3>3, <3>7, <3>8 DEF Beside, Placed, c, d
  <2>. QED BY <2>3, <2>4
<1>. QED BY <1>5, <1>6

\* When the subtree is climbed, the tree has one level left.
LEMMA RoundAbove ==
  ASSUME NEW a, NEW b, NEW isRight \in BOOLEAN, Beside(a, b, isRight), NEW p
  PROVE  /\ b.sn # 0
         /\ a.sn = 0 => /\ Round(b, p).sn = 0
                        /\ Round(b, p).computed = IF isRight THEN HashNode(p, a.computed)
                                                  ELSE HashNode(a.computed, p)
<1>1. /\ a.fn \in Nat /\ a.sn \in Nat /\ b.fn \in Nat /\ b.sn \in Nat
      /\ a.fn <= a.sn /\ a.computed = b.computed
  BY DEF Beside, Placed
<1>2. PICK e \in Nat : IF isRight THEN OnTheRight(a, b, e) ELSE OnTheLeft(a, b, e)
  BY DEF Beside
<1>3. Power[e] \in Nat /\ Power[e] > 0
  BY PowersApart
<1>4. CASE ~isRight
  <2>1. a.sn + 1 = Power[e] /\ a.fn = b.fn /\ Power[e] <= b.sn /\ b.sn < 2 * Power[e]
    BY <1>2, <1>4 DEF OnTheLeft
  <2>2. b.sn # 0
    BY <1>1, <1>3, <2>1
  <2>3. ASSUME a.sn = 0
        PROVE  Round(b, p).sn = 0 /\ Round(b, p).computed = HashNode(a.computed, p)
    <3>1. b.fn = 0 /\ b.sn = 1 /\ b.fn % 2 # 1 /\ b.sn \div 2 = 0
      BY <1>1, <2>1, <2>3
    <3>. QED BY <1>1, <3>1, RoundIs
  <2>. QED BY <1>4, <2>2, <2>3
<1>5. CASE isRight
  <2>1. a.sn < Power[e] /\ b.fn = a.fn + Power[e] /\ b.sn = a.sn + Power[e]
    BY <1>2, <1>5 DEF OnTheRight
  <2>2. b.sn # 0
    BY <1>1, <1>3, <2>1
  <2>3. ASSUME a.sn = 0
        PROVE  Round(b, p).sn = 0 /\ Round(b, p).computed = HashNode(p, a.computed)
    <3>1. b.fn = Power[e] /\ b.sn = Power[e]
      BY <1>1, <1>3, <2>1, <2>3
    <3>2. CASE b.fn % 2 = 1
      <4>1. e = 0
        <5>1. SUFFICES ASSUME e # 0 PROVE FALSE
          OBVIOUS
        <5>2. Power[e] = 2 * Power[e - 1] /\ Power[e - 1] \in Nat
          BY <5>1, PowerDown
        <5>. QED BY <3>1, <3>2, <5>2
      <4>2. b.sn = 1 /\ b.sn \div 2 = 0
        BY <3>1, <4>1, PowerIs
      <4>. QED BY <1>1, <3>2, <4>2, RoundIs
    <3>3. CASE b.fn % 2 # 1
      <4>1. /\ Round(b, p).computed = HashNode(p, b.computed)
            /\ Round(b, p).sn = Strip[b.fn][b.fn][2] \div 2
        BY <1>1, <3>1, <3>3, RoundIs
      <4>2. Strip[b.fn][b.fn] = <<1, 1>> /\ 1 \div 2 = 0
        BY <3>1, StripsToOne
      <4>. QED BY <1>1, <4>1, <4>2
    <3>. QED BY <3>2, <3>3
  <2>. QED BY <1>5, <2>2, <2>3
<1>. QED BY <1>4, <1>5

IsRun(run, leaf, index, size, path) ==
  /\ run[0] = [computed |-> leaf, fn |-> index, sn |-> size - 1]
  /\ \A i \in 1 .. Len(path) : run[i] = Round(run[i - 1], path[i])

LEMMA ClimbIs ==
  ASSUME NEW leaf, NEW index, NEW size, NEW path, Len(path) \in Nat
  PROVE  IsRun(Climb(leaf, index, size, path), leaf, index, size, path)
<1>. DEFINE N == Len(path)
            start == [computed |-> leaf, fn |-> index, sn |-> size - 1]
            Of(g, i) == IF i = 0 THEN start ELSE Round(g[i - 1], path[i])
            Is(f) == f = [i \in 0 .. N |-> Of(f, i)]
            S == {n \in Nat : \E g : \A i \in 0 .. n : g[i] = Of(g, i)}
<1>. HIDE DEF start
<1>1. 0 \in S /\ S \in SUBSET Nat
  <2>. DEFINE g == [i \in {0} |-> start]
  <2>1. \A i \in 0 .. 0 : i = 0 /\ g[i] = start
    OBVIOUS
  <2>. HIDE DEF g
  <2>2. \A i \in 0 .. 0 : g[i] = Of(g, i)
    BY <2>1
  <2>. QED BY <2>2
<1>2. ASSUME NEW n \in S PROVE n + 1 \in S
  <2>1. n \in Nat
    OBVIOUS
  <2>2. PICK g : \A i \in 0 .. n : g[i] = Of(g, i)
    OBVIOUS
  <2>. DEFINE x == Round(g[n], path[n + 1])
              h == [i \in 0 .. n + 1 |-> IF i = n + 1 THEN x ELSE g[i]]
  <2>3. h[n + 1] = x /\ \A i \in 0 .. n : h[i] = g[i] /\ i \in 0 .. n + 1
    BY <2>1
  <2>. HIDE DEF h
  <2>4. ASSUME NEW i \in 0 .. n + 1 PROVE h[i] = Of(h, i)
    <3>1. CASE i = n + 1
      <4>1. i # 0 /\ i - 1 = n /\ n \in 0 .. n
        BY <2>1, <3>1
      <4>. QED BY <2>3, <3>1, <4>1
    <3>2. CASE i # n + 1
      <4>1. i \in 0 .. n /\ (i # 0 => i - 1 \in 0 .. n)
        BY <2>1, <3>2
      <4>2. Of(h, i) = Of(g, i)
        BY <2>3, <4>1
      <4>. HIDE DEF Of
      <4>. QED BY <2>2, <2>3, <4>1, <4>2
    <3>. QED BY <3>1, <3>2
  <2>. HIDE DEF Of
  <2>5. \E f : \A i \in 0 .. n + 1 : f[i] = Of(f, i)
    BY <2>4
  <2>. QED BY <2>1, <2>5
<1>3. \E g : \A i \in 0 .. N : g[i] = Of(g, i)
  <2>. HIDE DEF S
  <2>1. S = Nat
    BY <1>1, <1>2, NaturalsInduct
  <2>2. N \in S
    BY <2>1
  <2>. HIDE DEF Of, N
  <2>. QED BY <2>2 DEF S
<1>4. PICK g : \A i \in 0 .. N : g[i] = Of(g, i)
  BY <1>3
<1>. DEFINE f == [i \in 0 .. N |-> g[i]]
<1>5. Is(f)
  <2>1. \A i \in 0 .. N : f[i] = g[i] /\ (i # 0 => i - 1 \in 0 .. N)
    OBVIOUS
  <2>2. f = [i \in 0 .. N |-> f[i]]
    OBVIOUS
  <2>. HIDE DEF f
  <2>3. \A i \in 0 .. N : Of(f, i) = Of(g, i)
    BY <2>1
  <2>. HIDE DEF Of
  <2>4. \A i \in 0 .. N : f[i] = Of(f, i)
    BY <1>4, <2>1, <2>3
  <2>. QED BY <2>2, <2>4, Zenon
<1>. DEFINE C == Climb(leaf, index, size, path)
<1>6. Is(C)
  <2>1. C = CHOOSE h : Is(h)
    BY DEF Climb, start
  <2>. HIDE DEF Is, C
  <2>. QED BY <1>5, <2>1
<1>. HIDE DEF C
<1>7. \A i \in 0 .. N : C[i] = Of(C, i)
  <2>. HIDE DEF Of
  <2>. QED BY <1>6, Zenon
<1>8. 0 \in 0 .. N /\ \A i \in 1 .. N : i \in 0 .. N /\ i # 0
  OBVIOUS
<1>9. C[0] = start /\ \A i \in 1 .. N : C[i] = Round(C[i - 1], path[i])
  BY <1>7, <1>8, Zenon
<1>. QED BY <1>9 DEF C, start, IsRun

LEMMA ClimbLocal ==
  ASSUME NEW leaf, NEW index, NEW size, NEW p, NEW q, Len(p) \in Nat, Len(q) \in Nat,
         Len(p) <= Len(q), \A i \in 1 .. Len(p) : p[i] = q[i]
  PROVE  \A i \in 0 .. Len(p) : Climb(leaf, index, size, p)[i] = Climb(leaf, index, size, q)[i]
<1>. DEFINE C == Climb(leaf, index, size, p)
            D == Climb(leaf, index, size, q)
            S == {i \in Nat : i <= Len(p) => C[i] = D[i]}
<1>0. IsRun(C, leaf, index, size, p) /\ IsRun(D, leaf, index, size, q)
  BY ClimbIs
<1>. HIDE DEF C, D
<1>1. C[0] = D[0] /\ \A i \in 1 .. Len(p) : C[i] = Round(C[i - 1], p[i])
  BY <1>0 DEF IsRun
<1>2. \A i \in 1 .. Len(q) : D[i] = Round(D[i - 1], q[i])
  BY <1>0 DEF IsRun
<1>3. 0 \in S /\ S \in SUBSET Nat
  BY <1>1
<1>4. ASSUME NEW i \in S PROVE i + 1 \in S
  <2>1. SUFFICES ASSUME i + 1 <= Len(p) PROVE C[i + 1] = D[i + 1]
    OBVIOUS
  <2>2. i + 1 \in 1 .. Len(p) /\ i + 1 \in 1 .. Len(q) /\ (i + 1) - 1 = i /\ i <= Len(p)
    BY <2>1
  <2>3. C[i] = D[i]
    BY <2>2
  <2>4. C[i + 1] = Round(C[i], p[i + 1]) /\ D[i + 1] = Round(D[i], q[i + 1])
    BY <1>1, <1>2, <2>2
  <2>. QED BY <2>2, <2>3, <2>4
<1>. HIDE DEF S
<1>5. S = Nat
  BY <1>3, <1>4, NaturalsInduct
<1>. QED BY <1>5 DEF S, C, D

\* The loop ends after l rounds.
Done(run, l) == (\A j \in 1 .. l : run[j - 1].sn # 0) /\ run[l].sn = 0

\* The subtree of n hashes that the leaf with index i is in.
IsRight(i, n) == ~(i < Split(n))

Half(leaf, i, n, path) ==
  IF IsRight(i, n) THEN Climb(leaf, i - Split(n), n - Split(n), path)
  ELSE Climb(leaf, i, Split(n), path)

\* A climb is a climb of the subtree, and a round more.
LEMMA ClimbSplit ==
  ASSUME NEW leaf, NEW n \in Nat, n >= 2, NEW i \in Nat, i < n,
         NEW path, Len(path) \in Nat, NEW l \in 0 .. Len(path)
  PROVE  /\ Done(Climb(leaf, i, n, path), l) <=> l >= 1 /\ Done(Half(leaf, i, n, path), l - 1)
         /\ l >= 1 /\ Done(Half(leaf, i, n, path), l - 1) =>
              Climb(leaf, i, n, path)[l].computed =
                IF IsRight(i, n) THEN HashNode(path[l], Half(leaf, i, n, path)[l - 1].computed)
                ELSE HashNode(Half(leaf, i, n, path)[l - 1].computed, path[l])
<1>. DEFINE k == Split(n)
            r == IsRight(i, n)
            A == Half(leaf, i, n, path)
            B == Climb(leaf, i, n, path)
            N == Len(path)
<1>1. k \in Nat /\ 0 < k /\ k < n /\ n <= 2 * k /\ \E d \in Nat : k = Power[d]
  BY SplitIs
<1>2. r \in BOOLEAN /\ (r <=> ~(i < k))
  BY DEF IsRight
<1>3. /\ A[0] = IF r THEN [computed |-> leaf, fn |-> i - k, sn |-> (n - k) - 1]
                ELSE [computed |-> leaf, fn |-> i, sn |-> k - 1]
      /\ \A j \in 1 .. N : A[j] = Round(A[j - 1], path[j])
  <2>1. CASE r
    <3>1. IsRun(A, leaf, i - k, n - k, path)
      BY <2>1, ClimbIs DEF Half
    <3>. HIDE DEF r, A
    <3>. QED BY <2>1, <3>1 DEF IsRun
  <2>2. CASE ~r
    <3>1. IsRun(A, leaf, i, k, path)
      BY <2>2, ClimbIs DEF Half
    <3>. HIDE DEF r, A
    <3>. QED BY <2>2, <3>1 DEF IsRun
  <2>. QED BY <2>1, <2>2
<1>4. /\ B[0] = [computed |-> leaf, fn |-> i, sn |-> n - 1]
      /\ \A j \in 1 .. N : B[j] = Round(B[j - 1], path[j])
  <2>1. IsRun(B, leaf, i, n, path)
    BY ClimbIs
  <2>. HIDE DEF B
  <2>. QED BY <2>1 DEF IsRun
<1>. HIDE DEF k, r, A, B
<1>5. Beside(A[0], B[0], r)
  <2>1. PICK d \in Nat : k = Power[d]
    BY <1>1
  <2>2. CASE r
    <3>1. /\ A[0].computed = leaf /\ A[0].fn = i - k /\ A[0].sn = (n - k) - 1
          /\ B[0].computed = leaf /\ B[0].fn = i /\ B[0].sn = n - 1
      BY <1>3, <1>4, <2>2
    <3>2. i - k \in Nat /\ (n - k) - 1 \in Nat /\ i - k <= (n - k) - 1 /\ (n - k) - 1 < k
          /\ i = (i - k) + k /\ n - 1 = ((n - k) - 1) + k /\ n - 1 \in Nat
      <4>1. k <= i /\ k \in Nat /\ k < n /\ n <= 2 * k
        BY <1>1, <1>2, <2>2
      <4>2. i - k \in Nat /\ i = (i - k) + k
        BY <4>1
      <4>3. n - k \in Nat /\ n - k >= 1 /\ n - k <= k
        BY <4>1
      <4>4. n - 1 \in Nat /\ n - 1 = ((n - k) - 1) + k
        BY <4>1
      <4>5. (n - k) - 1 \in Nat /\ (n - k) - 1 < k
        BY <4>1, <4>3
      <4>6. i - k <= (n - k) - 1
        BY <4>1
      <4>. QED BY <4>2, <4>4, <4>5, <4>6
    <3>3. OnTheRight(A[0], B[0], d)
      BY <2>1, <3>1, <3>2 DEF OnTheRight
    <3>. QED BY <2>2, <3>1, <3>2, <3>3 DEF Beside, Placed
  <2>3. CASE ~r
    <3>1. /\ A[0].computed = leaf /\ A[0].fn = i /\ A[0].sn = k - 1
          /\ B[0].computed = leaf /\ B[0].fn = i /\ B[0].sn = n - 1
      BY <1>3, <1>4, <2>3
    <3>2. k - 1 \in Nat /\ i <= k - 1 /\ (k - 1) + 1 = k /\ k <= n - 1 /\ n - 1 < 2 * k /\ n - 1 \in Nat
      BY <1>1, <1>2, <2>3
    <3>3. OnTheLeft(A[0], B[0], d)
      BY <2>1, <3>1, <3>2 DEF OnTheLeft
    <3>. QED BY <2>3, <3>1, <3>2, <3>3 DEF Beside, Placed
  <2>. QED BY <1>2, <2>2, <2>3
<1>6. ASSUME NEW j \in 0 .. N, \A q \in 1 .. j : A[q - 1].sn # 0 PROVE Beside(A[j], B[j], r)
  <2>. DEFINE S == {m \in Nat : m <= j => Beside(A[m], B[m], r)}
  <2>1. 0 \in S /\ S \in SUBSET Nat
    BY <1>5
  <2>2. ASSUME NEW m \in S PROVE m + 1 \in S
    <3>1. SUFFICES ASSUME m + 1 <= j PROVE Beside(A[m + 1], B[m + 1], r)
      OBVIOUS
    <3>2. m + 1 \in 1 .. N /\ m + 1 \in 1 .. j /\ (m + 1) - 1 = m /\ m <= j
      BY <3>1
    <3>3. A[m].sn # 0 /\ Beside(A[m], B[m], r)
      <4>1. A[(m + 1) - 1].sn # 0
        BY <1>6, <3>2
      <4>. QED BY <3>2, <4>1
    <3>4. Beside(Round(A[m], path[m + 1]), Round(B[m], path[m + 1]), r)
      BY <1>2, <3>3, RoundBeside
    <3>5. A[m + 1] = Round(A[m], path[m + 1]) /\ B[m + 1] = Round(B[m], path[m + 1])
      BY <1>3, <1>4, <3>2
    <3>. QED BY <3>4, <3>5
  <2>. HIDE DEF S
  <2>3. S = Nat
    BY <2>1, <2>2, NaturalsInduct
  <2>4. j \in S
    BY <2>3
  <2>. QED BY <2>4 DEF S
<1>7. ASSUME NEW j \in 0 .. N, Beside(A[j], B[j], r) PROVE B[j].sn # 0
  BY <1>2, <1>7, RoundAbove
<1>8. ASSUME NEW j \in 0 .. N, j + 1 <= N, Beside(A[j], B[j], r), A[j].sn = 0
      PROVE  /\ B[j + 1].sn = 0
             /\ B[j + 1].computed = IF r THEN HashNode(path[j + 1], A[j].computed)
                                    ELSE HashNode(A[j].computed, path[j + 1])
  <2>1. B[j + 1] = Round(B[j], path[j + 1])
    <3>1. j + 1 \in 1 .. N /\ (j + 1) - 1 = j
      BY <1>8
    <3>. QED BY <1>4, <3>1
  <2>2. /\ Round(B[j], path[j + 1]).sn = 0
        /\ Round(B[j], path[j + 1]).computed = IF r THEN HashNode(path[j + 1], A[j].computed)
                                               ELSE HashNode(A[j].computed, path[j + 1])
    BY <1>2, <1>8, RoundAbove
  <2>. QED BY <2>1, <2>2
<1>9. ASSUME l >= 1, Done(A, l - 1)
      PROVE  /\ Done(B, l)
             /\ B[l].computed = IF r THEN HashNode(path[l], A[l - 1].computed)
                                ELSE HashNode(A[l - 1].computed, path[l])
  <2>1. l - 1 \in 0 .. N /\ (l - 1) + 1 = l /\ l <= N
    BY <1>9
  <2>2. (\A j \in 1 .. l - 1 : A[j - 1].sn # 0) /\ A[l - 1].sn = 0
    BY <1>9 DEF Done
  <2>3. ASSUME NEW j \in 0 .. l - 1 PROVE Beside(A[j], B[j], r)
    <3>1. j \in 0 .. N /\ \A q \in 1 .. j : q \in 1 .. l - 1
      BY <2>1
    <3>. QED BY <1>6, <2>2, <3>1
  <2>4. \A j \in 1 .. l : B[j - 1].sn # 0
    <3>1. \A j \in 1 .. l : j - 1 \in 0 .. l - 1 /\ j - 1 \in 0 .. N
      BY <2>1
    <3>. QED BY <1>7, <2>3, <3>1
  <2>5. Beside(A[l - 1], B[l - 1], r)
    <3>1. l - 1 \in 0 .. l - 1
      BY <2>1
    <3>. QED BY <2>3, <3>1
  <2>6. /\ B[(l - 1) + 1].sn = 0
        /\ B[(l - 1) + 1].computed = IF r THEN HashNode(path[(l - 1) + 1], A[l - 1].computed)
                                     ELSE HashNode(A[l - 1].computed, path[(l - 1) + 1])
    BY <1>8, <2>1, <2>2, <2>5
  <2>. QED BY <2>1, <2>4, <2>6 DEF Done
<1>10. ASSUME Done(B, l) PROVE l >= 1 /\ Done(A, l - 1)
  <2>1. (\A j \in 1 .. l : B[j - 1].sn # 0) /\ B[l].sn = 0
    BY <1>10 DEF Done
  <2>2. l >= 1
    <3>1. B[0].sn # 0
      BY <1>5, <1>7
    <3>2. l # 0
      BY <2>1, <3>1
    <3>. QED BY <3>2
  <2>. DEFINE S == {j \in Nat : j <= l - 1 => \A q \in 1 .. j : A[q - 1].sn # 0}
  <2>3. 0 \in S /\ S \in SUBSET Nat
    OBVIOUS
  <2>4. ASSUME NEW j \in S PROVE j + 1 \in S
    <3>1. SUFFICES ASSUME j + 1 <= l - 1, NEW q \in 1 .. j + 1 PROVE A[q - 1].sn # 0
      OBVIOUS
    <3>2. j \in 0 .. N /\ j <= l - 1 /\ j + 1 <= N /\ (j + 1) + 1 \in 1 .. l /\ ((j + 1) + 1) - 1 = j + 1
      BY <2>2, <3>1
    <3>3. \A m \in 1 .. j : A[m - 1].sn # 0
      BY <3>2
    <3>4. Beside(A[j], B[j], r)
      BY <1>6, <3>2, <3>3
    <3>5. B[j + 1].sn # 0
      BY <2>1, <3>2
    <3>6. A[j].sn # 0
      BY <1>8, <3>2, <3>4, <3>5
    <3>7. q \in 1 .. j \/ q - 1 = j
      BY <3>2
    <3>. QED BY <3>3, <3>6, <3>7
  <2>5. \A j \in 1 .. l - 1 : A[j - 1].sn # 0
    <3>. HIDE DEF S
    <3>1. S = Nat
      BY <2>3, <2>4, NaturalsInduct
    <3>2. l - 1 \in S /\ l - 1 <= l - 1
      BY <2>2, <3>1
    <3>. QED BY <3>2 DEF S
  <2>6. l - 1 \in 0 .. N /\ l \in 0 .. N
    BY <2>2
  <2>7. A[l - 1].sn = 0
    <3>1. SUFFICES ASSUME A[l - 1].sn # 0 PROVE FALSE
      OBVIOUS
    <3>2. \A j \in 1 .. l : A[j - 1].sn # 0
      <4>1. \A j \in 1 .. l : j \in 1 .. l - 1 \/ j = l
        BY <2>2
      <4>. QED BY <2>5, <3>1, <4>1
    <3>3. Beside(A[l], B[l], r)
      BY <1>6, <2>6, <3>2
    <3>4. B[l].sn # 0
      BY <1>7, <2>6, <3>3
    <3>. QED BY <2>1, <3>4
  <2>. QED BY <2>2, <2>5, <2>7 DEF Done
<1>. QED BY <1>9, <1>10 DEF r, A, B

\* Both halves of a tree are smaller than it, and neither is empty.
LEMMA HalvesAre ==
  ASSUME NEW n \in Nat, n >= 2
  PROVE  /\ Split(n) \in 1 .. n - 1 /\ n - Split(n) \in 1 .. n - 1
         /\ Split(n) \in Nat /\ n - Split(n) \in Nat /\ Split(n) < n /\ n - Split(n) < n
<1>1. Split(n) \in Nat /\ 0 < Split(n) /\ Split(n) < n
  BY SplitIs
<1>. QED BY <1>1

\* The root of a slice, from the roots of its halves.
LEMMA RootOfIs ==
  ASSUME NEW hs, Len(hs) \in Nat
  PROVE  \A n \in 0 .. Len(hs) : \A lo \in Nat :
           /\ n = 0 => RootOf(hs)[n][lo] = EmptyRoot
           /\ n = 1 => RootOf(hs)[n][lo] = hs[lo + 1]
           /\ n >= 2 => RootOf(hs)[n][lo] = HashNode(RootOf(hs)[Split(n)][lo],
                                                     RootOf(hs)[n - Split(n)][lo + Split(n)])
<1>. DEFINE N == Len(hs)
            Of(g, n) == [lo \in Nat |->
              IF n = 0 THEN EmptyRoot
              ELSE IF n = 1 THEN hs[lo + 1]
              ELSE HashNode(g[Split(n)][lo], g[n - Split(n)][lo + Split(n)])]
            Is(f) == f = [n \in 0 .. N |-> Of(f, n)]
            S == {n \in Nat : \E g : \A m \in Nat : m < n => g[m] = Of(g, m)}
<1>0. N \in Nat
  OBVIOUS
<1>1. ASSUME NEW g, NEW h, NEW n \in Nat, \A m \in Nat : m < n => g[m] = h[m]
      PROVE  Of(g, n) = Of(h, n)
  <2>1. CASE n <= 1
    <3>1. n = 0 \/ n = 1
      BY <2>1
    <3>. QED BY <3>1
  <2>2. CASE n >= 2
    <3>1. Split(n) \in Nat /\ n - Split(n) \in Nat /\ Split(n) < n /\ n - Split(n) < n
      BY <2>2, HalvesAre
    <3>2. g[Split(n)] = h[Split(n)] /\ g[n - Split(n)] = h[n - Split(n)]
      BY <1>1, <3>1
    <3>. QED BY <3>2
  <2>. QED BY <2>1, <2>2
<1>2. Is(RootOf(hs))
  <2>. DEFINE C == RootOf(hs)
  <2>1. C = CHOOSE f : Is(f)
    BY DEF RootOf
  <2>. HIDE DEF Of, C, N
  <2>2. 0 \in S /\ S \in SUBSET Nat
    OBVIOUS
  <2>3. ASSUME NEW n \in S PROVE n + 1 \in S
    <3>1. n \in Nat
      OBVIOUS
    <3>2. PICK g : \A m \in Nat : m < n => g[m] = Of(g, m)
      OBVIOUS
    <3>. DEFINE h == [m \in 0 .. n |-> IF m = n THEN Of(g, n) ELSE g[m]]
    <3>3. h[n] = Of(g, n) /\ \A m \in Nat : m < n => h[m] = g[m]
      BY <3>1
    <3>. HIDE DEF h
    <3>4. ASSUME NEW m \in Nat, m < n + 1 PROVE h[m] = Of(h, m)
      <4>1. m < n \/ m = n
        BY <3>1, <3>4
      <4>2. \A i \in Nat : i < m => g[i] = h[i]
        <5>1. \A i \in Nat : i < m => i < n
          BY <3>1, <4>1
        <5>. QED BY <3>3, <5>1
      <4>3. Of(g, m) = Of(h, m)
        BY <1>1, <4>2
      <4>. QED BY <3>2, <3>3, <4>1, <4>3
    <3>. QED BY <3>1, <3>4
  <2>4. S = Nat
    <3>. HIDE DEF S
    <3>. QED BY <2>2, <2>3, NaturalsInduct
  <2>5. N + 1 \in S
    <3>. HIDE DEF S
    <3>. QED BY <1>0, <2>4
  <2>6. PICK g : \A m \in Nat : m < N + 1 => g[m] = Of(g, m)
    BY <2>5
  <2>. DEFINE f == [m \in 0 .. N |-> g[m]]
  <2>7. \A m \in 0 .. N : m \in Nat /\ m < N + 1 /\ f[m] = g[m] /\ \A i \in Nat : i < m => f[i] = g[i]
    BY <1>0
  <2>8. f = [m \in 0 .. N |-> f[m]]
    OBVIOUS
  <2>. HIDE DEF f
  <2>9. \A m \in 0 .. N : f[m] = Of(f, m)
    <3>1. ASSUME NEW m \in 0 .. N PROVE f[m] = Of(f, m)
      <4>1. Of(f, m) = Of(g, m)
        BY <1>1, <2>7
      <4>. QED BY <2>6, <2>7, <4>1
    <3>. QED BY <3>1
  <2>10. Is(f)
    BY <2>8, <2>9, Zenon
  <2>. HIDE DEF Is
  <2>11. Is(C)
    BY <2>1, <2>10
  <2>. QED BY <2>11 DEF C
<1>3. \A n \in 0 .. N : RootOf(hs)[n] = Of(RootOf(hs), n)
  <2>. DEFINE C == RootOf(hs)
  <2>. HIDE DEF Of, C
  <2>. QED BY <1>2, Zenon
<1>4. \A n \in 0 .. N : \A lo \in Nat :
        RootOf(hs)[n][lo] = IF n = 0 THEN EmptyRoot
                            ELSE IF n = 1 THEN hs[lo + 1]
                            ELSE HashNode(RootOf(hs)[Split(n)][lo], RootOf(hs)[n - Split(n)][lo + Split(n)])
  <2>. DEFINE C == RootOf(hs)
  <2>. HIDE DEF C
  <2>. QED BY <1>3
<1>5. ASSUME NEW n \in 0 .. N PROVE (n = 0 => n # 1) /\ (n >= 2 => n # 0 /\ n # 1)
  BY <1>0
<1>. QED BY <1>4, <1>5

-----------------------------------------------------------------------------
(* The trees and their proofs, one step of each recursion.                 *)

InclusionStep(hs, g, n, lo, i) ==
  IF n <= 1 THEN <<>>
  ELSE IF i < Split(n) THEN Append(g[Split(n)][lo][i], RootOf(hs)[n - Split(n)][lo + Split(n)])
  ELSE Append(g[n - Split(n)][lo + Split(n)][i - Split(n)], RootOf(hs)[Split(n)][lo])

ConsistencyStep(hs, g, n, lo, m, isRoot) ==
  IF m = n THEN IF isRoot THEN <<>> ELSE <<RootOf(hs)[n][lo]>>
  ELSE IF m <= Split(n)
       THEN Append(g[Split(n)][lo][m][isRoot], RootOf(hs)[n - Split(n)][lo + Split(n)])
  ELSE Append(g[n - Split(n)][lo + Split(n)][m - Split(n)][FALSE], RootOf(hs)[Split(n)][lo])

\* What the half of the tree that m ends in implies.
Below(g, n, m, isRoot) ==
  IF m <= Split(n) THEN g[Split(n)][m][isRoot] ELSE g[n - Split(n)][m - Split(n)][FALSE]

\* What a tree implies, from that.
Above(path, isLeft, sub) ==
  LET h == path[sub.used + 1]
  IN IF ~sub.ok \/ sub.used = Len(path) THEN Short
     ELSE [ok |-> TRUE, used |-> sub.used + 1,
           old |-> IF isLeft THEN sub.old ELSE HashNode(h, sub.old),
           new |-> IF isLeft THEN HashNode(sub.new, h) ELSE HashNode(h, sub.new)]

Whole(path, oldRoot, isRoot) ==
  IF isRoot THEN [ok |-> TRUE, old |-> oldRoot, new |-> oldRoot, used |-> 0]
  ELSE IF path = <<>> THEN Short
  ELSE [ok |-> TRUE, old |-> path[1], new |-> path[1], used |-> 1]

ConsumeStep(path, oldRoot, g, n, m, isRoot) ==
  IF m = n THEN Whole(path, oldRoot, isRoot)
  ELSE Above(path, m <= Split(n), Below(g, n, m, isRoot))

\* The path of a leaf, from its path in the half that it is in.
LEMMA InclusionIs ==
  ASSUME NEW hs, Len(hs) \in Nat
  PROVE  \A n \in 0 .. Len(hs) : \A lo \in Nat : \A i \in Nat :
           InclusionOf(hs)[n][lo][i] = InclusionStep(hs, InclusionOf(hs), n, lo, i)
<1>. DEFINE N == Len(hs)
            Of(g, n) == [lo \in Nat |-> [i \in Nat |-> InclusionStep(hs, g, n, lo, i)]]
            Is(f) == f = [n \in 0 .. N |-> Of(f, n)]
            S == {n \in Nat : \E g : \A m \in Nat : m < n => g[m] = Of(g, m)}
<1>0. N \in Nat
  OBVIOUS
<1>1. ASSUME NEW g, NEW h, NEW n \in Nat, \A m \in Nat : m < n => g[m] = h[m]
      PROVE  Of(g, n) = Of(h, n)
  <2>1. ASSUME NEW lo \in Nat, NEW i \in Nat PROVE InclusionStep(hs, g, n, lo, i) = InclusionStep(hs, h, n, lo, i)
    <3>1. CASE n <= 1
      BY <3>1 DEF InclusionStep
    <3>2. CASE n >= 2
      <4>1. n >= 2
        BY <3>2
      <4>2. Split(n) \in Nat /\ n - Split(n) \in Nat /\ Split(n) < n /\ n - Split(n) < n
        BY <4>1, HalvesAre
      <4>3. g[Split(n)] = h[Split(n)] /\ g[n - Split(n)] = h[n - Split(n)]
        BY <1>1, <4>2
      <4>. QED BY <3>2, <4>1, <4>3 DEF InclusionStep
    <3>. QED BY <3>1, <3>2
  <2>. QED BY <2>1
<1>2. Is(InclusionOf(hs))
  <2>. DEFINE C == InclusionOf(hs)
  <2>1. C = CHOOSE f : Is(f)
    BY DEF InclusionOf, InclusionStep
  <2>. HIDE DEF Of, C, N
  <2>2. 0 \in S /\ S \in SUBSET Nat
    OBVIOUS
  <2>3. ASSUME NEW n \in S PROVE n + 1 \in S
    <3>1. n \in Nat
      OBVIOUS
    <3>2. PICK g : \A m \in Nat : m < n => g[m] = Of(g, m)
      OBVIOUS
    <3>. DEFINE h == [m \in 0 .. n |-> IF m = n THEN Of(g, n) ELSE g[m]]
    <3>3. h[n] = Of(g, n) /\ \A m \in Nat : m < n => h[m] = g[m]
      BY <3>1
    <3>. HIDE DEF h
    <3>4. ASSUME NEW m \in Nat, m < n + 1 PROVE h[m] = Of(h, m)
      <4>1. m < n \/ m = n
        BY <3>1, <3>4
      <4>2. \A i \in Nat : i < m => g[i] = h[i]
        <5>1. \A i \in Nat : i < m => i < n
          BY <3>1, <4>1
        <5>. QED BY <3>3, <5>1
      <4>3. Of(g, m) = Of(h, m)
        BY <1>1, <4>2
      <4>. QED BY <3>2, <3>3, <4>1, <4>3
    <3>. QED BY <3>1, <3>4
  <2>4. S = Nat
    <3>. HIDE DEF S
    <3>. QED BY <2>2, <2>3, NaturalsInduct
  <2>5. N + 1 \in S
    <3>. HIDE DEF S
    <3>. QED BY <1>0, <2>4
  <2>6. PICK g : \A m \in Nat : m < N + 1 => g[m] = Of(g, m)
    BY <2>5
  <2>. DEFINE f == [m \in 0 .. N |-> g[m]]
  <2>7. \A m \in 0 .. N : m \in Nat /\ m < N + 1 /\ f[m] = g[m] /\ \A i \in Nat : i < m => f[i] = g[i]
    BY <1>0
  <2>8. f = [m \in 0 .. N |-> f[m]]
    OBVIOUS
  <2>. HIDE DEF f
  <2>9. \A m \in 0 .. N : f[m] = Of(f, m)
    <3>1. ASSUME NEW m \in 0 .. N PROVE f[m] = Of(f, m)
      <4>1. Of(f, m) = Of(g, m)
        BY <1>1, <2>7
      <4>. QED BY <2>6, <2>7, <4>1
    <3>. QED BY <3>1
  <2>10. Is(f)
    BY <2>8, <2>9, Zenon
  <2>. HIDE DEF Is
  <2>11. Is(C)
    BY <2>1, <2>10
  <2>. QED BY <2>11 DEF C
<1>3. \A n \in 0 .. N : InclusionOf(hs)[n] = Of(InclusionOf(hs), n)
  <2>. DEFINE C == InclusionOf(hs)
  <2>. HIDE DEF Of, C
  <2>. QED BY <1>2, Zenon
<1>. DEFINE C == InclusionOf(hs)
<1>. HIDE DEF C, Is, S
<1>4. \A n \in 0 .. N : C[n] = Of(C, n)
  BY <1>3 DEF C
<1>5. ASSUME NEW n \in 0 .. N, NEW lo \in Nat, NEW i \in Nat
      PROVE  C[n][lo][i] = InclusionStep(hs, C, n, lo, i)
  <2>1. C[n] = Of(C, n)
    BY <1>4
  <2>. QED BY <2>1
<1>6. \A n \in 0 .. N : \A lo \in Nat : \A i \in Nat : C[n][lo][i] = InclusionStep(hs, C, n, lo, i)
  BY <1>5
<1>. QED BY <1>6 DEF C

\* What shows that a slice grew from its first m hashes.
LEMMA ConsistencyIs ==
  ASSUME NEW hs, Len(hs) \in Nat
  PROVE  \A n \in 0 .. Len(hs) : \A lo \in Nat : \A m \in 1 .. n : \A isRoot \in BOOLEAN :
           ConsistencyOf(hs)[n][lo][m][isRoot] = ConsistencyStep(hs, ConsistencyOf(hs), n, lo, m, isRoot)
<1>. DEFINE N == Len(hs)
            Of(g, n) == [lo \in Nat |-> [m \in 1 .. n |-> [isRoot \in BOOLEAN |-> ConsistencyStep(hs, g, n, lo, m, isRoot)]]]
            Is(f) == f = [n \in 0 .. N |-> Of(f, n)]
            S == {n \in Nat : \E g : \A m \in Nat : m < n => g[m] = Of(g, m)}
<1>0. N \in Nat
  OBVIOUS
<1>1. ASSUME NEW g, NEW h, NEW n \in Nat, \A m \in Nat : m < n => g[m] = h[m]
      PROVE  Of(g, n) = Of(h, n)
  <2>1. ASSUME NEW lo \in Nat, NEW m \in 1 .. n, NEW isRoot \in BOOLEAN PROVE ConsistencyStep(hs, g, n, lo, m, isRoot) = ConsistencyStep(hs, h, n, lo, m, isRoot)
    <3>1. CASE m = n
      BY <3>1 DEF ConsistencyStep
    <3>2. CASE m # n
      <4>1. n >= 2
        BY <3>2
      <4>2. Split(n) \in Nat /\ n - Split(n) \in Nat /\ Split(n) < n /\ n - Split(n) < n
        BY <4>1, HalvesAre
      <4>3. g[Split(n)] = h[Split(n)] /\ g[n - Split(n)] = h[n - Split(n)]
        BY <1>1, <4>2
      <4>. QED BY <3>2, <4>1, <4>3 DEF ConsistencyStep
    <3>. QED BY <3>1, <3>2
  <2>. QED BY <2>1
<1>2. Is(ConsistencyOf(hs))
  <2>. DEFINE C == ConsistencyOf(hs)
  <2>1. C = CHOOSE f : Is(f)
    BY DEF ConsistencyOf, ConsistencyStep
  <2>. HIDE DEF Of, C, N
  <2>2. 0 \in S /\ S \in SUBSET Nat
    OBVIOUS
  <2>3. ASSUME NEW n \in S PROVE n + 1 \in S
    <3>1. n \in Nat
      OBVIOUS
    <3>2. PICK g : \A m \in Nat : m < n => g[m] = Of(g, m)
      OBVIOUS
    <3>. DEFINE h == [m \in 0 .. n |-> IF m = n THEN Of(g, n) ELSE g[m]]
    <3>3. h[n] = Of(g, n) /\ \A m \in Nat : m < n => h[m] = g[m]
      BY <3>1
    <3>. HIDE DEF h
    <3>4. ASSUME NEW m \in Nat, m < n + 1 PROVE h[m] = Of(h, m)
      <4>1. m < n \/ m = n
        BY <3>1, <3>4
      <4>2. \A i \in Nat : i < m => g[i] = h[i]
        <5>1. \A i \in Nat : i < m => i < n
          BY <3>1, <4>1
        <5>. QED BY <3>3, <5>1
      <4>3. Of(g, m) = Of(h, m)
        BY <1>1, <4>2
      <4>. QED BY <3>2, <3>3, <4>1, <4>3
    <3>. QED BY <3>1, <3>4
  <2>4. S = Nat
    <3>. HIDE DEF S
    <3>. QED BY <2>2, <2>3, NaturalsInduct
  <2>5. N + 1 \in S
    <3>. HIDE DEF S
    <3>. QED BY <1>0, <2>4
  <2>6. PICK g : \A m \in Nat : m < N + 1 => g[m] = Of(g, m)
    BY <2>5
  <2>. DEFINE f == [m \in 0 .. N |-> g[m]]
  <2>7. \A m \in 0 .. N : m \in Nat /\ m < N + 1 /\ f[m] = g[m] /\ \A i \in Nat : i < m => f[i] = g[i]
    BY <1>0
  <2>8. f = [m \in 0 .. N |-> f[m]]
    OBVIOUS
  <2>. HIDE DEF f
  <2>9. \A m \in 0 .. N : f[m] = Of(f, m)
    <3>1. ASSUME NEW m \in 0 .. N PROVE f[m] = Of(f, m)
      <4>1. Of(f, m) = Of(g, m)
        BY <1>1, <2>7
      <4>. QED BY <2>6, <2>7, <4>1
    <3>. QED BY <3>1
  <2>10. Is(f)
    BY <2>8, <2>9, Zenon
  <2>. HIDE DEF Is
  <2>11. Is(C)
    BY <2>1, <2>10
  <2>. QED BY <2>11 DEF C
<1>3. \A n \in 0 .. N : ConsistencyOf(hs)[n] = Of(ConsistencyOf(hs), n)
  <2>. DEFINE C == ConsistencyOf(hs)
  <2>. HIDE DEF Of, C
  <2>. QED BY <1>2, Zenon
<1>. DEFINE C == ConsistencyOf(hs)
<1>. HIDE DEF C, Is, S
<1>4. \A n \in 0 .. N : C[n] = Of(C, n)
  BY <1>3 DEF C
<1>5. ASSUME NEW n \in 0 .. N, NEW lo \in Nat, NEW m \in 1 .. n, NEW isRoot \in BOOLEAN
      PROVE  C[n][lo][m][isRoot] = ConsistencyStep(hs, C, n, lo, m, isRoot)
  <2>1. C[n] = Of(C, n)
    BY <1>4
  <2>. QED BY <2>1
<1>6. \A n \in 0 .. N : \A lo \in Nat : \A m \in 1 .. n : \A isRoot \in BOOLEAN : C[n][lo][m][isRoot] = ConsistencyStep(hs, C, n, lo, m, isRoot)
  BY <1>5
<1>. QED BY <1>6 DEF C

\* What a proof implies of a tree, from what it implies of the half that m ends in.
LEMMA ConsumeIs ==
  ASSUME NEW size \in Nat, NEW path, NEW oldRoot
  PROVE  \A n \in 0 .. size : \A m \in 1 .. n : \A isRoot \in BOOLEAN :
           Consume(size, path, oldRoot)[n][m][isRoot] = ConsumeStep(path, oldRoot, Consume(size, path, oldRoot), n, m, isRoot)
<1>. DEFINE N == size
            Of(g, n) == [m \in 1 .. n |-> [isRoot \in BOOLEAN |-> ConsumeStep(path, oldRoot, g, n, m, isRoot)]]
            Is(f) == f = [n \in 0 .. N |-> Of(f, n)]
            S == {n \in Nat : \E g : \A m \in Nat : m < n => g[m] = Of(g, m)}
<1>0. N \in Nat
  OBVIOUS
<1>1. ASSUME NEW g, NEW h, NEW n \in Nat, \A m \in Nat : m < n => g[m] = h[m]
      PROVE  Of(g, n) = Of(h, n)
  <2>1. ASSUME NEW m \in 1 .. n, NEW isRoot \in BOOLEAN PROVE ConsumeStep(path, oldRoot, g, n, m, isRoot) = ConsumeStep(path, oldRoot, h, n, m, isRoot)
    <3>1. CASE m = n
      BY <3>1 DEF ConsumeStep
    <3>2. CASE m # n
      <4>1. n >= 2
        BY <3>2
      <4>2. Split(n) \in Nat /\ n - Split(n) \in Nat /\ Split(n) < n /\ n - Split(n) < n
        BY <4>1, HalvesAre
      <4>3. g[Split(n)] = h[Split(n)] /\ g[n - Split(n)] = h[n - Split(n)]
        BY <1>1, <4>2
      <4>. QED BY <3>2, <4>1, <4>3 DEF ConsumeStep, Whole, Above, Below
    <3>. QED BY <3>1, <3>2
  <2>. QED BY <2>1
<1>2. Is(Consume(size, path, oldRoot))
  <2>. DEFINE C == Consume(size, path, oldRoot)
  <2>1. C = CHOOSE f : Is(f)
    BY DEF Consume, ConsumeStep, Whole, Above, Below
  <2>. HIDE DEF Of, C, N
  <2>2. 0 \in S /\ S \in SUBSET Nat
    OBVIOUS
  <2>3. ASSUME NEW n \in S PROVE n + 1 \in S
    <3>1. n \in Nat
      OBVIOUS
    <3>2. PICK g : \A m \in Nat : m < n => g[m] = Of(g, m)
      OBVIOUS
    <3>. DEFINE h == [m \in 0 .. n |-> IF m = n THEN Of(g, n) ELSE g[m]]
    <3>3. h[n] = Of(g, n) /\ \A m \in Nat : m < n => h[m] = g[m]
      BY <3>1
    <3>. HIDE DEF h
    <3>4. ASSUME NEW m \in Nat, m < n + 1 PROVE h[m] = Of(h, m)
      <4>1. m < n \/ m = n
        BY <3>1, <3>4
      <4>2. \A i \in Nat : i < m => g[i] = h[i]
        <5>1. \A i \in Nat : i < m => i < n
          BY <3>1, <4>1
        <5>. QED BY <3>3, <5>1
      <4>3. Of(g, m) = Of(h, m)
        BY <1>1, <4>2
      <4>. QED BY <3>2, <3>3, <4>1, <4>3
    <3>. QED BY <3>1, <3>4
  <2>4. S = Nat
    <3>. HIDE DEF S
    <3>. QED BY <2>2, <2>3, NaturalsInduct
  <2>5. N + 1 \in S
    <3>. HIDE DEF S
    <3>. QED BY <1>0, <2>4
  <2>6. PICK g : \A m \in Nat : m < N + 1 => g[m] = Of(g, m)
    BY <2>5
  <2>. DEFINE f == [m \in 0 .. N |-> g[m]]
  <2>7. \A m \in 0 .. N : m \in Nat /\ m < N + 1 /\ f[m] = g[m] /\ \A i \in Nat : i < m => f[i] = g[i]
    BY <1>0
  <2>8. f = [m \in 0 .. N |-> f[m]]
    OBVIOUS
  <2>. HIDE DEF f
  <2>9. \A m \in 0 .. N : f[m] = Of(f, m)
    <3>1. ASSUME NEW m \in 0 .. N PROVE f[m] = Of(f, m)
      <4>1. Of(f, m) = Of(g, m)
        BY <1>1, <2>7
      <4>. QED BY <2>6, <2>7, <4>1
    <3>. QED BY <3>1
  <2>10. Is(f)
    BY <2>8, <2>9, Zenon
  <2>. HIDE DEF Is
  <2>11. Is(C)
    BY <2>1, <2>10
  <2>. QED BY <2>11 DEF C
<1>3. \A n \in 0 .. N : Consume(size, path, oldRoot)[n] = Of(Consume(size, path, oldRoot), n)
  <2>. DEFINE C == Consume(size, path, oldRoot)
  <2>. HIDE DEF Of, C
  <2>. QED BY <1>2, Zenon
<1>. DEFINE C == Consume(size, path, oldRoot)
<1>. HIDE DEF C, Is, S
<1>4. \A n \in 0 .. N : C[n] = Of(C, n)
  BY <1>3 DEF C
<1>5. ASSUME NEW n \in 0 .. N, NEW m \in 1 .. n, NEW isRoot \in BOOLEAN
      PROVE  C[n][m][isRoot] = ConsumeStep(path, oldRoot, C, n, m, isRoot)
  <2>1. C[n] = Of(C, n)
    BY <1>4
  <2>. QED BY <2>1
<1>6. \A n \in 0 .. N : \A m \in 1 .. n : \A isRoot \in BOOLEAN : C[n][m][isRoot] = ConsumeStep(path, oldRoot, C, n, m, isRoot)
  BY <1>5
<1>. QED BY <1>6 DEF C

-----------------------------------------------------------------------------
(* Trees.                                                                  *)

\* A list is a sequence.
LEMMA ListIsSeq ==
  ASSUME NEW n \in Nat, NEW s, IsList(s, n)
  PROVE  /\ s \in Seq({s[i] : i \in 1 .. n}) /\ Len(s) = n /\ DOMAIN s = 1 .. n
<1>1. s \in [1 .. n -> {s[i] : i \in 1 .. n}]
  <2>. DEFINE S == {s[i] : i \in 1 .. n}
  <2>1. \A i \in 1 .. n : s[i] \in S
    OBVIOUS
  <2>. HIDE DEF S
  <2>2. [i \in 1 .. n |-> s[i]] \in [1 .. n -> S]
    BY <2>1
  <2>. QED BY <2>2 DEF IsList, S
<1>2. s \in Seq({s[i] : i \in 1 .. n}) /\ Len(s) = n
  BY <1>1, IsSequence
<1>. QED BY <1>1, <1>2

\* t is s and then x.
Longer(t, s, n, x) == IsList(t, n + 1) /\ t[n + 1] = x /\ \A i \in 1 .. n : t[i] = s[i]

LEMMA AppendIs ==
  ASSUME NEW n \in Nat, NEW s, IsList(s, n), NEW x
  PROVE  Longer(Append(s, x), s, n, x)
<1>. DEFINE S == {s[i] : i \in 1 .. n}
            T == S \cup {x}
            t == Append(s, x)
<1>1. s \in Seq(S) /\ Len(s) = n
  BY ListIsSeq
<1>. HIDE DEF S
<1>2. s \in Seq(T) /\ x \in T
  BY <1>1
<1>. HIDE DEF T
<1>3. /\ t \in Seq(T) /\ Len(t) = n + 1 /\ t[n + 1] = x
      /\ \A i \in 1 .. n : t[i] = s[i]
  BY <1>1, <1>2, AppendProperties
<1>. HIDE DEF t
<1>4. t = [i \in 1 .. n + 1 |-> t[i]]
  BY <1>3
<1>. QED BY <1>3, <1>4 DEF IsList, Longer, t

LEMMA FirstOf ==
  ASSUME NEW n \in Nat, NEW s, IsList(s, n), NEW k \in 0 .. n
  PROVE  /\ IsList(First(s, k), k) /\ \A i \in 1 .. k : First(s, k)[i] = s[i]
<1>. DEFINE S == {s[i] : i \in 1 .. n}
            t == First(s, k)
<1>1. s \in Seq(S) /\ Len(s) = n
  BY ListIsSeq
<1>. HIDE DEF S
<1>2. /\ t \in Seq(S) /\ Len(t) = k /\ \A i \in 1 .. k : t[i] = s[i]
  BY <1>1 DEF First
<1>. HIDE DEF t
<1>3. t = [i \in 1 .. k |-> t[i]]
  BY <1>2
<1>. QED BY <1>2, <1>3 DEF IsList, t

\* The hashes of two slices.
SameSlice(hs, lo, ts, to, n) == \A i \in 1 .. n : hs[lo + i] = ts[to + i]

\* A hash determines what it was computed from.
LEMMA NodesApart ==
  ASSUME NEW a, NEW b, NEW c, NEW d
  PROVE  /\ HashNode(a, b) = HashNode(c, d) => a = c /\ b = d
         /\ HashNode(a, b) # HashLeaf(c)
         /\ HashLeaf(a) = HashLeaf(b) => a = b
<1>1. \A u, v, x, y : <<u, v>> = <<x, y>> => u = x /\ v = y
  OBVIOUS
<1>2. "node" # "leaf"
  OBVIOUS
<1>. QED BY <1>1, <1>2, Zenon DEF HashNode, HashLeaf

\* The halves of a slice are slices.
LEMMA HalfSlices ==
  ASSUME NEW hs, NEW lo \in Nat, NEW ts, NEW to \in Nat, NEW n \in Nat, NEW k \in Nat, k <= n
  PROVE  SameSlice(hs, lo, ts, to, n) <=>
           SameSlice(hs, lo, ts, to, k) /\ SameSlice(hs, lo + k, ts, to + k, n - k)
<1>1. ASSUME SameSlice(hs, lo, ts, to, n), NEW i \in 1 .. n - k
      PROVE  hs[lo + k + i] = ts[to + k + i]
  <2>1. k + i \in 1 .. n /\ lo + (k + i) = lo + k + i /\ to + (k + i) = to + k + i
    OBVIOUS
  <2>. QED BY <1>1, <2>1 DEF SameSlice
<1>2. ASSUME SameSlice(hs, lo, ts, to, n), NEW i \in 1 .. k PROVE hs[lo + i] = ts[to + i]
  <2>1. i \in 1 .. n
    OBVIOUS
  <2>. QED BY <1>2, <2>1 DEF SameSlice
<1>3. ASSUME SameSlice(hs, lo, ts, to, k), SameSlice(hs, lo + k, ts, to + k, n - k),
             NEW i \in 1 .. n
      PROVE  hs[lo + i] = ts[to + i]
  <2>1. CASE i <= k
    <3>1. i \in 1 .. k
      BY <2>1
    <3>. QED BY <1>3, <3>1 DEF SameSlice
  <2>2. CASE ~(i <= k)
    <3>1. i - k \in 1 .. n - k /\ lo + k + (i - k) = lo + i /\ to + k + (i - k) = to + i
      BY <2>2
    <3>2. hs[lo + k + (i - k)] = ts[to + k + (i - k)]
      BY <1>3, <3>1 DEF SameSlice
    <3>. QED BY <3>1, <3>2
  <2>. QED BY <2>1, <2>2
<1>4. SameSlice(hs, lo, ts, to, n) => SameSlice(hs, lo, ts, to, k)
  BY <1>2 DEF SameSlice
<1>5. SameSlice(hs, lo, ts, to, n) => SameSlice(hs, lo + k, ts, to + k, n - k)
  BY <1>1 DEF SameSlice
<1>6. SameSlice(hs, lo, ts, to, k) /\ SameSlice(hs, lo + k, ts, to + k, n - k)
        => SameSlice(hs, lo, ts, to, n)
  BY <1>3 DEF SameSlice
<1>. QED BY <1>4, <1>5, <1>6

\* Two slices of one length have one root exactly when they hold the same hashes.
LEMMA RootsTell ==
  ASSUME NEW hs, NEW ts, Len(hs) \in Nat, Len(ts) \in Nat
  PROVE  \A n \in Nat : n <= Len(hs) /\ n <= Len(ts) => \A lo, to \in Nat :
           RootOf(hs)[n][lo] = RootOf(ts)[n][to] <=> SameSlice(hs, lo, ts, to, n)
<1>. DEFINE Tells(n) == n <= Len(hs) /\ n <= Len(ts) => \A lo, to \in Nat :
              RootOf(hs)[n][lo] = RootOf(ts)[n][to] <=> SameSlice(hs, lo, ts, to, n)
            S == {n \in Nat : Tells(n)}
<1>1. ASSUME NEW n \in Nat, \A k \in Nat : k < n => k \in S PROVE n \in S
  <2>1. SUFFICES ASSUME n <= Len(hs), n <= Len(ts), NEW lo \in Nat, NEW to \in Nat
                 PROVE  RootOf(hs)[n][lo] = RootOf(ts)[n][to] <=> SameSlice(hs, lo, ts, to, n)
    OBVIOUS
  <2>2. n \in 0 .. Len(hs) /\ n \in 0 .. Len(ts)
    BY <2>1
  <2>3. CASE n = 0
    <3>1. RootOf(hs)[n][lo] = RootOf(ts)[n][to]
      BY <2>2, <2>3, RootOfIs
    <3>2. SameSlice(hs, lo, ts, to, n)
      BY <2>3 DEF SameSlice
    <3>. QED BY <3>1, <3>2
  <2>4. CASE n = 1
    <3>1. RootOf(hs)[n][lo] = hs[lo + 1] /\ RootOf(ts)[n][to] = ts[to + 1]
      BY <2>2, <2>4, RootOfIs
    <3>2. \A i \in 1 .. n : i = 1
      BY <2>4
    <3>3. SameSlice(hs, lo, ts, to, n) <=> hs[lo + 1] = ts[to + 1]
      BY <2>4, <3>2 DEF SameSlice
    <3>. QED BY <3>1, <3>3
  <2>5. CASE n >= 2
    <3>. DEFINE k == Split(n)
                q == n - k
                a == RootOf(hs)[k][lo]
                b == RootOf(hs)[q][lo + k]
                c == RootOf(ts)[k][to]
                d == RootOf(ts)[q][to + k]
    <3>1. k \in Nat /\ q \in Nat /\ k < n /\ q < n
      BY <2>5, HalvesAre
    <3>2. RootOf(hs)[n][lo] = HashNode(a, b) /\ RootOf(ts)[n][to] = HashNode(c, d)
      BY <2>2, <2>5, RootOfIs
    <3>. HIDE DEF k
    <3>3. lo + k \in Nat /\ to + k \in Nat
      BY <3>1
    <3>4. k <= Len(hs) /\ k <= Len(ts) /\ q <= Len(hs) /\ q <= Len(ts)
      BY <2>1, <3>1
    <3>. HIDE DEF q, SameSlice
    <3>5. Tells(k) /\ Tells(q)
      BY <1>1, <3>1
    <3>6. a = c <=> SameSlice(hs, lo, ts, to, k)
      BY <3>4, <3>5
    <3>7. b = d <=> SameSlice(hs, lo + k, ts, to + k, q)
      BY <3>3, <3>4, <3>5
    <3>8. HashNode(a, b) = HashNode(c, d) <=> a = c /\ b = d
      BY NodesApart
    <3>9. SameSlice(hs, lo, ts, to, n) <=>
            SameSlice(hs, lo, ts, to, k) /\ SameSlice(hs, lo + k, ts, to + k, q)
      <4>1. k \in Nat /\ k <= n
        BY <3>1
      <4>. QED BY <4>1, HalfSlices, Zenon DEF q
    <3>. QED BY <3>2, <3>6, <3>7, <3>8, <3>9
  <2>6. n = 0 \/ n = 1 \/ n >= 2
    OBVIOUS
  <2>. QED BY <2>3, <2>4, <2>5, <2>6
<1>2. S \in SUBSET Nat
  OBVIOUS
<1>3. S = Nat
  <2>. HIDE DEF S
  <2>. QED BY <1>1, <1>2, StrongInduct
<1>. QED BY <1>3

-----------------------------------------------------------------------------
(* Inclusion.                                                              *)

\* After l rounds the climb is over, at the given hash.
Ends(leaf, i, n, path, l, hash) ==
  Done(Climb(leaf, i, n, path), l) /\ Climb(leaf, i, n, path)[l].computed = hash

\* The hash that is not on the path of the leaf, and the one that is.
Far(hs, n, lo, i) == IF IsRight(i, n) THEN RootOf(hs)[Split(n)][lo]
                     ELSE RootOf(hs)[n - Split(n)][lo + Split(n)]
Near(hs, n, lo, i) == IF IsRight(i, n) THEN RootOf(hs)[n - Split(n)][lo + Split(n)]
                      ELSE RootOf(hs)[Split(n)][lo]

\* A climb of one leaf takes no round.
LEMMA EndsAtLeaf ==
  ASSUME NEW leaf, NEW path, Len(path) \in Nat, NEW l \in 0 .. Len(path), NEW hash
  PROVE  Ends(leaf, 0, 1, path, l, hash) <=> l = 0 /\ hash = leaf
<1>. DEFINE A == Climb(leaf, 0, 1, path)
<1>1. A[0] = [computed |-> leaf, fn |-> 0, sn |-> 1 - 1]
  BY ClimbIs DEF IsRun
<1>. HIDE DEF A
<1>2. A[0].sn = 0 /\ A[0].computed = leaf
  BY <1>1
<1>3. l # 0 => ~Done(A, l)
  <2>1. SUFFICES ASSUME l # 0, Done(A, l) PROVE FALSE
    OBVIOUS
  <2>2. 1 \in 1 .. l
    BY <2>1
  <2>3. A[1 - 1].sn # 0
    BY <2>1, <2>2 DEF Done
  <2>. QED BY <1>2, <2>3
<1>4. Done(A, 0)
  <2>1. \A j \in 1 .. 0 : FALSE
    OBVIOUS
  <2>. QED BY <1>2, <2>1 DEF Done
<1>5. Ends(leaf, 0, 1, path, l, hash) <=> Done(A, l) /\ A[l].computed = hash
  BY DEF Ends, A
<1>. QED BY <1>2, <1>3, <1>4, <1>5

\* The climb of a greater tree goes through the half that the leaf is in.
LEMMA EndsAbove ==
  ASSUME NEW leaf, NEW n \in Nat, n >= 2, NEW i \in Nat, i < n, NEW path, Len(path) \in Nat,
         NEW l \in 0 .. Len(path), NEW near, NEW far
  PROVE  Ends(leaf, i, n, path, l, IF IsRight(i, n) THEN HashNode(far, near) ELSE HashNode(near, far))
           <=> /\ l >= 1 /\ path[l] = far
               /\ IF IsRight(i, n) THEN Ends(leaf, i - Split(n), n - Split(n), path, l - 1, near)
                  ELSE Ends(leaf, i, Split(n), path, l - 1, near)
<1>. DEFINE A == Half(leaf, i, n, path)
            B == Climb(leaf, i, n, path)
            x == A[l - 1].computed
            r == IsRight(i, n)
            d == Done(A, l - 1)
<1>1. /\ Done(B, l) <=> l >= 1 /\ d
      /\ l >= 1 /\ d => B[l].computed = IF r THEN HashNode(path[l], x) ELSE HashNode(x, path[l])
  BY ClimbSplit
<1>2. A = IF r THEN Climb(leaf, i - Split(n), n - Split(n), path) ELSE Climb(leaf, i, Split(n), path)
  BY DEF Half
<1>3. d /\ x = near <=> IF r THEN Ends(leaf, i - Split(n), n - Split(n), path, l - 1, near)
                        ELSE Ends(leaf, i, Split(n), path, l - 1, near)
  <2>. HIDE DEF r
  <2>1. CASE r
    BY <1>2, <2>1 DEF Ends
  <2>2. CASE ~r
    BY <1>2, <2>2 DEF Ends
  <2>. QED BY <2>1, <2>2
<1>4. Ends(leaf, i, n, path, l, IF r THEN HashNode(far, near) ELSE HashNode(near, far))
        <=> Done(B, l) /\ B[l].computed = IF r THEN HashNode(far, near) ELSE HashNode(near, far)
  BY DEF Ends
<1>. HIDE DEF A, B, x, r, d
<1>5. /\ HashNode(path[l], x) = HashNode(far, near) <=> path[l] = far /\ x = near
      /\ HashNode(x, path[l]) = HashNode(near, far) <=> path[l] = far /\ x = near
  <2>1. HashNode(path[l], x) = HashNode(far, near) => path[l] = far /\ x = near
    BY NodesApart
  <2>2. HashNode(x, path[l]) = HashNode(near, far) => path[l] = far /\ x = near
    BY NodesApart
  <2>. QED BY <2>1, <2>2
<1>6. Ends(leaf, i, n, path, l, IF r THEN HashNode(far, near) ELSE HashNode(near, far))
        <=> l >= 1 /\ path[l] = far /\ (d /\ x = near)
  <2>1. CASE r
    BY <1>1, <1>4, <1>5, <2>1
  <2>2. CASE ~r
    BY <1>1, <1>4, <1>5, <2>2
  <2>. QED BY <2>1, <2>2
<1>7. Ends(leaf, i, n, path, l, IF r THEN HashNode(far, near) ELSE HashNode(near, far))
        <=> /\ l >= 1 /\ path[l] = far
            /\ IF r THEN Ends(leaf, i - Split(n), n - Split(n), path, l - 1, near)
               ELSE Ends(leaf, i, Split(n), path, l - 1, near)
  BY <1>3, <1>6, Zenon
<1>. QED BY <1>7 DEF r

\* The root of a slice, from the half a leaf is in and the other half.
LEMMA RootAbove ==
  ASSUME NEW hs, Len(hs) \in Nat, NEW n \in Nat, n >= 2, n <= Len(hs), NEW lo \in Nat, NEW i
  PROVE  RootOf(hs)[n][lo] = IF IsRight(i, n) THEN HashNode(Far(hs, n, lo, i), Near(hs, n, lo, i))
                             ELSE HashNode(Near(hs, n, lo, i), Far(hs, n, lo, i))
<1>1. n \in 0 .. Len(hs)
  OBVIOUS
<1>2. RootOf(hs)[n][lo] = HashNode(RootOf(hs)[Split(n)][lo], RootOf(hs)[n - Split(n)][lo + Split(n)])
  BY <1>1, RootOfIs
<1>3. CASE IsRight(i, n)
  BY <1>2, <1>3 DEF Far, Near
<1>4. CASE ~IsRight(i, n)
  BY <1>2, <1>4 DEF Far, Near
<1>. QED BY <1>3, <1>4

\* No path leads from anything but the leaf at the index to the root of a slice.
OnlyLeafLeads(hs, n) ==
  \A lo, i \in Nat : \A leaf, path, l :
    i < n /\ Len(path) \in Nat /\ l \in 0 .. Len(path) /\ Ends(leaf, i, n, path, l, RootOf(hs)[n][lo])
      => leaf = hs[lo + i + 1]

\* Where the leaf is in its half.
OnRight(lo, n, i) ==
  LET k == Split(n)
  IN i - k \in Nat /\ i - k < n - k /\ lo + k \in Nat /\ lo + k + (i - k) + 1 = lo + i + 1

LEMMA IndexBelow ==
  ASSUME NEW n \in Nat, n >= 2, NEW i \in Nat, i < n, NEW lo \in Nat
  PROVE  IF IsRight(i, n) THEN OnRight(lo, n, i) ELSE i < Split(n)
<1>. DEFINE k == Split(n)
<1>1. k \in Nat
  BY HalvesAre
<1>2. IsRight(i, n) <=> ~(i < k)
  BY DEF IsRight
<1>3. OnRight(lo, n, i) <=>
        i - k \in Nat /\ i - k < n - k /\ lo + k \in Nat /\ lo + k + (i - k) + 1 = lo + i + 1
  BY DEF OnRight
<1>. HIDE DEF k
<1>4. ASSUME ~(i < k)
      PROVE  /\ i - k \in Nat /\ i - k < n - k /\ lo + k \in Nat /\ lo + k + (i - k) + 1 = lo + i + 1
  BY <1>1, <1>4
<1>. QED BY <1>2, <1>3, <1>4 DEF k

LEMMA InclusionSound ==
  ASSUME NEW hs, Len(hs) \in Nat
  PROVE  \A n \in Nat : n >= 1 /\ n <= Len(hs) => OnlyLeafLeads(hs, n)
<1>. DEFINE S == {n \in Nat : n >= 1 /\ n <= Len(hs) => OnlyLeafLeads(hs, n)}
<1>1. ASSUME NEW n \in Nat, \A k \in Nat : k < n => k \in S PROVE n \in S
  <2>1. SUFFICES ASSUME n >= 1, n <= Len(hs), NEW lo \in Nat, NEW i \in Nat, i < n,
                        NEW leaf, NEW path, Len(path) \in Nat, NEW l \in 0 .. Len(path),
                        Ends(leaf, i, n, path, l, RootOf(hs)[n][lo])
                 PROVE  leaf = hs[lo + i + 1]
    BY DEF OnlyLeafLeads
  <2>2. CASE n = 1
    <3>1. i = 0 /\ n \in 0 .. Len(hs)
      BY <2>1, <2>2
    <3>2. RootOf(hs)[n][lo] = hs[lo + 1]
      BY <2>2, <3>1, RootOfIs
    <3>3. Ends(leaf, 0, 1, path, l, hs[lo + 1])
      BY <2>1, <2>2, <3>1, <3>2
    <3>4. leaf = hs[lo + 1]
      BY <2>1, <3>3, EndsAtLeaf
    <3>. QED BY <3>1, <3>4
  <2>3. CASE n >= 2
    <3>. DEFINE k == Split(n)
                near == Near(hs, n, lo, i)
                far == Far(hs, n, lo, i)
                r == IsRight(i, n)
    <3>1. k \in 1 .. n - 1 /\ n - k \in 1 .. n - 1
      BY <2>3, HalvesAre
    <3>2. /\ k \in Nat /\ k < n /\ k >= 1 /\ k <= Len(hs)
          /\ n - k \in Nat /\ n - k < n /\ n - k >= 1 /\ n - k <= Len(hs)
      BY <2>1, <3>1
    <3>3. OnlyLeafLeads(hs, k) /\ OnlyLeafLeads(hs, n - k)
      BY <1>1, <3>2
    <3>4. Ends(leaf, i, n, path, l, IF r THEN HashNode(far, near) ELSE HashNode(near, far))
      <4>1. RootOf(hs)[n][lo] = IF r THEN HashNode(far, near) ELSE HashNode(near, far)
        BY <2>1, <2>3, RootAbove
      <4>. QED BY <2>1, <4>1
    <3>. HIDE DEF near, far
    <3>5. /\ l >= 1
          /\ IF r THEN Ends(leaf, i - k, n - k, path, l - 1, near)
             ELSE Ends(leaf, i, k, path, l - 1, near)
      BY <2>1, <2>3, <3>4, EndsAbove
    <3>6. l - 1 \in 0 .. Len(path)
      BY <2>1, <3>5
    <3>7. CASE r
      <4>1. i - k \in Nat /\ i - k < n - k /\ lo + k \in Nat /\ lo + k + (i - k) + 1 = lo + i + 1
        <5>1. OnRight(lo, n, i)
          BY <2>1, <2>3, <3>7, IndexBelow
        <5>. QED BY <5>1 DEF OnRight
      <4>2. Ends(leaf, i - k, n - k, path, l - 1, RootOf(hs)[n - k][lo + k])
        BY <3>5, <3>7 DEF near, Near
      <4>. HIDE DEF k, r
      <4>3. leaf = hs[lo + k + (i - k) + 1]
        BY <2>1, <3>3, <3>6, <4>1, <4>2 DEF OnlyLeafLeads
      <4>. QED BY <4>1, <4>3
    <3>8. CASE ~r
      <4>1. i < k
        BY <2>1, <2>3, <3>8, IndexBelow
      <4>2. Ends(leaf, i, k, path, l - 1, RootOf(hs)[k][lo])
        BY <3>5, <3>8 DEF near, Near
      <4>. HIDE DEF k, r
      <4>3. leaf = hs[lo + i + 1]
        BY <2>1, <3>3, <3>6, <4>1, <4>2 DEF OnlyLeafLeads
      <4>. QED BY <4>3
    <3>. QED BY <3>7, <3>8
  <2>. QED BY <2>1, <2>2, <2>3
<1>2. S \in SUBSET Nat
  OBVIOUS
<1>. HIDE DEF S
<1>3. S = Nat
  BY <1>1, <1>2, StrongInduct
<1>. QED BY <1>3 DEF S

\* A path that begins with the l hashes of p.
Extends(path, p, l) ==
  Len(path) \in Nat /\ l \in 0 .. Len(path) /\ \A j \in 1 .. l : path[j] = p[j]

\* The path that the log makes for a leaf leads from it to the root of the slice.
Leads(hs, n, lo, i, l) ==
  LET p == InclusionOf(hs)[n][lo][i]
  IN /\ IsList(p, l)
     /\ \A path : Extends(path, p, l) => Ends(hs[lo + i + 1], i, n, path, l, RootOf(hs)[n][lo])

LeafLeads(hs, n) == \A lo, i \in Nat : i < n => \E l \in Nat : Leads(hs, n, lo, i, l)

Stops(path, p, l, x) ==
  Extends(path, p, l) /\ path[l + 1] = x /\ l + 1 \in 0 .. Len(path) /\ Len(path) \in Nat

\* One hash more at the end.
LEMMA ExtendsLess ==
  ASSUME NEW path, NEW p, NEW l \in Nat, IsList(p, l), NEW x,
         NEW longer, longer = Append(p, x), NEW m, m = l + 1, Extends(path, longer, m)
  PROVE  Stops(path, p, l, x)
<1>0. Longer(longer, p, l, x)
  BY AppendIs
<1>1. longer[l + 1] = x /\ \A j \in 1 .. l : longer[j] = p[j]
  BY <1>0 DEF Longer
<1>2. Len(path) \in Nat /\ l + 1 \in 0 .. Len(path)
  BY DEF Extends
<1>3. l + 1 \in 1 .. l + 1 /\ \A j \in 1 .. l : j \in 1 .. l + 1
  OBVIOUS
<1>4. path[l + 1] = x /\ \A j \in 1 .. l : path[j] = p[j]
  BY <1>1, <1>3 DEF Extends
<1>5. l \in 0 .. Len(path)
  BY <1>2
<1>. QED BY <1>2, <1>4, <1>5 DEF Extends, Stops

LEMMA InclusionComplete ==
  ASSUME NEW hs, Len(hs) \in Nat
  PROVE  \A n \in Nat : n >= 1 /\ n <= Len(hs) => LeafLeads(hs, n)
<1>. DEFINE S == {n \in Nat : n >= 1 /\ n <= Len(hs) => LeafLeads(hs, n)}
<1>1. ASSUME NEW n \in Nat, \A k \in Nat : k < n => k \in S PROVE n \in S
  <2>1. SUFFICES ASSUME n >= 1, n <= Len(hs), NEW lo \in Nat, NEW i \in Nat, i < n
                 PROVE  \E l \in Nat : Leads(hs, n, lo, i, l)
    BY DEF LeafLeads
  <2>. DEFINE p == InclusionOf(hs)[n][lo][i]
  <2>2. n \in 0 .. Len(hs) /\ p = InclusionStep(hs, InclusionOf(hs), n, lo, i)
    BY <2>1, InclusionIs
  <2>3. CASE n = 1
    <3>1. p = <<>>
      BY <2>2, <2>3 DEF InclusionStep
    <3>2. IsList(p, 0)
      BY <3>1 DEF IsList
    <3>3. i = 0 /\ lo + i + 1 = lo + 1
      BY <2>1, <2>3
    <3>4. RootOf(hs)[n][lo] = hs[lo + 1]
      BY <2>2, <2>3, RootOfIs
    <3>5. ASSUME NEW path, Extends(path, p, 0)
          PROVE  Ends(hs[lo + i + 1], i, n, path, 0, RootOf(hs)[n][lo])
      <4>1. Len(path) \in Nat /\ 0 \in 0 .. Len(path)
        BY <3>5 DEF Extends
      <4>2. Ends(hs[lo + 1], 0, 1, path, 0, hs[lo + 1])
        BY <4>1, EndsAtLeaf
      <4>. QED BY <2>3, <3>3, <3>4, <4>2
    <3>6. Leads(hs, n, lo, i, 0)
      BY <3>2, <3>5 DEF Leads
    <3>. QED BY <3>6
  <2>4. CASE n >= 2
    <3>. DEFINE k == Split(n)
                near == Near(hs, n, lo, i)
                far == Far(hs, n, lo, i)
                r == IsRight(i, n)
                half == IF r THEN InclusionOf(hs)[n - k][lo + k][i - k] ELSE InclusionOf(hs)[k][lo][i]
                leaf == hs[lo + i + 1]
    <3>1. k \in 1 .. n - 1 /\ n - k \in 1 .. n - 1
      BY <2>4, HalvesAre
    <3>2. /\ k \in Nat /\ k < n /\ k >= 1 /\ k <= Len(hs)
          /\ n - k \in Nat /\ n - k < n /\ n - k >= 1 /\ n - k <= Len(hs)
      BY <2>1, <3>1
    <3>3. LeafLeads(hs, k) /\ LeafLeads(hs, n - k)
      BY <1>1, <3>2
    <3>4. RootOf(hs)[n][lo] = IF r THEN HashNode(far, near) ELSE HashNode(near, far)
      BY <2>1, <2>4, RootAbove
    <3>5. IF r THEN OnRight(lo, n, i) ELSE i < k
      BY <2>1, <2>4, IndexBelow
    <3>6. p = Append(half, far)
      <4>1. ~(n <= 1)
        BY <2>4
      <4>2. r <=> ~(i < k)
        BY DEF IsRight
      <4>. QED BY <2>2, <4>1, <4>2 DEF InclusionStep, Far
    <3>7. PICK l \in Nat :
            IF r THEN Leads(hs, n - k, lo + k, i - k, l) ELSE Leads(hs, k, lo, i, l)
      <4>1. CASE r
        <5>1. i - k \in Nat /\ i - k < n - k /\ lo + k \in Nat
          BY <3>5, <4>1 DEF OnRight
        <5>2. \E l \in Nat : Leads(hs, n - k, lo + k, i - k, l)
          BY <3>3, <5>1 DEF LeafLeads
        <5>. QED BY <4>1, <5>2
      <4>2. CASE ~r
        <5>1. i < k
          BY <3>5, <4>2
        <5>2. \E l \in Nat : Leads(hs, k, lo, i, l)
          BY <3>3, <5>1 DEF LeafLeads
        <5>. QED BY <4>2, <5>2
      <4>. QED BY <4>1, <4>2
    <3>8. /\ IsList(half, l)
          /\ \A path : Extends(path, half, l) =>
               IF r THEN Ends(leaf, i - k, n - k, path, l, near) ELSE Ends(leaf, i, k, path, l, near)
      <4>1. CASE r
        <5>1. lo + k + (i - k) + 1 = lo + i + 1
          BY <3>5, <4>1 DEF OnRight
        <5>2. Leads(hs, n - k, lo + k, i - k, l)
          BY <3>7, <4>1
        <5>3. near = RootOf(hs)[n - k][lo + k] /\ half = InclusionOf(hs)[n - k][lo + k][i - k]
          BY <4>1 DEF Near
        <5>. QED BY <4>1, <5>1, <5>2, <5>3 DEF Leads
      <4>2. CASE ~r
        <5>1. near = RootOf(hs)[k][lo] /\ half = InclusionOf(hs)[k][lo][i]
          BY <4>2 DEF Near
        <5>. QED BY <3>7, <4>2, <5>1 DEF Leads
      <4>. QED BY <4>1, <4>2
    <3>. HIDE DEF near, far, half, p, leaf, k
    <3>9. IsList(p, l + 1)
      BY <3>6, <3>8, AppendIs DEF Longer
    <3>10. ASSUME NEW path, Extends(path, p, l + 1)
           PROVE  Ends(leaf, i, n, path, l + 1, RootOf(hs)[n][lo])
      <4>1. /\ Extends(path, half, l) /\ path[l + 1] = far
            /\ l + 1 \in 0 .. Len(path) /\ Len(path) \in Nat
        <5>1. IsList(half, l)
          BY <3>8
        <5>2. \A m : m = l + 1 => Extends(path, p, m)
          BY <3>10
        <5>3. Stops(path, half, l, far)
          BY <3>6, <5>1, <5>2, ExtendsLess
        <5>. QED BY <5>3 DEF Stops
      <4>2. l + 1 >= 1 /\ l + 1 - 1 = l
        OBVIOUS
      <4>3. IF r THEN Ends(leaf, i - k, n - k, path, l + 1 - 1, near)
            ELSE Ends(leaf, i, k, path, l + 1 - 1, near)
        BY <3>8, <4>1, <4>2
      <4>. DEFINE m == l + 1
      <4>4. m \in 0 .. Len(path) /\ m >= 1 /\ path[m] = far
            /\ IF r THEN Ends(leaf, i - k, n - k, path, m - 1, near) ELSE Ends(leaf, i, k, path, m - 1, near)
        BY <4>1, <4>2, <4>3
      <4>. HIDE DEF m
      <4>5. Ends(leaf, i, n, path, m, IF r THEN HashNode(far, near) ELSE HashNode(near, far))
        BY <2>1, <2>4, <4>1, <4>4, EndsAbove DEF k
      <4>. QED BY <3>4, <4>5 DEF m
    <3>11. Leads(hs, n, lo, i, l + 1)
      BY <3>9, <3>10 DEF Leads, p, leaf
    <3>12. l + 1 \in Nat
      OBVIOUS
    <3>. QED BY <3>11, <3>12
  <2>. QED BY <2>1, <2>3, <2>4
<1>2. S \in SUBSET Nat
  OBVIOUS
<1>. HIDE DEF S
<1>3. S = Nat
  BY <1>1, <1>2, StrongInduct
<1>. QED BY <1>3 DEF S

\* The verifier, in these words.
LEMMA VerifyIs ==
  ASSUME NEW leaf, NEW index, NEW size, NEW path, NEW root
  PROVE  VerifyInclusion(leaf, index, size, path, root) <=>
           0 <= index /\ index < size /\ Ends(leaf, index, size, path, Len(path), root)
BY DEF VerifyInclusion, Ends, Done

\* The path served for a leaf shows it, and shows it of no other leaf.
LEMMA ServedPathShows ==
  ASSUME NEW n \in Nat, NEW hs, IsList(hs, n), NEW i \in Nat, i < n
  PROVE  VerifyInclusion(hs[i + 1], i, n, Inclusion(hs, i), Root(hs))
<1>1. Len(hs) = n
  BY ListIsSeq
<1>2. n >= 1 /\ n <= Len(hs) /\ 0 \in Nat /\ 0 + i + 1 = i + 1
  BY <1>1
<1>3. LeafLeads(hs, n)
  BY <1>1, <1>2, InclusionComplete
<1>. DEFINE p == Inclusion(hs, i)
<1>4. PICK l \in Nat : Leads(hs, n, 0, i, l)
  BY <1>2, <1>3 DEF LeafLeads
<1>5. p = InclusionOf(hs)[n][0][i] /\ Root(hs) = RootOf(hs)[n][0]
  BY <1>1 DEF Inclusion, Root
<1>6. IsList(p, l) /\ \A path : Extends(path, p, l) => Ends(hs[i + 1], i, n, path, l, Root(hs))
  BY <1>2, <1>4, <1>5 DEF Leads
<1>. HIDE DEF p
<1>7. Len(p) = l
  BY <1>6, ListIsSeq
<1>8. Extends(p, p, l)
  BY <1>7 DEF Extends
<1>9. Ends(hs[i + 1], i, n, p, Len(p), Root(hs))
  BY <1>6, <1>7, <1>8
<1>. QED BY <1>9, VerifyIs DEF p

LEMMA OnlyLeafShows ==
  ASSUME NEW n \in Nat, NEW hs, IsList(hs, n), NEW index \in Nat, NEW leaf,
         NEW path, Len(path) \in Nat, VerifyInclusion(leaf, index, n, path, Root(hs))
  PROVE  leaf = hs[index + 1]
<1>1. Len(hs) = n
  BY ListIsSeq
<1>2. index < n /\ Ends(leaf, index, n, path, Len(path), Root(hs))
  BY VerifyIs
<1>3. n >= 1 /\ n <= Len(hs) /\ 0 \in Nat /\ 0 + index + 1 = index + 1 /\ Len(path) \in 0 .. Len(path)
  BY <1>1, <1>2
<1>4. OnlyLeafLeads(hs, n)
  BY <1>1, <1>3, InclusionSound
<1>5. Root(hs) = RootOf(hs)[n][0]
  BY <1>1 DEF Root
<1>6. leaf = hs[0 + index + 1]
  BY <1>2, <1>3, <1>4, <1>5 DEF OnlyLeafLeads
<1>. QED BY <1>3, <1>6

\* The root of a slice of at least one hash.
IsSubtree(hs, h) ==
  \E q, lo \in Nat : q >= 1 /\ lo + q <= Len(hs) /\ h = RootOf(hs)[q][lo]

AreLeaves(hs) == \A i \in 1 .. Len(hs) : \E data : hs[i] = HashLeaf(data)

\* What is below a node is the root of half of its slice; below a leaf is nothing.
LEMMA SubtreesBelow ==
  ASSUME NEW hs, Len(hs) \in Nat, AreLeaves(hs)
  PROVE  /\ \A a, b : IsSubtree(hs, HashNode(a, b)) => IsSubtree(hs, a) /\ IsSubtree(hs, b)
         /\ \A data : IsSubtree(hs, HashLeaf(data)) => \E i \in 1 .. Len(hs) : hs[i] = HashLeaf(data)
<1>1. ASSUME NEW h, NEW q \in Nat, NEW lo \in Nat, q >= 1, lo + q <= Len(hs), h = RootOf(hs)[q][lo]
      PROVE  \/ \E i \in 1 .. Len(hs) : h = hs[i]
             \/ \E a, b : h = HashNode(a, b) /\ IsSubtree(hs, a) /\ IsSubtree(hs, b)
  <2>1. q \in 0 .. Len(hs)
    BY <1>1
  <2>2. CASE q = 1
    <3>1. lo + 1 \in 1 .. Len(hs)
      BY <1>1, <2>2
    <3>2. RootOf(hs)[q][lo] = hs[lo + 1]
      BY <2>1, <2>2, RootOfIs
    <3>. QED BY <1>1, <3>1, <3>2
  <2>3. CASE q >= 2
    <3>. DEFINE k == Split(q)
                a == RootOf(hs)[k][lo]
                b == RootOf(hs)[q - k][lo + k]
    <3>1. k \in 1 .. q - 1 /\ q - k \in 1 .. q - 1
      BY <2>3, HalvesAre
    <3>2. h = HashNode(a, b)
      BY <1>1, <2>1, <2>3, RootOfIs
    <3>. HIDE DEF k
    <3>3. /\ k \in Nat /\ k >= 1 /\ lo + k <= Len(hs)
          /\ q - k \in Nat /\ lo + k \in Nat /\ q - k >= 1 /\ lo + k + (q - k) <= Len(hs)
      BY <1>1, <3>1
    <3>4. IsSubtree(hs, a)
      BY <3>3, Zenon DEF IsSubtree
    <3>5. IsSubtree(hs, b)
      BY <3>3, Zenon DEF IsSubtree
    <3>. HIDE DEF a, b
    <3>. QED BY <3>2, <3>4, <3>5
  <2>. QED BY <1>1, <2>2, <2>3
<1>2. ASSUME NEW h, IsSubtree(hs, h)
      PROVE  \/ \E i \in 1 .. Len(hs) : h = hs[i]
             \/ \E a, b : h = HashNode(a, b) /\ IsSubtree(hs, a) /\ IsSubtree(hs, b)
  <2>1. PICK q, lo \in Nat : q >= 1 /\ lo + q <= Len(hs) /\ h = RootOf(hs)[q][lo]
    BY <1>2, Zenon DEF IsSubtree
  <2>. QED BY <1>1, <2>1
<1>3. ASSUME NEW a, NEW b, IsSubtree(hs, HashNode(a, b)) PROVE IsSubtree(hs, a) /\ IsSubtree(hs, b)
  <2>. DEFINE h == HashNode(a, b)
  <2>1. CASE \E i \in 1 .. Len(hs) : h = hs[i]
    <3>1. PICK i \in 1 .. Len(hs) : h = hs[i]
      BY <2>1
    <3>2. PICK data : h = HashLeaf(data)
      BY <3>1 DEF AreLeaves
    <3>. QED BY <3>2, NodesApart
  <2>2. CASE \E c, d : h = HashNode(c, d) /\ IsSubtree(hs, c) /\ IsSubtree(hs, d)
    <3>1. PICK c, d : h = HashNode(c, d) /\ IsSubtree(hs, c) /\ IsSubtree(hs, d)
      BY <2>2
    <3>2. a = c /\ b = d
      BY <3>1, NodesApart
    <3>. QED BY <3>1, <3>2
  <2>. HIDE DEF h
  <2>3. IsSubtree(hs, h)
    BY <1>3 DEF h
  <2>. QED BY <1>2, <2>1, <2>2, <2>3
<1>4. ASSUME NEW data, IsSubtree(hs, HashLeaf(data))
      PROVE  \E i \in 1 .. Len(hs) : hs[i] = HashLeaf(data)
  <2>. DEFINE h == HashLeaf(data)
  <2>1. \A c, d : h # HashNode(c, d)
    BY NodesApart
  <2>. HIDE DEF h
  <2>2. IsSubtree(hs, h)
    BY <1>4 DEF h
  <2>3. \E i \in 1 .. Len(hs) : h = hs[i]
    BY <1>2, <2>1, <2>2
  <2>. QED BY <2>3 DEF h
<1>. QED BY <1>3, <1>4

\* Whatever size is claimed, a proof shows nothing but a leaf of the log.
LEMMA OnlyLeavesShow ==
  ASSUME NEW n \in Nat, NEW hs, IsList(hs, n), n >= 1, AreLeaves(hs), NEW data, NEW index, NEW size,
         NEW path, Len(path) \in Nat, VerifyInclusion(HashLeaf(data), index, size, path, Root(hs))
  PROVE  \E i \in 1 .. n : hs[i] = HashLeaf(data)
<1>. DEFINE N == Len(path)
            A == Climb(HashLeaf(data), index, size, path)
            S == {j \in Nat : j <= N => IsSubtree(hs, A[N - j].computed)}
<1>1. Len(hs) = n
  BY ListIsSeq
<1>2. A[N].computed = Root(hs)
  BY VerifyIs DEF Ends
<1>3. /\ A[0].computed = HashLeaf(data)
      /\ \A i \in 1 .. N : A[i] = Round(A[i - 1], path[i])
  <2>. HIDE DEF A
  <2>1. IsRun(A, HashLeaf(data), index, size, path)
    BY ClimbIs DEF A
  <2>. QED BY <2>1 DEF IsRun
<1>. HIDE DEF A
<1>4. \A x, p : \/ Round(x, p).computed = HashNode(p, x.computed)
                \/ Round(x, p).computed = HashNode(x.computed, p)
  BY DEF Round
<1>5. 0 \in S
  <2>1. Root(hs) = RootOf(hs)[n][0] /\ 0 + n <= Len(hs) /\ 0 \in Nat
    BY <1>1 DEF Root
  <2>2. IsSubtree(hs, Root(hs))
    BY <2>1, Zenon DEF IsSubtree
  <2>3. N - 0 = N
    OBVIOUS
  <2>. QED BY <1>2, <2>2, <2>3
<1>6. ASSUME NEW j \in S PROVE j + 1 \in S
  <2>1. SUFFICES ASSUME j + 1 <= N PROVE IsSubtree(hs, A[N - (j + 1)].computed)
    OBVIOUS
  <2>. DEFINE i == N - j
              x == A[i - 1]
  <2>2. i \in 1 .. N /\ i - 1 = N - (j + 1) /\ j <= N
    BY <2>1
  <2>3. IsSubtree(hs, A[i].computed)
    BY <2>2
  <2>4. A[i] = Round(x, path[i])
    BY <1>3, <2>2
  <2>. HIDE DEF i, x
  <2>5. \/ A[i].computed = HashNode(path[i], x.computed)
        \/ A[i].computed = HashNode(x.computed, path[i])
    BY <1>4, <2>4
  <2>6. IsSubtree(hs, x.computed)
    BY <1>1, <2>3, <2>5, SubtreesBelow
  <2>. QED BY <2>2, <2>6 DEF x
<1>7. S \in SUBSET Nat
  OBVIOUS
<1>8. N \in S
  <2>. HIDE DEF S, N
  <2>1. S = Nat
    BY <1>5, <1>6, <1>7, NaturalsInduct
  <2>. QED BY <2>1 DEF N
<1>9. N - N = 0
  OBVIOUS
<1>10. IsSubtree(hs, HashLeaf(data))
  BY <1>3, <1>8, <1>9
<1>. QED BY <1>1, <1>10, SubtreesBelow

-----------------------------------------------------------------------------
(* Consistency.                                                            *)

\* A tree is split where each of its greater starts is.
LEMMA SplitAlike ==
  ASSUME NEW n \in Nat, n >= 2, NEW m \in Nat, Split(n) < m, m <= n
  PROVE  m >= 2 /\ Split(m) = Split(n)
<1>1. PICK d \in Nat : Split(n) = Power[d]
  BY SplitIs
<1>2. Split(n) \in Nat /\ 0 < Split(n) /\ n <= 2 * Split(n)
  BY SplitIs
<1>3. m >= 2 /\ m <= 2 * Split(n)
  BY <1>2
<1>4. Power[d] < m /\ m <= 2 * Power[d]
  BY <1>1, <1>3
<1>5. Split(m) = Power[d]
  BY <1>4, SplitIs
<1>. QED BY <1>1, <1>3, <1>5

\* The root of a start that ends in the right half.
LEMMA StartAbove ==
  ASSUME NEW hs, Len(hs) \in Nat, NEW n \in Nat, n >= 2, n <= Len(hs), NEW lo \in Nat,
         NEW m \in 1 .. n, ~(m <= Split(n))
  PROVE  RootOf(hs)[m][lo] = HashNode(RootOf(hs)[Split(n)][lo],
                                      RootOf(hs)[m - Split(n)][lo + Split(n)])
<1>1. Split(n) \in Nat
  BY HalvesAre
<1>2. m \in Nat /\ Split(n) < m /\ m <= n /\ m \in 0 .. Len(hs)
  BY <1>1
<1>3. m >= 2 /\ Split(m) = Split(n)
  BY <1>2, SplitAlike
<1>. QED BY <1>2, <1>3, RootOfIs

\* The half that the start ends in.
LEMMA StartBelow ==
  ASSUME NEW n \in Nat, NEW m \in 1 .. n, m # n
  PROVE  /\ n >= 2
         /\ Split(n) \in Nat /\ n - Split(n) \in Nat /\ Split(n) < n /\ n - Split(n) < n
         /\ m <= Split(n) => m \in 1 .. Split(n)
         /\ ~(m <= Split(n)) => m - Split(n) \in 1 .. n - Split(n)
<1>1. n >= 2
  OBVIOUS
<1>2. Split(n) \in Nat /\ n - Split(n) \in Nat /\ Split(n) < n /\ n - Split(n) < n
  BY <1>1, HalvesAre
<1>. QED BY <1>1, <1>2

\* What a proof implies of a tree, field by field.
FromBelow(c, path, isLeft, sub) ==
  LET h == path[sub.used + 1]
  IN /\ c.ok => sub.ok /\ sub.used # Len(path)
     /\ sub.ok /\ sub.used # Len(path) =>
          /\ c.ok /\ c.used = sub.used + 1
          /\ isLeft => c.old = sub.old /\ c.new = HashNode(sub.new, h)
          /\ ~isLeft => c.old = HashNode(h, sub.old) /\ c.new = HashNode(h, sub.new)

LEMMA AboveIs ==
  ASSUME NEW path, NEW isLeft \in BOOLEAN, NEW sub
  PROVE  FromBelow(Above(path, isLeft, sub), path, isLeft, sub)
BY DEF Above, FromBelow, Short

\* Whatever the proof, the old tree that it implies is the start of the new one.
OnlyStartLeads(hs, n) ==
  \A lo \in Nat : \A m \in 1 .. n : \A isRoot \in BOOLEAN : \A path, oldRoot :
    LET c == Consume(Len(hs), path, oldRoot)[n][m][isRoot]
    IN c.ok /\ c.new = RootOf(hs)[n][lo] => c.old = RootOf(hs)[m][lo]

LEMMA ConsistencySound ==
  ASSUME NEW hs, Len(hs) \in Nat
  PROVE  \A n \in Nat : n <= Len(hs) => OnlyStartLeads(hs, n)
<1>. DEFINE S == {n \in Nat : n <= Len(hs) => OnlyStartLeads(hs, n)}
<1>1. ASSUME NEW n \in Nat, \A k \in Nat : k < n => k \in S PROVE n \in S
  <2>. SUFFICES ASSUME n <= Len(hs), NEW lo \in Nat, NEW m \in 1 .. n, NEW isRoot \in BOOLEAN,
                       NEW path, NEW oldRoot
                PROVE  LET c == Consume(Len(hs), path, oldRoot)[n][m][isRoot]
                       IN c.ok /\ c.new = RootOf(hs)[n][lo] => c.old = RootOf(hs)[m][lo]
    BY DEF OnlyStartLeads
  <2>. DEFINE C == Consume(Len(hs), path, oldRoot)
              c == C[n][m][isRoot]
              k == Split(n)
  <2>1. n \in 0 .. Len(hs)
    OBVIOUS
  <2>2. c = ConsumeStep(path, oldRoot, C, n, m, isRoot)
    BY <2>1, ConsumeIs
  <2>3. CASE m = n
    <3>1. c = Whole(path, oldRoot, isRoot)
      BY <2>2, <2>3 DEF ConsumeStep
    <3>. HIDE DEF c
    <3>2. c.ok => c.old = c.new
      BY <3>1 DEF Whole, Short
    <3>. QED BY <2>3, <3>2 DEF c
  <2>4. CASE m # n
    <3>. DEFINE sub == Below(C, n, m, isRoot)
                h == path[sub.used + 1]
    <3>1. /\ n >= 2 /\ k \in Nat /\ n - k \in Nat /\ k < n /\ n - k < n
          /\ m <= k => m \in 1 .. k
          /\ ~(m <= k) => m - k \in 1 .. n - k
      BY <2>4, StartBelow
    <3>2. k <= Len(hs) /\ n - k <= Len(hs) /\ lo + k \in Nat
      BY <3>1
    <3>3. OnlyStartLeads(hs, k) /\ OnlyStartLeads(hs, n - k)
      BY <1>1, <3>1, <3>2
    <3>4. c = Above(path, m <= k, sub)
      BY <2>2, <2>4 DEF ConsumeStep
    <3>5. sub = IF m <= k THEN C[k][m][isRoot] ELSE C[n - k][m - k][FALSE]
      BY DEF Below
    <3>6. RootOf(hs)[n][lo] = HashNode(RootOf(hs)[k][lo], RootOf(hs)[n - k][lo + k])
      BY <2>1, <3>1, RootOfIs
    <3>. HIDE DEF c, sub, h
    <3>7. c.ok => /\ sub.ok
                  /\ m <= k => c.old = sub.old /\ c.new = HashNode(sub.new, h)
                  /\ ~(m <= k) => c.old = HashNode(h, sub.old) /\ c.new = HashNode(h, sub.new)
      <4>. DEFINE left == m <= k
      <4>1. left \in BOOLEAN /\ c = Above(path, left, sub)
        BY <3>4
      <4>. HIDE DEF left
      <4>2. FromBelow(c, path, left, sub)
        BY <4>1, AboveIs
      <4>. QED BY <4>2 DEF FromBelow, left, h
    <3>8. SUFFICES ASSUME c.ok, c.new = RootOf(hs)[n][lo] PROVE c.old = RootOf(hs)[m][lo]
      BY DEF c
    <3>9. CASE m <= k
      <4>1. sub.new = RootOf(hs)[k][lo]
        BY <3>6, <3>7, <3>8, <3>9, NodesApart
      <4>2. sub.ok /\ c.old = sub.old /\ sub = C[k][m][isRoot] /\ m \in 1 .. k
        BY <3>1, <3>5, <3>7, <3>8, <3>9
      <4>. HIDE DEF k
      <4>3. sub.old = RootOf(hs)[m][lo]
        BY <3>3, <4>1, <4>2 DEF OnlyStartLeads
      <4>. QED BY <4>2, <4>3
    <3>10. CASE ~(m <= k)
      <4>1. h = RootOf(hs)[k][lo] /\ sub.new = RootOf(hs)[n - k][lo + k]
        BY <3>6, <3>7, <3>8, <3>10, NodesApart
      <4>2. /\ sub.ok /\ c.old = HashNode(h, sub.old) /\ sub = C[n - k][m - k][FALSE]
            /\ m - k \in 1 .. n - k
        BY <3>1, <3>5, <3>7, <3>8, <3>10
      <4>3. RootOf(hs)[m][lo] = HashNode(RootOf(hs)[k][lo], RootOf(hs)[m - k][lo + k])
        BY <3>1, <3>10, StartAbove
      <4>. HIDE DEF k
      <4>4. sub.old = RootOf(hs)[m - k][lo + k]
        <5>. DEFINE q == n - k
                    j == m - k
                    e == lo + k
                    no == FALSE
        <5>1. /\ e \in Nat /\ j \in 1 .. q /\ OnlyStartLeads(hs, q) /\ no \in BOOLEAN
              /\ sub = C[q][j][no] /\ sub.ok /\ sub.new = RootOf(hs)[q][e]
          BY <3>2, <3>3, <4>1, <4>2
        <5>. HIDE DEF q, j, e, no
        <5>2. sub.old = RootOf(hs)[j][e]
          BY <5>1 DEF OnlyStartLeads
        <5>. QED BY <5>2 DEF j, e
      <4>. QED BY <4>1, <4>2, <4>3, <4>4
    <3>. QED BY <3>9, <3>10
  <2>. QED BY <2>3, <2>4
<1>2. S \in SUBSET Nat
  OBVIOUS
<1>. HIDE DEF S
<1>3. S = Nat
  BY <1>1, <1>2, StrongInduct
<1>. QED BY <1>3 DEF S

\* What is implied: both roots, of l hashes of the proof.
Implied(c, old, new, l) == c.ok /\ c.old = old /\ c.new = new /\ c.used = l

\* A proof that begins with p implies the roots of the slice and of its start.
Implies(hs, p, l, n, lo, m, isRoot) ==
  \A path, oldRoot :
    Extends(path, p, l) /\ (isRoot => oldRoot = RootOf(hs)[m][lo]) =>
      Implied(Consume(Len(hs), path, oldRoot)[n][m][isRoot], RootOf(hs)[m][lo], RootOf(hs)[n][lo], l)

Grows(hs, n, lo, m, isRoot, l) ==
  LET p == ConsistencyOf(hs)[n][lo][m][isRoot]
  IN IsList(p, l) /\ Implies(hs, p, l, n, lo, m, isRoot)

StartsLead(hs, n) ==
  \A lo \in Nat : \A m \in 1 .. n : \A isRoot \in BOOLEAN :
    \E l \in Nat : Grows(hs, n, lo, m, isRoot, l)

LEMMA ConsistencyComplete ==
  ASSUME NEW hs, Len(hs) \in Nat
  PROVE  \A n \in Nat : n <= Len(hs) => StartsLead(hs, n)
<1>. DEFINE S == {n \in Nat : n <= Len(hs) => StartsLead(hs, n)}
<1>1. ASSUME NEW n \in Nat, \A k \in Nat : k < n => k \in S PROVE n \in S
  <2>. SUFFICES ASSUME n <= Len(hs), NEW lo \in Nat, NEW m \in 1 .. n, NEW isRoot \in BOOLEAN
                PROVE  \E l \in Nat : Grows(hs, n, lo, m, isRoot, l)
    BY DEF StartsLead
  <2>. DEFINE p == ConsistencyOf(hs)[n][lo][m][isRoot]
              old == RootOf(hs)[m][lo]
              new == RootOf(hs)[n][lo]
  <2>1. n \in 0 .. Len(hs) /\ m \in Nat
    OBVIOUS
  <2>2. p = ConsistencyStep(hs, ConsistencyOf(hs), n, lo, m, isRoot)
    BY <2>1, ConsistencyIs
  <2>3. \A path, oldRoot : Consume(Len(hs), path, oldRoot)[n][m][isRoot] =
          ConsumeStep(path, oldRoot, Consume(Len(hs), path, oldRoot), n, m, isRoot)
    BY <2>1, ConsumeIs
  <2>4. CASE m = n /\ isRoot
    <3>1. p = <<>>
      BY <2>2, <2>4 DEF ConsistencyStep
    <3>2. IsList(p, 0)
      BY <3>1 DEF IsList
    <3>3. ASSUME NEW path, NEW oldRoot, Extends(path, p, 0), oldRoot = old
          PROVE  Implied(Consume(Len(hs), path, oldRoot)[n][m][isRoot], old, new, 0)
      <4>. DEFINE c == Consume(Len(hs), path, oldRoot)[n][m][isRoot]
      <4>1. c = [ok |-> TRUE, old |-> oldRoot, new |-> oldRoot, used |-> 0]
        BY <2>3, <2>4 DEF ConsumeStep, Whole
      <4>. HIDE DEF c
      <4>2. Implied(c, old, new, 0)
        BY <2>4, <3>3, <4>1 DEF Implied
      <4>. QED BY <4>2 DEF c
    <3>4. Implies(hs, p, 0, n, lo, m, isRoot)
      BY <2>4, <3>3 DEF Implies
    <3>5. Grows(hs, n, lo, m, isRoot, 0)
      BY <3>2, <3>4 DEF Grows
    <3>. QED BY <3>5
  <2>5. CASE m = n /\ ~isRoot
    <3>1. p = <<new>>
      BY <2>2, <2>5 DEF ConsistencyStep
    <3>2. IsList(p, 1) /\ p[1] = new
      <4>. HIDE DEF p, new
      <4>1. p[1] = new /\ p = [i \in 1 .. 1 |-> p[i]]
        BY <3>1
      <4>. QED BY <4>1 DEF IsList
    <3>3. ASSUME NEW path, NEW oldRoot, Extends(path, p, 1)
          PROVE  Implied(Consume(Len(hs), path, oldRoot)[n][m][isRoot], old, new, 1)
      <4>. DEFINE c == Consume(Len(hs), path, oldRoot)[n][m][isRoot]
      <4>1. path[1] = new /\ path # <<>>
        <5>1. 1 \in 0 .. Len(path) /\ \A j \in 1 .. 1 : path[j] = p[j]
          BY <3>3 DEF Extends
        <5>2. Len(path) # 0 /\ path[1] = p[1]
          BY <5>1
        <5>3. path # <<>>
          BY <5>2
        <5>. QED BY <3>2, <5>2, <5>3
      <4>2. c = [ok |-> TRUE, old |-> path[1], new |-> path[1], used |-> 1]
        BY <2>3, <2>5, <4>1 DEF ConsumeStep, Whole
      <4>. HIDE DEF c
      <4>3. Implied(c, old, new, 1)
        BY <2>5, <4>1, <4>2 DEF Implied
      <4>. QED BY <4>3 DEF c
    <3>4. Implies(hs, p, 1, n, lo, m, isRoot)
      BY <3>3 DEF Implies
    <3>5. Grows(hs, n, lo, m, isRoot, 1)
      BY <3>2, <3>4 DEF Grows
    <3>. QED BY <3>5
  <2>6. CASE m # n
    <3>. DEFINE k == Split(n)
                q == n - k
                left == m <= k
                half == IF left THEN ConsistencyOf(hs)[k][lo][m][isRoot]
                        ELSE ConsistencyOf(hs)[q][lo + k][m - k][FALSE]
                far == IF left THEN RootOf(hs)[q][lo + k] ELSE RootOf(hs)[k][lo]
                subOld == IF left THEN RootOf(hs)[m][lo] ELSE RootOf(hs)[m - k][lo + k]
                subNew == IF left THEN RootOf(hs)[k][lo] ELSE RootOf(hs)[q][lo + k]
    <3>1. /\ n >= 2 /\ k \in Nat /\ q \in Nat /\ k < n /\ q < n
          /\ m <= k => m \in 1 .. k
          /\ ~(m <= k) => m - k \in 1 .. q
      BY <2>6, StartBelow
    <3>2. k <= Len(hs) /\ q <= Len(hs) /\ lo + k \in Nat
      BY <3>1
    <3>3. StartsLead(hs, k) /\ StartsLead(hs, q)
      BY <1>1, <3>1, <3>2
    <3>4. /\ left => old = subOld /\ new = HashNode(subNew, far)
          /\ ~left => old = HashNode(far, subOld) /\ new = HashNode(far, subNew)
      <4>1. new = HashNode(RootOf(hs)[k][lo], RootOf(hs)[q][lo + k])
        BY <2>1, <3>1, RootOfIs
      <4>2. ~left => old = HashNode(RootOf(hs)[k][lo], RootOf(hs)[m - k][lo + k])
        BY <3>1, StartAbove
      <4>. QED BY <4>1, <4>2
    <3>5. p = Append(half, far)
      BY <2>2, <2>6 DEF ConsistencyStep
    <3>6. \A path, oldRoot : Consume(Len(hs), path, oldRoot)[n][m][isRoot] =
            Above(path, left, IF left THEN Consume(Len(hs), path, oldRoot)[k][m][isRoot]
                              ELSE Consume(Len(hs), path, oldRoot)[q][m - k][FALSE])
      BY <2>3, <2>6 DEF ConsumeStep, Below
    <3>7. PICK l \in Nat : /\ IsList(half, l)
                           /\ left => Implies(hs, half, l, k, lo, m, isRoot)
                           /\ ~left => Implies(hs, half, l, q, lo + k, m - k, FALSE)
      <4>1. CASE left
        <5>1. m \in 1 .. k
          BY <3>1, <4>1
        <5>2. PICK l \in Nat : Grows(hs, k, lo, m, isRoot, l)
          BY <3>3, <5>1 DEF StartsLead
        <5>. QED BY <4>1, <5>2 DEF Grows
      <4>2. CASE ~left
        <5>. DEFINE no == FALSE
                    j == m - k
                    e == lo + k
        <5>1. j \in 1 .. q /\ no \in BOOLEAN /\ e \in Nat
          BY <3>1, <3>2, <4>2
        <5>. HIDE DEF no, j, e, q
        <5>2. PICK l \in Nat : Grows(hs, q, e, j, no, l)
          BY <3>3, <5>1 DEF StartsLead
        <5>. QED BY <4>2, <5>2 DEF Grows, no, j, e, q
      <4>. QED BY <4>1, <4>2
    <3>8. ASSUME NEW path, NEW oldRoot, Extends(path, half, l), isRoot => oldRoot = old
          PROVE  Implied(IF left THEN Consume(Len(hs), path, oldRoot)[k][m][isRoot]
                         ELSE Consume(Len(hs), path, oldRoot)[q][m - k][FALSE], subOld, subNew, l)
      <4>1. CASE left
        <5>1. Implies(hs, half, l, k, lo, m, isRoot)
          BY <3>7, <4>1
        <5>. HIDE DEF half, k, q
        <5>. QED BY <3>8, <4>1, <5>1 DEF Implies
      <4>2. CASE ~left
        <5>. DEFINE no == FALSE
                    j == m - k
                    e == lo + k
        <5>1. Implies(hs, half, l, q, e, j, no) /\ ~no
          BY <3>7, <4>2
        <5>2. subOld = RootOf(hs)[j][e] /\ subNew = RootOf(hs)[q][e]
          BY <4>2
        <5>. HIDE DEF half, no, j, e, q, subOld, subNew
        <5>3. Implied(Consume(Len(hs), path, oldRoot)[q][j][no], RootOf(hs)[j][e], RootOf(hs)[q][e], l)
          BY <3>8, <5>1 DEF Implies
        <5>. QED BY <4>2, <5>2, <5>3 DEF no, j
      <4>. QED BY <4>1, <4>2
    <3>9. left \in BOOLEAN
      OBVIOUS
    <3>. HIDE DEF p, old, new, k, q, left, half, far, subOld, subNew
    <3>10. IsList(p, l + 1)
      BY <3>5, <3>7, AppendIs DEF Longer
    <3>11. ASSUME NEW path, NEW oldRoot, Extends(path, p, l + 1), isRoot => oldRoot = old
           PROVE  Implied(Consume(Len(hs), path, oldRoot)[n][m][isRoot], old, new, l + 1)
      <4>. DEFINE c == Consume(Len(hs), path, oldRoot)[n][m][isRoot]
                  sub == IF left THEN Consume(Len(hs), path, oldRoot)[k][m][isRoot]
                         ELSE Consume(Len(hs), path, oldRoot)[q][m - k][FALSE]
      <4>1. Stops(path, half, l, far)
        <5>1. IsList(half, l)
          BY <3>7
        <5>2. \A x : x = l + 1 => Extends(path, p, x)
          BY <3>11
        <5>. QED BY <3>5, <5>1, <5>2, ExtendsLess
      <4>2. Extends(path, half, l) /\ path[l + 1] = far /\ l + 1 \in 0 .. Len(path) /\ Len(path) \in Nat
        BY <4>1 DEF Stops
      <4>3. Implied(sub, subOld, subNew, l)
        BY <3>8, <3>11, <4>2
      <4>4. c = Above(path, left, sub)
        BY <3>6
      <4>. HIDE DEF c, sub
      <4>5. FromBelow(c, path, left, sub)
        BY <3>9, <4>4, AboveIs
      <4>6. sub.ok /\ sub.old = subOld /\ sub.new = subNew /\ sub.used = l
        BY <4>3 DEF Implied
      <4>7. l # Len(path)
        BY <4>2
      <4>8. /\ c.ok /\ c.used = l + 1
            /\ left => c.old = subOld /\ c.new = HashNode(subNew, far)
            /\ ~left => c.old = HashNode(far, subOld) /\ c.new = HashNode(far, subNew)
        BY <4>2, <4>5, <4>6, <4>7 DEF FromBelow
      <4>9. c.old = old /\ c.new = new
        BY <3>4, <4>8
      <4>10. Implied(c, old, new, l + 1)
        BY <4>8, <4>9 DEF Implied
      <4>. QED BY <4>10 DEF c
    <3>12. Implies(hs, p, l + 1, n, lo, m, isRoot)
      BY <3>11 DEF Implies, old, new
    <3>13. Grows(hs, n, lo, m, isRoot, l + 1) /\ l + 1 \in Nat
      BY <3>10, <3>12 DEF Grows, p
    <3>. QED BY <3>13
  <2>. QED BY <2>4, <2>5, <2>6
<1>2. S \in SUBSET Nat
  OBVIOUS
<1>. HIDE DEF S
<1>3. S = Nat
  BY <1>1, <1>2, StrongInduct
<1>. QED BY <1>3 DEF S

-----------------------------------------------------------------------------
(* The verifiers, of the trees of two logs.                                *)

LEMMA WholeIsFirst ==
  ASSUME NEW n \in Nat, NEW s, IsList(s, n)
  PROVE  First(s, n) = s
<1>1. n \in 0 .. n
  OBVIOUS
<1>. DEFINE t == First(s, n)
<1>2. IsList(t, n) /\ \A i \in 1 .. n : t[i] = s[i]
  BY <1>1, FirstOf
<1>. HIDE DEF t
<1>3. t = [i \in 1 .. n |-> t[i]] /\ s = [i \in 1 .. n |-> s[i]]
  BY <1>2 DEF IsList
<1>4. [i \in 1 .. n |-> t[i]] = [i \in 1 .. n |-> s[i]]
  BY <1>2
<1>5. t = s
  BY <1>3, <1>4
<1>. QED BY <1>5 DEF t

\* The root of a log's start.
LEMMA HeadRoot ==
  ASSUME NEW n \in Nat, NEW hs, IsList(hs, n), NEW m \in 0 .. n
  PROVE  HeadAt(hs, m) = RootOf(hs)[m][0]
<1>. DEFINE t == First(hs, m)
<1>1. IsList(t, m) /\ \A i \in 1 .. m : t[i] = hs[i]
  BY FirstOf
<1>2. HeadAt(hs, m) = Root(t)
  BY DEF HeadAt
<1>. HIDE DEF t
<1>3. Len(t) = m /\ Len(hs) = n /\ m \in Nat
  <2>1. m \in Nat
    OBVIOUS
  <2>2. Len(t) = m
    BY <1>1, <2>1, ListLength
  <2>3. Len(hs) = n
    BY ListLength
  <2>. QED BY <2>1, <2>2, <2>3
<1>4. Root(t) = RootOf(t)[m][0]
  BY <1>3 DEF Root
<1>5. SameSlice(t, 0, hs, 0, m)
  <2>1. \A i \in 1 .. m : 0 + i = i
    OBVIOUS
  <2>. QED BY <1>1, <2>1 DEF SameSlice
<1>6. m <= Len(t) /\ m <= Len(hs) /\ 0 \in Nat
  BY <1>3
<1>7. RootOf(t)[m][0] = RootOf(hs)[m][0]
  BY <1>3, <1>5, <1>6, RootsTell
<1>. QED BY <1>2, <1>4, <1>7

\* No proof shows that a log grew from anything but its start.
LEMMA OnlyStartShows ==
  ASSUME NEW n \in Nat, NEW hs, IsList(hs, n), NEW m \in 1 .. n, NEW path, NEW pinned,
         VerifyConsistency(m, n, path, pinned, Root(hs))
  PROVE  pinned = HeadAt(hs, m)
<1>1. Len(hs) = n /\ n <= Len(hs) /\ 0 \in Nat /\ m \in 0 .. n /\ m # 0
  <2>1. Len(hs) = n
    BY ListLength
  <2>. QED BY <2>1
<1>2. HeadAt(hs, m) = RootOf(hs)[m][0] /\ Root(hs) = RootOf(hs)[n][0]
  BY <1>1, HeadRoot DEF Root
<1>3. CASE m = n
  BY <1>2, <1>3 DEF VerifyConsistency
<1>4. CASE m # n
  <2>. DEFINE yes == TRUE
              c == Consume(n, path, pinned)[n][m][yes]
  <2>1. c.ok /\ c.old = pinned /\ c.new = Root(hs)
    BY <1>1, <1>4 DEF VerifyConsistency
  <2>2. OnlyStartLeads(hs, n)
    BY <1>1, ConsistencySound
  <2>3. yes \in BOOLEAN /\ c = Consume(Len(hs), path, pinned)[n][m][yes]
    BY <1>1
  <2>. HIDE DEF yes, c
  <2>4. c.old = RootOf(hs)[m][0]
    BY <1>1, <1>2, <2>1, <2>2, <2>3 DEF OnlyStartLeads
  <2>. QED BY <1>2, <2>1, <2>4
<1>. QED BY <1>3, <1>4

\* The server's own proof tells a start of the log from what is none.
LEMMA GrewIs ==
  ASSUME NEW n \in Nat, NEW hs, IsList(hs, n), NEW m \in Nat, NEW old, IsList(old, m), m <= n
  PROVE  Grew(old, hs) <=> SameSlice(old, 0, hs, 0, m)
<1>. DEFINE p == ConsistencyProof(hs, m)
<1>1. Len(hs) = n /\ Len(old) = m /\ First(hs, n) = hs /\ 0 \in Nat /\ n <= Len(hs)
  <2>1. Len(hs) = n
    BY ListLength
  <2>2. Len(old) = m
    BY ListLength
  <2>3. First(hs, n) = hs
    BY WholeIsFirst
  <2>. QED BY <2>1, <2>2, <2>3
<1>2. Root(hs) = RootOf(hs)[n][0] /\ Root(old) = RootOf(old)[m][0]
  BY <1>1 DEF Root
<1>3. Grew(old, hs) <=> VerifyConsistency(m, n, p, Root(old), Root(hs))
  BY <1>1 DEF Grew, GrowthVerified, ServedConsistency, HeadAt
<1>4. m <= Len(old) /\ m <= Len(hs)
  BY <1>1
<1>5. RootOf(old)[m][0] = RootOf(hs)[m][0] <=> SameSlice(old, 0, hs, 0, m)
  BY <1>1, <1>4, RootsTell
<1>6. CASE m = n
  <2>1. p = <<>>
    BY <1>1, <1>6 DEF ConsistencyProof
  <2>2. VerifyConsistency(m, n, p, Root(old), Root(hs)) <=> Root(old) = Root(hs)
    BY <1>6, <2>1 DEF VerifyConsistency
  <2>. QED BY <1>2, <1>3, <1>5, <1>6, <2>2
<1>7. CASE m # n /\ m = 0
  <2>1. VerifyConsistency(m, n, p, Root(old), Root(hs))
    BY <1>7 DEF VerifyConsistency
  <2>2. SameSlice(old, 0, hs, 0, m)
    BY <1>7 DEF SameSlice
  <2>. QED BY <1>3, <2>1, <2>2
<1>8. CASE m # n /\ m # 0
  <2>. DEFINE yes == TRUE
              c == Consume(n, p, Root(old))[n][m][yes]
              q == ConsistencyOf(hs)[n][0][m][yes]
  <2>1. m \in 1 .. n /\ yes \in BOOLEAN
    BY <1>8
  <2>2. VerifyConsistency(m, n, p, Root(old), Root(hs)) <=>
          c.ok /\ c.used = Len(p) /\ c.old = Root(old) /\ c.new = Root(hs)
    <3>1. 0 <= m /\ m <= n /\ m # n /\ m # 0
      BY <1>8
    <3>. QED BY <3>1, Zenon DEF VerifyConsistency
  <2>3. p = q
    BY <1>1, <1>8 DEF ConsistencyProof
  <2>4. c = Consume(Len(hs), p, Root(old))[n][m][yes] /\ (yes => TRUE)
    BY <1>1
  <2>. HIDE DEF p, c, yes
  <2>5. OnlyStartLeads(hs, n) /\ StartsLead(hs, n)
    BY <1>1, ConsistencySound, ConsistencyComplete
  <2>6. ASSUME c.ok, c.new = Root(hs), c.old = Root(old) PROVE SameSlice(old, 0, hs, 0, m)
    <3>1. c.old = RootOf(hs)[m][0]
      BY <1>1, <1>2, <2>1, <2>4, <2>5, <2>6 DEF OnlyStartLeads
    <3>. QED BY <1>2, <1>5, <2>6, <3>1
  <2>7. ASSUME SameSlice(old, 0, hs, 0, m)
        PROVE  c.ok /\ c.used = Len(p) /\ c.old = Root(old) /\ c.new = Root(hs)
    <3>1. Root(old) = RootOf(hs)[m][0]
      BY <1>2, <1>5, <2>7
    <3>2. PICK l \in Nat : Grows(hs, n, 0, m, yes, l)
      BY <1>1, <2>1, <2>5 DEF StartsLead
    <3>3. IsList(p, l) /\ Implies(hs, p, l, n, 0, m, yes)
      BY <2>3, <3>2 DEF Grows
    <3>4. Len(p) = l
      BY <3>3, ListIsSeq
    <3>5. Extends(p, p, l)
      BY <3>4 DEF Extends
    <3>6. Implied(c, RootOf(hs)[m][0], RootOf(hs)[n][0], l)
      BY <2>4, <3>1, <3>3, <3>5 DEF Implies
    <3>. QED BY <1>2, <3>1, <3>4, <3>6 DEF Implied
  <2>. QED BY <1>3, <2>2, <2>6, <2>7
<1>. QED BY <1>6, <1>7, <1>8

\* The server's own proof of a leaf, at any later size.
LEMMA ProvableIs ==
  ASSUME NEW n \in Nat, NEW hs, IsList(hs, n), NEW index \in Nat, NEW size \in 0 .. n,
         index < size, NEW body, hs[index + 1] = HashLeaf(body)
  PROVE  Provable(hs, body, index, size)
<1>. DEFINE t == First(hs, size)
<1>1. IsList(t, size) /\ \A i \in 1 .. size : t[i] = hs[i]
  BY FirstOf
<1>2. index + 1 \in 1 .. size /\ size \in Nat
  OBVIOUS
<1>3. Provable(hs, body, index, size) <=>
        VerifyInclusion(HashLeaf(body), index, size, Inclusion(t, index), Root(t))
  BY DEF Provable, ServedInclusion, EntryVerified, HeadAt
<1>. HIDE DEF t
<1>4. t[index + 1] = HashLeaf(body)
  BY <1>1, <1>2
<1>5. VerifyInclusion(t[index + 1], index, size, Inclusion(t, index), Root(t))
  BY <1>1, <1>2, ServedPathShows
<1>. QED BY <1>3, <1>4, <1>5

-----------------------------------------------------------------------------
(* What the auditor is told.                                               *)

\* The leaf of the receipt is the verdict that was given.
ReceiptsPoint ==
  \A r \in InStage({"answered"}) :
    /\ served[r].index \in Nat /\ served[r].index < Len(log)
    /\ log[served[r].index + 1] = served[r].allowed

AuditInv ==
  /\ ReceiptsPoint
  /\ former \in Seq(BOOLEAN)
  /\ study = NoStudy \/ study \in Claims \cup Grown

\* The leaves of decisions, and of any data.
LEMMA HashesAre ==
  ASSUME NEW n \in Nat, NEW s, IsList(s, n)
  PROVE  /\ IsList(Hashes(s), n) /\ AreLeaves(Hashes(s))
         /\ \A i \in 1 .. n : Hashes(s)[i] = HashLeaf(s[i])
<1>1. DOMAIN s = 1 .. n
  BY ListIsSeq
<1>. DEFINE hs == Hashes(s)
<1>2. hs = [i \in 1 .. n |-> HashLeaf(s[i])]
  BY <1>1 DEF Hashes
<1>. HIDE DEF hs
<1>3. hs = [i \in 1 .. n |-> hs[i]] /\ \A i \in 1 .. n : hs[i] = HashLeaf(s[i])
  BY <1>2
<1>4. IsList(hs, n)
  BY <1>3 DEF IsList
<1>5. Len(hs) = n
  BY <1>4, ListLength
<1>6. AreLeaves(hs)
  BY <1>3, <1>5 DEF AreLeaves
<1>. QED BY <1>3, <1>4, <1>6 DEF hs

LEMMA LeavesAre ==
  ASSUME NEW v \in Seq(BOOLEAN)
  PROVE  /\ Len(v) \in Nat /\ IsList(Leaves(v), Len(v)) /\ AreLeaves(Leaves(v))
         /\ \A i \in 1 .. Len(v) : Leaves(v)[i] = HashLeaf(Body(v[i]))
<1>. DEFINE n == Len(v)
            s == [i \in DOMAIN v |-> Body(v[i])]
<1>1. n \in Nat /\ DOMAIN v = 1 .. n
  OBVIOUS
<1>2. \A i \in 1 .. n : s[i] = Body(v[i])
  BY <1>1
<1>3. s = [i \in 1 .. n |-> s[i]]
  BY <1>1
<1>4. Leaves(v) = Hashes(s)
  BY DEF Leaves
<1>. HIDE DEF s, n
<1>5. IsList(s, n)
  BY <1>3 DEF IsList
<1>6. /\ IsList(Hashes(s), n) /\ AreLeaves(Hashes(s))
      /\ \A i \in 1 .. n : Hashes(s)[i] = HashLeaf(s[i])
  BY <1>1, <1>5, HashesAre
<1>. QED BY <1>1, <1>2, <1>4, <1>6 DEF n

\* A decision is read off its leaf.
LEMMA LeavesTell ==
  ASSUME NEW s \in Seq(BOOLEAN), NEW t \in Seq(BOOLEAN), Len(s) <= Len(t)
  PROVE  Grew(Leaves(s), Leaves(t)) <=> IsStart(s, t)
<1>. DEFINE m == Len(s)
            n == Len(t)
            old == Leaves(s)
            hs == Leaves(t)
            f == First(t, m)
<1>1. m \in Nat /\ IsList(old, m) /\ \A i \in 1 .. m : old[i] = HashLeaf(Body(s[i]))
  BY LeavesAre
<1>2. n \in Nat /\ IsList(hs, n) /\ \A i \in 1 .. n : hs[i] = HashLeaf(Body(t[i]))
  BY LeavesAre
<1>3. m <= n
  OBVIOUS
<1>4. f \in Seq(BOOLEAN) /\ Len(f) = m /\ \A i \in 1 .. m : f[i] = t[i]
  BY <1>1, <1>2, <1>3 DEF First
<1>5. IsStart(s, t) <=> s = f
  BY DEF IsStart
<1>6. s = f <=> \A i \in 1 .. m : s[i] = f[i]
  <2>1. s = [i \in 1 .. m |-> s[i]]
    OBVIOUS
  <2>2. f = [i \in 1 .. m |-> f[i]]
    <3>. HIDE DEF f
    <3>. QED BY <1>4
  <2>. HIDE DEF f, m
  <2>3. ASSUME \A i \in 1 .. m : s[i] = f[i] PROVE s = f
    <3>1. [i \in 1 .. m |-> s[i]] = [i \in 1 .. m |-> f[i]]
      BY <2>3
    <3>. QED BY <2>1, <2>2, <3>1
  <2>. QED BY <2>3
<1>. HIDE DEF m, n, old, hs, f
<1>7. Grew(old, hs) <=> SameSlice(old, 0, hs, 0, m)
  BY <1>1, <1>2, <1>3, GrewIs
<1>8. SameSlice(old, 0, hs, 0, m) <=> \A i \in 1 .. m : s[i] = f[i]
  <2>1. \A a, b : HashLeaf(Body(a)) = HashLeaf(Body(b)) => a = b
    <3>1. \A a, b : <<a>> = <<b>> => a = b
      <4>1. \A a, b : <<a>> = <<b>> => <<a>>[1] = <<b>>[1]
        OBVIOUS
      <4>. QED BY <4>1
    <3>2. \A a, b : HashLeaf(a) = HashLeaf(b) => a = b
      BY NodesApart
    <3>. QED BY <3>1, <3>2, Zenon DEF Body
  <2>2. ASSUME NEW i \in 1 .. m PROVE old[0 + i] = hs[0 + i] <=> s[i] = f[i]
    <3>1. 0 + i = i /\ i \in 1 .. n
      BY <1>1, <1>2, <1>3
    <3>2. old[i] = HashLeaf(Body(s[i])) /\ hs[i] = HashLeaf(Body(t[i])) /\ f[i] = t[i]
      BY <1>1, <1>2, <1>4, <3>1
    <3>. QED BY <2>1, <3>1, <3>2
  <2>. QED BY <2>2 DEF SameSlice
<1>. QED BY <1>5, <1>6, <1>7, <1>8 DEF old, hs

\* A decision keeps its place in the log for as long as the process lives.
LEMMA ReceiptsKept ==
  ASSUME TypeOK, ReceiptsPoint, Next
  PROVE  ReceiptsPoint'
<1>. DEFINE Points(r) ==
              /\ served[r].index \in Nat /\ served[r].index < Len(log)
              /\ log[served[r].index + 1] = served[r].allowed
<1>0. /\ log \in Seq(BOOLEAN) /\ Len(log) \in Nat
      /\ served \in [Requests -> [stage : {"new", "counted", "journalled", "answered", "lost", "before"},
                                  allowed : BOOLEAN, index : Int]]
  BY DEF TypeOK
<1>1. \A q \in Requests : served[q].stage = "answered" => Points(q)
  BY DEF ReceiptsPoint, InStage
<1>2. ASSUME \A q \in Requests : served'[q].stage = "answered" =>
                /\ served'[q].index \in Nat /\ served'[q].index < Len(log')
                /\ log'[served'[q].index + 1] = served'[q].allowed
      PROVE  ReceiptsPoint'
  BY <1>2 DEF ReceiptsPoint, InStage
<1>3. ASSUME log' = log,
             \A q \in Requests : served'[q].stage = "answered" => served'[q] = served[q]
      PROVE  ReceiptsPoint'
  BY <1>1, <1>2, <1>3
<1>4. ASSUME NEW r \in Requests, Serve(r) PROVE ReceiptsPoint'
  <2>1. CASE \E allowed \in BOOLEAN : Decide(r, allowed)
    <3>1. PICK allowed \in BOOLEAN : Decide(r, allowed)
      BY <2>1
    <3>2. log' = log /\ served' = [served EXCEPT ![r].stage = "counted", ![r].allowed = allowed]
      BY <3>1 DEF Decide
    <3>3. \A q \in Requests : served'[q].stage = "answered" => served'[q] = served[q]
      BY <1>0, <3>2
    <3>. QED BY <1>3, <3>2, <3>3
  <2>2. CASE JournalAppend(r) \/ EncodeFails(r) \/ StillBroken(r) \/ RotateFails(r)
    <3>1. log' = log /\ served' = [served EXCEPT ![r].stage = "journalled"]
      BY <2>2 DEF JournalAppend, EncodeFails, StillBroken, RotateFails, Go
    <3>2. \A q \in Requests : served'[q].stage = "answered" => served'[q] = served[q]
      BY <1>0, <3>1
    <3>. QED BY <1>3, <3>1, <3>2
  <2>3. CASE LogAppend(r)
    <3>. DEFINE a == served[r].allowed
    <3>1. /\ log' = Append(log, a)
          /\ served' = [served EXCEPT ![r].stage = "answered", ![r].index = Len(log)]
      BY <2>3 DEF LogAppend
    <3>2. a \in BOOLEAN
      BY <1>0
    <3>3. /\ served'[r].index = Len(log) /\ served'[r].allowed = a
          /\ \A q \in Requests : q # r => served'[q] = served[q]
      BY <1>0, <3>1
    <3>. HIDE DEF a
    <3>4. /\ Len(log') = Len(log) + 1 /\ log'[Len(log) + 1] = a
          /\ \A i \in 1 .. Len(log) : log'[i] = log[i]
      BY <1>0, <3>1, <3>2
    <3>5. ASSUME NEW q \in Requests, served'[q].stage = "answered"
          PROVE  /\ served'[q].index \in Nat /\ served'[q].index < Len(log')
                 /\ log'[served'[q].index + 1] = served'[q].allowed
      <4>1. CASE q = r
        BY <1>0, <3>3, <3>4, <4>1
      <4>2. CASE q # r
        <5>1. served'[q] = served[q]
          BY <3>3, <4>2
        <5>2. Points(q)
          BY <1>1, <3>5, <5>1
        <5>3. served[q].index + 1 \in 1 .. Len(log) /\ served[q].index < Len(log) + 1
          BY <1>0, <5>2
        <5>. QED BY <3>4, <5>1, <5>2, <5>3
      <4>. QED BY <4>1, <4>2
    <3>. QED BY <1>2, <3>5
  <2>. QED BY <1>4, <2>1, <2>2, <2>3 DEF Serve
<1>5. CASE Die
  <2>1. \A q \in Requests : served'[q].stage # "answered"
    <3>1. served' = [r \in Requests |->
            IF served[r].stage \in {"counted", "journalled"}
            THEN [served[r] EXCEPT !.stage = "lost"]
            ELSE IF served[r].stage = "answered" THEN [served[r] EXCEPT !.stage = "before"]
            ELSE served[r]]
      BY <1>5 DEF Die
    <3>. QED BY <1>0, <3>1
  <2>. QED BY <1>2, <2>1
<1>6. CASE Start
  <2>1. log' = log /\ served' = served
    BY <1>6 DEF Start
  <2>. QED BY <1>3, <2>1
<1>. QED BY <1>4, <1>5, <1>6 DEF Next

LEMMA AuditInvariant == AuditSpec => [](TypeOK /\ AuditInv)
<1>1. AuditInit => AuditInv
  <2>1. SUFFICES ASSUME AuditInit PROVE AuditInv
    OBVIOUS
  <2>2. InStage({"answered"}) = {}
    BY <2>1 DEF AuditInit, Init, InStage
  <2>3. former \in Seq(BOOLEAN) /\ (study = NoStudy \/ study \in Claims \cup Grown)
    BY <2>1 DEF AuditInit
  <2>. QED BY <2>2, <2>3 DEF AuditInv, ReceiptsPoint
<1>2. EnforcerInv => TypeOK
  BY DEF EnforcerInv
<1>3. TypeOK /\ AuditInv /\ [AuditNext]_auditVars => AuditInv'
  <2>1. SUFFICES ASSUME TypeOK, AuditInv, [AuditNext]_auditVars PROVE AuditInv'
    OBVIOUS
  <2>2. study' = study
    BY <2>1 DEF AuditNext, auditVars
  <2>3. CASE AuditNext
    <3>1. ReceiptsPoint'
      BY <2>1, <2>3, ReceiptsKept DEF AuditNext, AuditInv
    <3>2. former' = former \/ former' = log
      BY <2>3 DEF AuditNext
    <3>3. former' \in Seq(BOOLEAN)
      BY <2>1, <3>2 DEF AuditInv, TypeOK
    <3>4. study' = NoStudy' \/ study' \in (Claims \cup Grown)'
      <4>1. study = NoStudy \/ study \in Claims \cup Grown
        BY <2>1 DEF AuditInv
      <4>. QED BY <2>2, <4>1 DEF Claims, Grown, NoStudy, Claimed, Leaves, Hashes, Body, HashLeaf
    <3>. QED BY <3>1, <3>3, <3>4 DEF AuditInv
  <2>4. CASE UNCHANGED auditVars
    <3>1. ReceiptsPoint' /\ former' = former
      BY <2>1, <2>4 DEF auditVars, vars, AuditInv, ReceiptsPoint, InStage
    <3>. QED BY <2>1, <2>2, <3>1 DEF AuditInv
  <2>. QED BY <2>1, <2>3, <2>4
<1>4. AuditInit /\ [][AuditNext]_auditVars /\ []TypeOK => []AuditInv
  BY <1>1, <1>3, PTL
<1>5. AuditSpec => []TypeOK
  BY <1>2, EnforcerInvariant, PTL
<1>. QED BY <1>4, <1>5, PTL DEF AuditSpec

\* Every receipt is provable against every head from its own on: the log of the time is
\* a start of the log of today, and the path served for it leads to its root.
LEMMA ReceiptsHold ==
  ASSUME TypeOK, AuditInv
  PROVE  ReceiptsStayProvable
<1>. DEFINE hs == Leaves(log)
            n == Len(log)
<1>1. n \in Nat /\ IsList(hs, n) /\ \A i \in 1 .. n : hs[i] = HashLeaf(Body(log[i]))
  BY LeavesAre DEF TypeOK
<1>. HIDE DEF hs, n
<1>2. ASSUME NEW r \in InStage({"answered"}), NEW size \in served[r].index + 1 .. Len(log)
      PROVE  Provable(hs, Body(served[r].allowed), served[r].index, size)
  <2>. DEFINE index == served[r].index
              allowed == served[r].allowed
  <2>1. index \in Nat /\ index < n /\ log[index + 1] = allowed
    BY DEF AuditInv, ReceiptsPoint, n
  <2>2. size \in index + 1 .. n
    BY DEF n
  <2>. HIDE DEF index, allowed
  <2>3. size \in 0 .. n /\ index < size /\ index + 1 \in 1 .. n
    BY <1>1, <2>1, <2>2
  <2>4. hs[index + 1] = HashLeaf(Body(allowed))
    BY <1>1, <2>1, <2>3
  <2>5. Provable(hs, Body(allowed), index, size)
    BY <1>1, <2>1, <2>3, <2>4, ProvableIs
  <2>. QED BY <2>5 DEF index, allowed
<1>. QED BY <1>2 DEF ReceiptsStayProvable, hs

\* What the served proof says of a head is whether the head is a start of the log.
LEMMA HeadsDecide ==
  ASSUME TypeOK, AuditInv
  PROVE  PinnedHeadsDecide
<1>1. ASSUME NEW s \in Seq(BOOLEAN), NEW k \in 0 .. Len(s) PROVE First(s, k) \in Seq(BOOLEAN)
  BY DEF First
<1>2. log \in Seq(BOOLEAN) /\ former \in Seq(BOOLEAN)
  BY DEF TypeOK, AuditInv
<1>. DEFINE Pinned == {First(log, k) : k \in 0 .. Len(log)} \cup {First(former, k) : k \in 0 .. Len(former)}
<1>3. \A head \in Pinned : head \in Seq(BOOLEAN)
  BY <1>1, <1>2
<1>. HIDE DEF Pinned
<1>4. ASSUME NEW head \in Pinned, Len(head) <= Len(log)
      PROVE  Grew(Leaves(head), Leaves(log)) <=> IsStart(head, log)
  BY <1>2, <1>3, <1>4, LeavesTell
<1>. QED BY <1>4 DEF PinnedHeadsDecide, Pinned

\* The same of every index and every earlier head of a log of any data.
LEMMA GrownHold ==
  ASSUME AuditAssumption, study \in Grown
  PROVE  LET hs == study.log
             n == Len(hs)
         IN /\ \A i \in 1 .. n : EntryVerified(<<i>>, i - 1, n, Inclusion(hs, i - 1), Root(hs))
            /\ \A k \in 0 .. n : Grew(First(hs, k), hs)
<1>1. PICK N \in 1 .. MaxGrown : study = [kind |-> "grown", log |-> Hashes([i \in 1 .. N |-> <<i>>])]
  BY DEF Grown
<1>. DEFINE s == [i \in 1 .. N |-> <<i>>]
            hs == Hashes(s)
<1>2. N \in Nat /\ study.log = hs
  BY <1>1 DEF AuditAssumption
<1>3. \A i \in 1 .. N : s[i] = <<i>>
  OBVIOUS
<1>4. s = [i \in 1 .. N |-> s[i]]
  OBVIOUS
<1>. HIDE DEF s
<1>5. IsList(s, N)
  BY <1>4 DEF IsList
<1>6. IsList(hs, N) /\ \A i \in 1 .. N : hs[i] = HashLeaf(s[i])
  BY <1>2, <1>5, HashesAre
<1>. HIDE DEF hs
<1>7. Len(hs) = N
  BY <1>2, <1>6, ListLength
<1>8. ASSUME NEW i \in 1 .. N
      PROVE  EntryVerified(<<i>>, i - 1, N, Inclusion(hs, i - 1), Root(hs))
  <2>. DEFINE j == i - 1
  <2>1. j \in Nat /\ j < N /\ j + 1 = i
    BY <1>2
  <2>. HIDE DEF j
  <2>2. VerifyInclusion(hs[j + 1], j, N, Inclusion(hs, j), Root(hs))
    BY <1>2, <1>6, <2>1, ServedPathShows
  <2>3. hs[j + 1] = HashLeaf(<<i>>)
    BY <1>3, <1>6, <2>1
  <2>4. EntryVerified(<<i>>, j, N, Inclusion(hs, j), Root(hs))
    BY <2>2, <2>3 DEF EntryVerified
  <2>. QED BY <2>4 DEF j
<1>9. ASSUME NEW k \in 0 .. N PROVE Grew(First(hs, k), hs)
  <2>. DEFINE f == First(hs, k)
  <2>1. IsList(f, k) /\ \A i \in 1 .. k : f[i] = hs[i]
    BY <1>2, <1>6, FirstOf
  <2>2. k \in Nat /\ k <= N
    BY <1>2
  <2>. HIDE DEF f
  <2>3. \A i \in 1 .. k : f[0 + i] = hs[0 + i]
    <3>1. ASSUME NEW i \in 1 .. k PROVE 0 + i = i
      BY <2>2
    <3>. QED BY <2>1, <3>1
  <2>4. SameSlice(f, 0, hs, 0, k)
    BY <2>3 DEF SameSlice
  <2>5. Grew(f, hs)
    BY <1>2, <1>6, <2>1, <2>2, <2>4, GrewIs
  <2>. QED BY <2>5 DEF f
<1>. QED BY <1>2, <1>7, <1>8, <1>9

\* What the server answers with holds up: every receipt, every head pinned in this life
\* or the former one, and at every size of a log every index and every earlier head
\* (translog.Log.Append, logProof, recoup-verify).
THEOREM HonestAnswersAlwaysHold == AuditSpec => []HonestAnswersHold
<1>1. TypeOK /\ AuditInv => HonestAnswersHold
  <2>1. SUFFICES ASSUME TypeOK, AuditInv PROVE HonestAnswersHold
    OBVIOUS
  <2>2. ReceiptsStayProvable /\ PinnedHeadsDecide
    BY <2>1, ReceiptsHold, HeadsDecide
  <2>3. ASSUME study.kind = "grown" PROVE study \in Grown
    <3>1. \A x \in Claims : x.kind \in {"entry", "growth"}
      BY DEF Claims
    <3>2. NoStudy.kind = "none"
      BY DEF NoStudy
    <3>3. study = NoStudy \/ study \in Claims \/ study \in Grown
      BY <2>1 DEF AuditInv
    <3>. QED BY <2>3, <3>1, <3>2, <3>3
  <2>. QED BY <2>2, <2>3, GrownHold, AuditAssumption DEF HonestAnswersHold
<1>. QED BY <1>1, AuditInvariant, PTL

\* A claimed log is a list of leaves, and not empty.
LEMMA ClaimedAre ==
  ASSUME NEW hs \in Claimed
  PROVE  Len(hs) \in Nat /\ Len(hs) >= 1 /\ IsList(hs, Len(hs)) /\ AreLeaves(hs)
<1>0. PICK n \in 1 .. MaxClaimed : \E v \in [1 .. n -> BOOLEAN] : hs = Leaves(v)
  BY DEF Claimed
<1>1. PICK v \in [1 .. n -> BOOLEAN] : hs = Leaves(v)
  BY <1>0
<1>2. n \in Nat /\ n >= 1
  BY AuditAssumption DEF AuditAssumption
<1>3. v \in Seq(BOOLEAN) /\ Len(v) = n
  BY <1>2, IsSequence
<1>4. IsList(hs, n) /\ AreLeaves(hs)
  BY <1>1, <1>3, LeavesAre
<1>5. Len(hs) = n
  BY <1>2, <1>4, ListLength
<1>. QED BY <1>2, <1>4, <1>5

LEMMA PathLength ==
  ASSUME NEW hs, NEW path \in Paths(hs)
  PROVE  Len(path) \in Nat
<1>1. PICK n \in 0 .. MaxPath : path \in [1 .. n -> Material(hs)]
  BY DEF Paths
<1>2. n \in Nat
  BY AuditAssumption DEF AuditAssumption
<1>. QED BY <1>1, <1>2, IsSequence

\* No proof shows an entry that is not in the log, nor one at another's index, and none
\* shows that the log grew from anything but its own start: whatever the proof is made
\* of (VerifyInclusion and VerifyConsistency of recoup-verify).
THEOREM ForgeriesAlwaysFail == AuditSpec => []ForgedProofsFail
<1>1. AuditInv => ForgedProofsFail
  <2>1. SUFFICES ASSUME AuditInv PROVE ForgedProofsFail
    OBVIOUS
  <2>. DEFINE hs == study.log
              n == Len(hs)
  <2>2. ASSUME study.kind \in {"entry", "growth"}
        PROVE  n \in Nat /\ n >= 1 /\ IsList(hs, n) /\ AreLeaves(hs) /\ DOMAIN hs = 1 .. n
    <3>1. study \in Claims
      <4>1. ASSUME NEW x \in Grown PROVE x.kind = "grown"
        <5>1. PICK N \in 1 .. MaxGrown : x = [kind |-> "grown", log |-> Hashes([i \in 1 .. N |-> <<i>>])]
          BY DEF Grown
        <5>. DEFINE ts == Hashes([i \in 1 .. N |-> <<i>>])
        <5>. HIDE DEF ts
        <5>2. x = [kind |-> "grown", log |-> ts]
          BY <5>1 DEF ts
        <5>. QED BY <5>2
      <4>2. NoStudy.kind = "none"
        BY DEF NoStudy
      <4>3. study = NoStudy \/ study \in Claims \/ study \in Grown
        BY <2>1 DEF AuditInv
      <4>. QED BY <2>2, <4>1, <4>2, <4>3
    <3>2. hs \in Claimed
      BY <3>1 DEF Claims
    <3>. HIDE DEF hs
    <3>3. n \in Nat /\ n >= 1 /\ IsList(hs, n) /\ AreLeaves(hs)
      BY <3>2, ClaimedAre
    <3>4. DOMAIN hs = 1 .. n
      BY <3>3, ListIsSeq
    <3>. QED BY <3>3, <3>4
  <2>3. ASSUME study.kind = "entry", NEW path \in Paths(hs), NEW body \in Bodies(hs),
               NEW size \in 1 .. MaxClaimed + 1, NEW index \in 0 .. size - 1,
               EntryVerified(body, index, size, path, Root(hs))
        PROVE  /\ \E i \in DOMAIN hs : hs[i] = HashLeaf(body)
               /\ size = Len(hs) => hs[index + 1] = HashLeaf(body)
    <3>1. n \in Nat /\ n >= 1 /\ IsList(hs, n) /\ AreLeaves(hs) /\ DOMAIN hs = 1 .. n
      BY <2>2, <2>3
    <3>2. Len(path) \in Nat
      BY PathLength
    <3>3. index \in Nat
      BY AuditAssumption DEF AuditAssumption
    <3>. HIDE DEF hs, n
    <3>4. VerifyInclusion(HashLeaf(body), index, size, path, Root(hs))
      BY <2>3 DEF EntryVerified
    <3>5. \E i \in 1 .. n : hs[i] = HashLeaf(body)
      BY <3>1, <3>2, <3>4, OnlyLeavesShow
    <3>6. ASSUME size = n PROVE hs[index + 1] = HashLeaf(body)
      <4>1. VerifyInclusion(HashLeaf(body), index, n, path, Root(hs))
        BY <3>4, <3>6
      <4>. QED BY <3>1, <3>2, <3>3, <4>1, OnlyLeafShows
    <3>. QED BY <3>1, <3>5, <3>6 DEF n
  <2>4. ASSUME study.kind = "growth", NEW path \in Paths(hs), NEW pinned \in Material(hs),
               NEW from \in 1 .. Len(hs), GrowthVerified(from, Len(hs), path, pinned, Root(hs))
        PROVE  pinned = HeadAt(hs, from)
    <3>1. n \in Nat /\ IsList(hs, n)
      BY <2>2, <2>4
    <3>2. from \in 1 .. n /\ VerifyConsistency(from, n, path, pinned, Root(hs))
      BY <2>4 DEF GrowthVerified
    <3>. HIDE DEF hs, n
    <3>. QED BY <3>1, <3>2, OnlyStartShows
  <2>. QED BY <2>3, <2>4 DEF ForgedProofsFail
<1>. QED BY <1>1, AuditInvariant, PTL
=============================================================================
