---------------------------- MODULE EvidencePack ----------------------------
(***************************************************************************)
(* What is handed to an auditor, and what an operator is told at startup:  *)
(* src/src/revoco/evidence.py, the checks of ledger.py it relies on, and   *)
(* SqliteStore.startup_report, over the chains of DurableLedger.           *)
(*                                                                         *)
(* A pack or a checkpoint publishes a head hash and a Merkle root.  They   *)
(* are compared later with a chain that has grown, was reloaded, belongs   *)
(* to another process, or is a damaged copy.                               *)
(***************************************************************************)
EXTENDS DurableLedger, SequencesExt

\* Ledger.head_hash
HeadOf(chain) == IF chain = <<>> THEN Genesis ELSE chain[Len(chain)].hash

Content(row) == [seq |-> row.seq, prev |-> row.prev, event |-> row.event]

\* LedgerEntry.compute_hash of a row, where the hashes of the genuine rows are known
\* and every other content has a hash of its own.
ComputeHash(row, genuine) ==
  LET same == {n \in DOMAIN genuine : Content(genuine[n]) = Content(row)}
  IN IF same = {} THEN minted + 1 ELSE genuine[CHOOSE n \in same : TRUE].hash

\* Fault: the links are followed and no hash is recomputed.
LinksVerified(chain, genuine) ==
  \A n \in DOMAIN chain :
    chain[n].seq = n /\ chain[n].prev = HeadOf(SubSeq(chain, 1, n - 1))

\* Ledger.verify_integrity, which ends without an exception.
Verified(chain, genuine) ==
  \A n \in DOMAIN chain :
    /\ chain[n].seq = n
    /\ chain[n].prev = HeadOf(SubSeq(chain, 1, n - 1))
    /\ chain[n].hash = ComputeHash(chain[n], genuine)

\* Ledger.verify_against_head
VerifiedAgainst(head, chain, genuine) == Verified(chain, genuine) /\ HeadOf(chain) = head

\* Ledger.merkle_root: an odd node is paired with itself.
NextLevel(level) ==
  [i \in 1 .. (Len(level) + 1) \div 2 |->
     <<level[2 * i - 1], IF 2 * i <= Len(level) THEN level[2 * i] ELSE level[2 * i - 1]>>]

\* The levels of the tree, the last one repeated once it is the root.
Levels(chain) ==
  LET up[k \in 0 .. Len(chain)] ==
        IF k = 0 THEN [n \in DOMAIN chain |-> <<chain[n].hash>>]
        ELSE IF Len(up[k - 1]) = 1 THEN up[k - 1] ELSE NextLevel(up[k - 1])
  IN up

MerkleRoot(chain) == IF chain = <<>> THEN <<>> ELSE Levels(chain)[Len(chain)][1]

\* Ledger.checkpoint
Checkpoint(p) ==
  [entries |-> Len(memory[p]), head |-> HeadOf(memory[p]), root |-> MerkleRoot(memory[p])]

\* build_evidence_pack, its integrity section, when the recipient's witnessed head is
\* compared.
Integrity(p, witness) ==
  [verified |-> Verified(memory[p], memory[p]), mark |-> Checkpoint(p),
   matches |-> witness = HeadOf(memory[p])]

\* SqliteStore.startup_report, what it says of the ledger and the journal.
StartupReport ==
  [verified |-> Verified(Loaded, Loaded), entries |-> Len(Loaded), head |-> HeadOf(Loaded),
   open |-> {i \in Ids : stored[i].state = "committed"}]

-----------------------------------------------------------------------------
(* Damaged copies of a chain: truncated, reordered, with entries missing or *)
(* repeated, with one entry edited or edited and hashed anew, with one more.*)

Shuffled(chain) == UNION {[1 .. n -> Range(chain)] : n \in 0 .. Len(chain)}

Foreign == [entry |-> CHOOSE i \in Ids : TRUE, state |-> "foreign", journaled |-> FALSE]

Edited(chain) ==
  {[chain EXCEPT ![n].event = Foreign] : n \in DOMAIN chain}
  \cup {[chain EXCEPT ![n].event = Foreign, ![n].hash = minted + 1] : n \in DOMAIN chain}

Lengthened(chain) ==
  {Append(chain, [seq |-> Len(chain) + 1, hash |-> minted + 1, prev |-> HeadOf(chain),
                  event |-> Foreign])}

Copies(chain) == Shuffled(chain) \cup Edited(chain) \cup Lengthened(chain)

-----------------------------------------------------------------------------
(* Properties.                                                             *)

\* A copy of the ledger that verifies differs from it at its end only, and one that
\* verifies against a witnessed head is the ledger the witness saw.
DamageIsFound(p) ==
  LET chain == memory[p]
  IN \A copy \in Copies(chain) :
       /\ Verified(copy, chain) => \A n \in DOMAIN copy : n < Len(copy) => copy[n] = chain[n]
       /\ VerifiedAgainst(HeadOf(chain), copy, chain) => copy = chain

\* The journal entries whose last recorded transition is a commit.
LastCommitted ==
  {i \in Ids : \E s \in DOMAIN ledger :
     /\ ledger[s].event = [entry |-> i, state |-> "committed", journaled |-> TRUE]
     /\ \A r \in DOMAIN ledger : r > s =>
          ~(ledger[r].event.entry = i /\ ledger[r].event.journaled)}

\* What is published of a ledger holds it to it: every pack of every process verifies,
\* two with one head or one Merkle root are of one list of entries, an older one is of a
\* beginning of it, and no damaged copy passes for it.  And the startup report describes
\* the file: a chain that verifies, no shorter than any process has shown, and as open
\* the entries whose last recorded transition is a commit.
PublishedHeadsHold ==
  /\ \A p \in Processes : Integrity(p, HeadOf(memory[p])).verified /\ DamageIsFound(p)
  /\ \A p, q \in Processes :
       /\ Integrity(p, HeadOf(memory[q])).matches <=> memory[p] = memory[q]
       /\ Checkpoint(p).root = Checkpoint(q).root <=> memory[p] = memory[q]
       /\ Len(memory[p]) <= Len(memory[q]) => IsPrefix(memory[p], memory[q])
  /\ StartupReport.verified /\ StartupReport.open = LastCommitted
  /\ \A p \in Processes : StartupReport.entries >= Checkpoint(p).entries

\* The inductive strengthening: a hash is of one entry, prepared or stored, and a
\* journal row is of the latest ledger row of its entry.
HashesAreMinted ==
  /\ \A s \in DOMAIN ledger : ledger[s].hash \in 1 .. minted
  /\ \A r, s \in DOMAIN ledger : ledger[r].hash = ledger[s].hash => r = s
  /\ \A t \in Threads :
       thread[t].pc = "prepared" =>
         /\ thread[t].row.hash \in 1 .. minted
         /\ \A s \in DOMAIN ledger : ledger[s].hash # thread[t].row.hash
  /\ \A t, u \in Threads :
       thread[t].pc = "prepared" /\ thread[u].pc = "prepared"
         /\ thread[t].row.hash = thread[u].row.hash => t = u

JournalIsLatest ==
  \A s \in DOMAIN ledger :
    ledger[s].event.journaled => stored[ledger[s].event.entry].seq >= s

EvidenceInv == LedgerInv /\ HashesAreMinted /\ JournalIsLatest
=============================================================================
