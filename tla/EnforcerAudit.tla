--------------------------- MODULE EnforcerAudit ---------------------------
(***************************************************************************)
(* The enforcer as an auditor sees it: receipts, heads pinned earlier, the *)
(* proofs that /v1/log/proof answers with, and what recoup-verify says of  *)
(* them and of proofs nobody honest made.                                  *)
(*                                                                         *)
(* A study is a claim put before the verifier, with no server at all; the  *)
(* proof that comes with it is anything made of the hashes of the log and  *)
(* of one that is in no log.                                               *)
(***************************************************************************)
EXTENDS Enforcer, MerkleLog

CONSTANTS
  MaxClaimed,  \* bound: the size a claim gives the log
  MaxPath,     \* bound: hashes in a forged proof
  MaxGrown     \* bound: the longest log whose honest proofs are all tried

ASSUME AuditAssumption == MaxClaimed \in Nat /\ MaxPath \in Nat /\ MaxGrown \in Nat

VARIABLES
  former,  \* history: the log of the life before this one
  study    \* the claim studied, or NoStudy for the machine

auditVars == <<vars, former, study>>

NoStudy == [kind |-> "none"]

\* decide: the body of the leaf of a decision.
Body(allowed) == <<allowed>>

Hashes(leaves) == [i \in DOMAIN leaves |-> HashLeaf(leaves[i])]

\* Log.Append, over a whole log.
Leaves(verdicts) == Hashes([i \in DOMAIN verdicts |-> Body(verdicts[i])])

\* Log.HeadAt
HeadAt(hs, size) == Root(First(hs, size))

\* logProof, for inclusion
ServedInclusion(hs, index, size) ==
  [path |-> Inclusion(First(hs, size), index), root |-> HeadAt(hs, size)]

\* logProof, for consistency
ServedConsistency(hs, from, size) ==
  [path |-> ConsistencyProof(First(hs, size), from), root |-> HeadAt(hs, size)]

\* recoup-verify inclusion, the root being the one that was pinned.
EntryVerified(body, index, size, path, root) ==
  VerifyInclusion(HashLeaf(body), index, size, path, root)

\* recoup-verify consistency, with --old-root.
GrowthVerified(from, size, path, pinned, root) ==
  VerifyConsistency(from, size, path, pinned, root)

-----------------------------------------------------------------------------
(* Claims.                                                                 *)

Subtrees(hs) ==
  LET Of[n \in 0 .. Len(hs)] == [lo \in Nat |->
        {RootOf(hs)[n][lo]} \cup
        (IF n <= 1 THEN {} ELSE Of[Split(n)][lo] \cup Of[n - Split(n)][lo + Split(n)])]
  IN Of[Len(hs)][0]

Junk == <<"junk">>

Material(hs) == Subtrees(hs) \cup {Junk}

Paths(hs) == UNION {[1 .. n -> Material(hs)] : n \in 0 .. MaxPath}

\* What the leaf of a claim may hold: a verdict, or the bytes of two hashes.
Bodies(hs) == {Body(TRUE), Body(FALSE)} \cup {<<l, r>> : l, r \in Subtrees(hs)}

Claimed == {Leaves(v) : v \in UNION {[1 .. n -> BOOLEAN] : n \in 1 .. MaxClaimed}}

Claims == {[kind |-> k, log |-> hs] : k \in {"entry", "growth"}, hs \in Claimed}

\* Logs longer than the requests make, no two leaves alike.
Grown == {[kind |-> "grown", log |-> Hashes([i \in 1 .. n |-> <<i>>])] : n \in 1 .. MaxGrown}

-----------------------------------------------------------------------------

AuditInit ==
  /\ Init /\ former = <<>>
  /\ \/ study = NoStudy
     \/ mode = "enforce" /\ study \in Claims \cup Grown

AuditNext ==
  /\ study = NoStudy /\ Next
  /\ former' = IF up /\ ~up' THEN log ELSE former
  /\ UNCHANGED study

AuditSpec == AuditInit /\ [][AuditNext]_auditVars

-----------------------------------------------------------------------------
(* Properties.                                                             *)

\* What is asked of the log depends on log and former only, and each pair of them
\* that is reached is reached with nothing in flight and no disk failure.
Quiet ==
  /\ up /\ study = NoStudy /\ faults = 0
  /\ InStage({"counted", "journalled"}) = {}

\* The receipt of an entry is provable against the head of the given size.
Provable(hs, body, index, size) ==
  LET proof == ServedInclusion(hs, index, size)
  IN EntryVerified(body, index, size, proof.path, proof.root)

IsStart(s, t) == Len(s) <= Len(t) /\ s = First(t, Len(s))

\* What the server's own proof shows of a head pinned when the log was old.
Grew(old, hs) ==
  LET proof == ServedConsistency(hs, Len(old), Len(hs))
  IN GrowthVerified(Len(old), Len(hs), proof.path, Root(old), proof.root)

\* Every receipt this life of the enforcer gave out is provable against every head it
\* publishes afterwards, whatever the size of the log then.
ReceiptsStayProvable ==
  \A r \in InStage({"answered"}) : \A size \in served[r].index + 1 .. Len(log) :
    Provable(Leaves(log), Body(served[r].allowed), served[r].index, size)

\* A head pinned in this life or in the former one is told by the server's own
\* consistency proof to be a start of the log exactly when it is; one pinned before a
\* restart is not, unless the same decisions came again in the same order.
PinnedHeadsDecide ==
  \A head \in {First(log, k) : k \in 0 .. Len(log)} \cup {First(former, k) : k \in 0 .. Len(former)} :
    Len(head) <= Len(log) => (Grew(Leaves(head), Leaves(log)) <=> IsStart(head, log))

\* What the server answers with holds up: receipts and pinned heads, and at every size
\* of the log every index and every earlier head.
HonestAnswersHold ==
  /\ Quiet => ReceiptsStayProvable /\ PinnedHeadsDecide
  /\ study.kind = "grown" =>
       LET hs == study.log
           n == Len(hs)
       IN /\ \A i \in 1 .. n : EntryVerified(<<i>>, i - 1, n, Inclusion(hs, i - 1), Root(hs))
          /\ \A k \in 0 .. n : Grew(First(hs, k), hs)

\* No proof shows an entry that is not in the log with that root, nor, when the size
\* of the log is known as well, an entry at another's index; and none shows that a
\* log grew from anything but its own start, unless the start is said to be empty.
ForgedProofsFail ==
  /\ study.kind = "entry" =>
       LET hs == study.log
           root == Root(hs)
       IN \A path \in Paths(hs), body \in Bodies(hs) :
            \A size \in 1 .. MaxClaimed + 1 : \A index \in 0 .. size - 1 :
              EntryVerified(body, index, size, path, root) =>
                /\ \E i \in DOMAIN hs : hs[i] = HashLeaf(body)
                /\ size = Len(hs) => hs[index + 1] = HashLeaf(body)
  /\ study.kind = "growth" =>
       LET hs == study.log
           root == Root(hs)
       IN \A path \in Paths(hs), pinned \in Material(hs), from \in 1 .. Len(hs) :
            GrowthVerified(from, Len(hs), path, pinned, root) => pinned = HeadAt(hs, from)

=============================================================================
