----------------------------- MODULE MerkleLog -----------------------------
(***************************************************************************)
(* The RFC 6962 log of src/recoup/internal/translog and the offline        *)
(* verifier of src/recoup/cmd/recoup-verify: roots, inclusion and          *)
(* consistency proofs, and the two verifiers, which see hashes only.       *)
(*                                                                         *)
(* A hash is the term it was computed from, so two hashes are equal when   *)
(* their inputs are: SHA-256 without collisions.  The data of a leaf is a  *)
(* name, or a pair of hashes: bytes that read like the input of a node.    *)
(***************************************************************************)
EXTENDS Integers, Sequences

\* Fault: leaves and nodes are hashed alike.
OnePrefix(l, r) == <<"leaf", <<l, r>>>>

HashLeaf(data) == <<"leaf", data>>

HashNode(l, r) == <<"node", <<l, r>>>>

EmptyRoot == <<"empty">>

First(s, k) == SubSeq(s, 1, k)

\* Fault: the tree is split down the middle.
Middle(n) == n \div 2

Power[i \in Nat] == IF i = 0 THEN 1 ELSE 2 * Power[i - 1]

\* largestPowerOfTwoBelow: strictly below n.
Split(n) == CHOOSE k \in {Power[i] : i \in 0 .. n} : k < n /\ n <= 2 * k

\* Log.root, of the n hashes of hs after the first lo.
RootOf(hs) ==
  LET Of[n \in 0 .. Len(hs)] == [lo \in Nat |->
        IF n = 0 THEN EmptyRoot
        ELSE IF n = 1 THEN hs[lo + 1]
        ELSE HashNode(Of[Split(n)][lo], Of[n - Split(n)][lo + Split(n)])]
  IN Of

Root(hs) == RootOf(hs)[Len(hs)][0]

\* Log.inclusion, from the leaf to the root, in the same slice; i counts from 0 there.
InclusionOf(hs) ==
  LET Of[n \in 0 .. Len(hs)] == [lo \in Nat |-> [i \in Nat |->
        LET k == Split(n)
        IN IF n <= 1 THEN <<>>
           ELSE IF i < k THEN Append(Of[k][lo][i], RootOf(hs)[n - k][lo + k])
           ELSE Append(Of[n - k][lo + k][i - k], RootOf(hs)[k][lo])]]
  IN Of

Inclusion(hs, index) == InclusionOf(hs)[Len(hs)][0][index]

\* Log.consistency: SUBPROOF of the first m hashes of the slice.
ConsistencyOf(hs) ==
  LET Of[n \in 0 .. Len(hs)] == [lo \in Nat |-> [m \in 1 .. n |-> [isRoot \in BOOLEAN |->
        LET k == Split(n)
        IN IF m = n THEN IF isRoot THEN <<>> ELSE <<RootOf(hs)[n][lo]>>
           ELSE IF m <= k THEN Append(Of[k][lo][m][isRoot], RootOf(hs)[n - k][lo + k])
           ELSE Append(Of[n - k][lo + k][m - k][FALSE], RootOf(hs)[k][lo])]]]
  IN Of

\* Log.ConsistencyProof
ConsistencyProof(hs, m) ==
  IF m = 0 \/ m = Len(hs) THEN <<>> ELSE ConsistencyOf(hs)[Len(hs)][0][m][TRUE]

-----------------------------------------------------------------------------
(* The verifiers.                                                          *)

\* The shift past the levels at which the last node of a ragged tree has no sibling.
Strip[fn \in Nat] == [sn \in Nat |->
  IF fn = 0 \/ fn % 2 = 1 THEN <<fn, sn>> ELSE Strip[fn \div 2][sn \div 2]]

\* One round of VerifyInclusion's loop, with the hash p of the path.
Round(x, p) ==
  LET isRight == x.fn % 2 = 1 \/ x.fn = x.sn
      at == IF isRight THEN Strip[x.fn][x.sn] ELSE <<x.fn, x.sn>>
  IN [computed |-> IF isRight THEN HashNode(p, x.computed) ELSE HashNode(x.computed, p),
      fn |-> at[1] \div 2, sn |-> at[2] \div 2]

\* The loop, after each of its rounds.
Climb(leaf, index, size, path) ==
  LET After[i \in 0 .. Len(path)] ==
        IF i = 0 THEN [computed |-> leaf, fn |-> index, sn |-> size - 1]
        ELSE Round(After[i - 1], path[i])
  IN After

\* VerifyInclusion: a path is neither longer nor shorter than the tree is deep.
VerifyInclusion(leaf, index, size, path, root) ==
  /\ 0 <= index /\ index < size
  /\ LET after == Climb(leaf, index, size, path)
     IN /\ \A i \in 1 .. Len(path) : after[i - 1].sn # 0
        /\ after[Len(path)].sn = 0 /\ after[Len(path)].computed = root

Short == [ok |-> FALSE, old |-> EmptyRoot, new |-> EmptyRoot, used |-> 0]

\* consumeConsistency, of trees of up to size hashes: the roots that the proof implies
\* and how many of its hashes that takes.
Consume(size, path, oldRoot) ==
  LET Of[n \in 0 .. size] == [m \in 1 .. n |-> [isRoot \in BOOLEAN |->
        LET k == Split(n)
            isLeft == m <= k
            sub == IF isLeft THEN Of[k][m][isRoot] ELSE Of[n - k][m - k][FALSE]
            h == path[sub.used + 1]
        IN IF m = n
           THEN IF isRoot THEN [ok |-> TRUE, old |-> oldRoot, new |-> oldRoot, used |-> 0]
                ELSE IF path = <<>> THEN Short
                ELSE [ok |-> TRUE, old |-> path[1], new |-> path[1], used |-> 1]
           ELSE IF ~sub.ok \/ sub.used = Len(path) THEN Short
           ELSE [ok |-> TRUE, used |-> sub.used + 1,
                 old |-> IF isLeft THEN sub.old ELSE HashNode(h, sub.old),
                 new |-> IF isLeft THEN HashNode(sub.new, h) ELSE HashNode(h, sub.new)]]]
  IN Of

\* VerifyConsistency: every log extends the empty one, whatever the proof.
VerifyConsistency(m, n, path, oldRoot, newRoot) ==
  /\ 0 <= m /\ m <= n
  /\ IF m = n THEN path = <<>> /\ oldRoot = newRoot
     ELSE m = 0 \/ LET c == Consume(n, path, oldRoot)[n][m][TRUE]
                   IN c.ok /\ c.used = Len(path) /\ c.old = oldRoot /\ c.new = newRoot

=============================================================================
