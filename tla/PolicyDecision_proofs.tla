----------------------- MODULE PolicyDecision_proofs -----------------------
(***************************************************************************)
(* Proofs about PolicyDecision, for every policy, registry and call: the   *)
(* registry answers with the latest specification, the evaluators agree,   *)
(* and the prover's report is right.                                       *)
(*                                                                         *)
(* The prover tries finitely many calls.  That it misses nothing is one    *)
(* lemma, Shadow: for each call there is a witness that the same rule      *)
(* decides on the same posture.  The rule that decides matches its         *)
(* shadow, and no rule matches the shadow that did not match the call.     *)
(*                                                                         *)
(* And about EstateAnalysis, for every journal: what a suggested policy    *)
(* answers is one lemma, VerdictIs (approval first, then the agents'       *)
(* clauses), from which its tightness and its replay follow.               *)
(***************************************************************************)
EXTENDS EstateAnalysis, FiniteSetTheorems, SequenceTheorems, WellFoundedInduction, TLAPS

-----------------------------------------------------------------------------
(* The first index, and the largest value below a bound.                   *)

\* A nonempty set of naturals has a least element, and Lowest is it.
LEMMA LowestIs ==
  ASSUME NEW S \in SUBSET Nat, S # {}
  PROVE  Lowest(S) \in S /\ \A j \in S : Lowest(S) <= j
<1> DEFINE Less == {pair \in Nat \X Nat : pair[1] < pair[2]}
<1>1. IsWellFoundedOn(Less, Nat)
  BY NatLessThanWellFounded DEF OpToRel
<1>2. PICK x \in S : \A y \in S : <<y, x>> \notin Less
  BY <1>1, WFMin
<1>3. ASSUME NEW y \in S PROVE x <= y
  <2>1. x \in Nat /\ y \in Nat
    OBVIOUS
  <2>2. ~(y < x)
    <3>1. <<y, x>> \in Nat \X Nat /\ <<y, x>>[1] = y /\ <<y, x>>[2] = x
      BY <2>1
    <3> QED
      BY <1>2, <3>1
  <2> QED
    BY <2>1, <2>2
<1> QED
  BY <1>3 DEF Lowest

\* A nonempty set of naturals below a bound has a greatest element.
LEMMA GreatestBelow ==
  ASSUME NEW S \in SUBSET Nat, NEW n \in Nat, S # {}, \A x \in S : x <= n
  PROVE  \E m \in S : \A x \in S : x <= m
<1> DEFINE D == {d \in Nat : n - d \in S}
<1>1. D # {}
  <2>1. PICK x \in S : x <= n
    OBVIOUS
  <2>2. n - x \in D
    BY <2>1
  <2> QED
    BY <2>2
<1>2. PICK d \in D : \A e \in D : d <= e
  <2>1. D \in SUBSET Nat
    OBVIOUS
  <2> HIDE DEF D
  <2> QED
    BY <1>1, <2>1, LowestIs
<1>3. n - d \in S
  OBVIOUS
<1>4. ASSUME NEW x \in S PROVE x <= n - d
  <2>1. n - x \in Nat /\ n - (n - x) = x
    BY <1>4
  <2>2. d <= n - x
    BY <1>2, <2>1
  <2>3. d \in Nat
    OBVIOUS
  <2> QED
    BY <2>1, <2>2, <2>3
<1> QED
  BY <1>3, <1>4

-----------------------------------------------------------------------------
(* The evaluators.                                                         *)

\* What a loaded rule satisfies: _parse_rule refused the others.
Sound(r) == r \in Rules /\ r.tools # {} /\ (r.kinds = {} \/ r.floor = {})

\* A set of alternatives of which there is at most one.
LEMMA OptionalIs ==
  ASSUME NEW S, NEW opt \in Optional(S)
  PROVE  opt \subseteq S
BY DEF Optional

LEMMA RanksAreNumbers ==
  ASSUME NEW kind \in Kinds
  PROVE  Rank[kind] \in Nat
BY DEF Kinds, Rank

\* CPython drops no range of a pattern that has no empty one.
LEMMA OrderlyIsKept ==
  ASSUME NEW p \in Patterns, Orderly(p)
  PROVE  PyTranslate(Spelling[p]) = Spelling[p]
<1> DEFINE s == Spelling[p]
<1>1. s \in Seq(Pieces)
  BY PolicyAssumption
<1>2. ASSUME NEW i \in DOMAIN s PROVE [s[i] EXCEPT !.ranges = {r \in @ : ~Reversed(r)}] = s[i]
  <2>1. s[i] \in Pieces
    BY <1>1
  <2>2. {r \in s[i].ranges : ~Reversed(r)} = s[i].ranges
    BY DEF Orderly, Compiles
  <2>3. [s[i] EXCEPT !.ranges = s[i].ranges] = s[i]
    BY <2>1 DEF Pieces
  <2> QED
    BY <2>2, <2>3
<1>3. PyTranslate(s) = [i \in DOMAIN s |-> s[i]]
  BY <1>2 DEF PyTranslate
<1>4. s = [i \in DOMAIN s |-> s[i]]
  BY <1>1
<1> QED
  BY <1>3, <1>4

\* The enforcer's pattern matches what CPython's does, or it does not compile.
LEMMA GoTableIs ==
  ASSUME NEW p \in Patterns
  PROVE  FnMatch[p] = IF Orderly(p) THEN Matches[p] ELSE {}
<1>1. FnMatch[p] = {n \in Names : Orderly(p) /\ Accepts(Spelling[p], Spelt[n])}
  BY DEF FnMatch, GoTranslate, Orderly
<1>2. Matches[p] = {n \in Names : Accepts(PyTranslate(Spelling[p]), Spelt[n])}
  BY DEF Matches
<1>3. CASE Orderly(p)
  BY <1>1, <1>2, <1>3, OrderlyIsKept
<1>4. CASE ~Orderly(p)
  BY <1>1, <1>4
<1> QED
  BY <1>3, <1>4

LEMMA GoListIs ==
  ASSUME NEW pats, pats \subseteq Patterns, NEW name
  PROVE  /\ GoMatchesAny(name, pats) => MatchesAny(name, pats)
         /\ (\A p \in pats : Orderly(p)) /\ MatchesAny(name, pats) => GoMatchesAny(name, pats)
BY GoTableIs DEF GoMatchesAny, MatchesAny

\* A rule that matches in the enforcer matches in the bundle's evaluator, and the other
\* way round if no pattern of the rule has an empty range.
LEMMA MatchersAgree ==
  ASSUME NEW r, NEW c, NEW kind, r \in Rules
  PROVE  /\ GoMatches(r, c, kind) => BundleMatches(r, c, kind)
         /\ (\A p \in r.tools \cup r.actions \cup r.agents : Orderly(p))
              /\ BundleMatches(r, c, kind) => GoMatches(r, c, kind)
<1>1. \A floor \in r.floor : floor \in Kinds
  BY OptionalIs DEF Rules
<1>2. r.tools \subseteq Patterns /\ r.actions \subseteq Patterns /\ r.agents \subseteq Patterns
  BY DEF Rules
<1>3. (\A floor \in r.floor : kind \in Kinds /\ Rank[kind] >= Rank[floor])
        <=> \A floor \in r.floor : (IF kind \in Kinds THEN Rank[kind] ELSE -1) >= Rank[floor]
  <2>1. \A floor \in r.floor : ~(-1 >= Rank[floor])
    BY <1>1, RanksAreNumbers
  <2> QED
    BY <2>1
<1>4. /\ GoMatchesAny(c.tool, r.tools) => MatchesAny(c.tool, r.tools)
      /\ GoMatchesAny(c.action, r.actions) => MatchesAny(c.action, r.actions)
      /\ GoMatchesAny(c.agent, r.agents) => MatchesAny(c.agent, r.agents)
  BY <1>2, GoListIs
<1>5. ASSUME \A p \in r.tools \cup r.actions \cup r.agents : Orderly(p)
      PROVE  /\ MatchesAny(c.tool, r.tools) => GoMatchesAny(c.tool, r.tools)
             /\ MatchesAny(c.action, r.actions) => GoMatchesAny(c.action, r.actions)
             /\ MatchesAny(c.agent, r.agents) => GoMatchesAny(c.agent, r.agents)
  <2>1. /\ \A p \in r.tools : Orderly(p)
        /\ \A p \in r.actions : Orderly(p)
        /\ \A p \in r.agents : Orderly(p)
    BY <1>5
  <2> QED
    BY <1>2, <2>1, GoListIs
<1> QED
  BY <1>3, <1>4, <1>5 DEF GoMatches, BundleMatches, Applies

\* On a posture the language knows, a portable rule matches in the gate as in a bundle.
LEMMA GateAgrees ==
  ASSUME NEW r, NEW c, NEW kind \in Kinds, Portable(r)
  PROVE  GateMatches(r, c, kind) <=> BundleMatches(r, c, kind)
BY DEF Portable, GateMatches, BundleMatches

\* The posture a registry gives is one of Kinds.
LEMMA ClassifyType ==
  ASSUME NEW ex, ex \subseteq Specs, NEW gs \in Seq(Specs), NEW tool
  PROVE  Classify(ex, gs, tool) \in Kinds
<1> DEFINE hits == {i \in DOMAIN gs : tool \in Matches[gs[i].tool]}
<1>1. \A s \in Specs : s.kind \in Kinds
  BY PolicyAssumption
<1>2. ASSUME hits # {} PROVE gs[Lowest(hits)].kind \in Kinds
  <2>1. hits \in SUBSET Nat
    OBVIOUS
  <2>2. Lowest(hits) \in hits
    BY <1>2, <2>1, LowestIs
  <2>3. Lowest(hits) \in DOMAIN gs
    BY <2>2
  <2> QED
    BY <1>1, <2>3
<1>3. ASSUME \E s \in ex : s.tool = tool
      PROVE  (CHOOSE s \in ex : s.tool = tool).kind \in Kinds
  BY <1>1, <1>3
<1>4. "unknown" \in Kinds
  BY DEF Kinds
<1> QED
  BY <1>2, <1>3, <1>4 DEF Classify, LookUp

\* Without an empty range in its patterns, the registry answers the same in Go.
LEMMA ClassifiersAgree ==
  ASSUME NEW ex, NEW gs \in Seq(Specs), NEW tool, \A i \in DOMAIN gs : Orderly(gs[i].tool)
  PROVE  GoClassify(ex, gs, tool) = Classify(ex, gs, tool)
<1>1. \A i \in DOMAIN gs : gs[i].tool \in Patterns
  BY PolicyAssumption
<1>2. {i \in DOMAIN gs : tool \in FnMatch[gs[i].tool]}
        = {i \in DOMAIN gs : tool \in Matches[gs[i].tool]}
  BY <1>1, GoTableIs
<1> QED
  BY <1>2 DEF GoClassify, Classify

-----------------------------------------------------------------------------
(* A witness for every call.                                               *)

\* Among the thresholds of a set of bounds there is one that meets the same
\* bounds, of both kinds, as a given number.
LEMMA ThresholdFor ==
  ASSUME NEW opts \in SUBSET Nat, NEW n \in Nat
  PROVE  \E w \in Thresholds(opts) :
           w \in Nat /\ \A t \in opts : (n >= t <=> w >= t) /\ (n <= t <=> w <= t)
<1> DEFINE below == {x \in Thresholds(opts) : x <= n}
<1>1. Thresholds(opts) \subseteq Nat
  BY DEF Thresholds
<1>2. \A t \in opts : t \in Thresholds(opts) /\ t + 1 \in Thresholds(opts)
  <2>1. ASSUME NEW t \in opts
        PROVE  t \in Nat /\ t + 1 \in Nat /\ {t - 1, t, t + 1} \in {{u - 1, u, u + 1} : u \in opts}
    OBVIOUS
  <2>2. ASSUME NEW t \in opts
        PROVE  t \in UNION {{u - 1, u, u + 1} : u \in opts}
               /\ t + 1 \in UNION {{u - 1, u, u + 1} : u \in opts}
    BY <2>1
  <2> QED
    BY <2>1, <2>2 DEF Thresholds
<1>3. PICK w \in below : \A x \in below : x <= w
  <2>1. 0 \in below
    BY DEF Thresholds
  <2>2. below \in SUBSET Nat /\ \A x \in below : x <= n
    BY <1>1
  <2> HIDE DEF below
  <2> QED
    BY <2>1, <2>2, GreatestBelow
<1>4. w \in Thresholds(opts) /\ w \in Nat /\ w <= n
  BY <1>1
<1>5. ASSUME NEW t \in opts PROVE (n >= t <=> w >= t) /\ (n <= t <=> w <= t)
  <2>1. t \in Nat
    OBVIOUS
  <2>2. n >= t => w >= t
    BY <1>2, <1>3, <2>1
  <2>3. n >= t + 1 => w >= t + 1
    BY <1>2, <1>3, <2>1
  <2> QED
    BY <1>4, <2>1, <2>2, <2>3
<1> QED
  BY <1>4, <1>5

\* A name that stands for another with a pattern: it matches the pattern, and
\* no pattern that the other does not match.
StandsFor(name, other, pats) ==
  /\ MatchesAny(name, pats)
  /\ \A q \in Patterns : name \in Matches[q] => other \in Matches[q]

\* Each name that some pattern of a list matches has a stand-in among the witnesses.
LEMMA NameFor ==
  ASSUME NEW all, NEW pats, pats \subseteq all, pats \subseteq Patterns,
         pats \subseteq DOMAIN WitnessOf \cup {Star},
         NEW literals, NEW name \in Names, MatchesAny(name, pats)
  PROVE  \E p \in pats, w \in NameWitnesses(all, literals) :
           /\ StandsFor(w, name, pats)
           /\ name \in Matches[p]
           /\ IF p = Star THEN w = Unmatched ELSE p \in DOMAIN WitnessOf /\ w = WitnessOf[p]
<1>1. PICK p \in pats : name \in Matches[p]
  BY DEF MatchesAny
<1>2. CASE p = Star
  <2>1. Unmatched \in NameWitnesses(all, literals)
    BY DEF NameWitnesses
  <2>2. Unmatched \in Matches[p]
    BY <1>2, PolicyAssumption
  <2>3. \A q \in Patterns : Unmatched \in Matches[q] => name \in Matches[q]
    BY PolicyAssumption
  <2> QED
    BY <1>1, <1>2, <2>1, <2>2, <2>3 DEF StandsFor, MatchesAny
<1>3. CASE p # Star
  <2>1. p \in DOMAIN WitnessOf
    BY <1>3
  <2>2. WitnessOf[p] \in NameWitnesses(all, literals)
    BY <2>1 DEF NameWitnesses
  <2>3. WitnessOf[p] \in Matches[p]
        /\ \A q \in Patterns : WitnessOf[p] \in Matches[q] => Matches[p] \subseteq Matches[q]
    BY <2>1, PolicyAssumption
  <2> QED
    BY <1>1, <1>3, <2>1, <2>2, <2>3 DEF StandsFor, MatchesAny
<1> QED
  BY <1>2, <1>3

\* A compiled bundle, as the proofs need it.
BundleOK(b) ==
  /\ DOMAIN b.rules \subseteq Nat
  /\ \A i \in DOMAIN b.rules : Sound(b.rules[i]) /\ Portable(b.rules[i])
  /\ b.exact \subseteq Specs /\ \A s \in b.exact : s.tool \notin Globs
  /\ b.globs \in Seq(Specs)

\* A stand-in for a tool whose posture, when the registry has only exact names, is
\* the posture of the tool: a name of the registry stands for itself.
LEMMA ToolFor ==
  ASSUME NEW b, BundleOK(b), Complete(b), NEW r \in RulesOf(b), NEW name \in Names,
         MatchesAny(name, r.tools)
  PROVE  \E w \in NameWitnesses(UNION {q.tools : q \in RulesOf(b)}, {s.tool : s \in b.exact}) :
           /\ StandsFor(w, name, r.tools)
           /\ b.globs = <<>> => Classify(b.exact, b.globs, w) = Classify(b.exact, b.globs, name)
<1> DEFINE all == UNION {q.tools : q \in RulesOf(b)}
           literals == {s.tool : s \in b.exact}
<1>1. CASE name \in literals
  <2>1. name \in NameWitnesses(all, literals)
    BY <1>1 DEF NameWitnesses
  <2> QED
    BY <2>1 DEF StandsFor
<1>2. CASE name \notin literals
  <2>1. Sound(r) /\ r.tools \subseteq all /\ r.tools \subseteq DOMAIN WitnessOf \cup {Star}
    BY DEF BundleOK, RulesOf, Complete
  <2>2. r.tools \subseteq Patterns
    BY <2>1 DEF Sound, Rules
  <2>3. PICK p \in r.tools, w \in NameWitnesses(all, literals) :
           /\ StandsFor(w, name, r.tools)
           /\ name \in Matches[p]
           /\ IF p = Star THEN w = Unmatched ELSE p \in DOMAIN WitnessOf /\ w = WitnessOf[p]
    <3> HIDE DEF all, literals
    <3> QED
      BY <2>1, <2>2, NameFor
  <2>4. ASSUME NEW s \in b.exact, s.tool = w PROVE FALSE
    <3>1. s.tool \in Patterns \ Globs /\ Matches[s.tool] = {s.tool}
      BY PolicyAssumption DEF BundleOK
    <3>2. name \in Matches[s.tool]
      BY <2>3, <2>4, <3>1 DEF StandsFor
    <3> QED
      BY <1>2, <3>1, <3>2
  <2>5. ASSUME b.globs = <<>> PROVE Classify(b.exact, b.globs, w) = Classify(b.exact, b.globs, name)
    <3>1. ~\E s \in b.exact : s.tool = name
      BY <1>2
    <3>2. ~\E s \in b.exact : s.tool = w
      BY <2>4
    <3>3. DOMAIN b.globs = {}
      BY <2>5
    <3> QED
      BY <3>1, <3>2, <3>3 DEF Classify, LookUp
  <2> QED
    BY <2>3, <2>5
<1> QED
  BY <1>1, <1>2

\* A call that no rule matches unless it matches another call.
Shadows(b, w, c) ==
  /\ \A q \in Patterns :
       /\ w.tool \in Matches[q] => c.tool \in Matches[q]
       /\ w.action \in Matches[q] => c.action \in Matches[q]
       /\ w.agent \in Matches[q] => c.agent \in Matches[q]
  /\ w.roles \subseteq c.roles
  /\ \A r \in RulesOf(b) :
       /\ \A t \in r.minThreat : c.threat >= t <=> w.threat >= t
       /\ \A t \in r.minRisk : c.risk >= t <=> w.risk >= t
       /\ \A t \in r.maxRisk : c.risk <= t <=> w.risk <= t

LEMMA ShadowIsNarrower ==
  ASSUME NEW b, BundleOK(b), NEW w, NEW c, Shadows(b, w, c),
         NEW r \in RulesOf(b), NEW kind, BundleMatches(r, w, kind)
  PROVE  BundleMatches(r, c, kind)
<1>1. r.tools \subseteq Patterns /\ r.actions \subseteq Patterns /\ r.agents \subseteq Patterns
  BY DEF BundleOK, RulesOf, Sound, Rules
<1>2. MatchesAny(c.tool, r.tools) /\ MatchesAny(c.action, r.actions) /\ MatchesAny(c.agent, r.agents)
  BY <1>1 DEF Shadows, BundleMatches, Applies, Admits, MatchesAny
<1>3. r.roles \subseteq c.roles
  BY DEF Shadows, BundleMatches, Applies, Admits
<1>4. AtLeast(r.minThreat, c.threat) /\ AtLeast(r.minRisk, c.risk) /\ AtMost(r.maxRisk, c.risk)
  BY DEF Shadows, BundleMatches, Applies, Admits, AtLeast, AtMost
<1> QED
  BY <1>2, <1>3, <1>4 DEF BundleMatches, Applies, Admits

\* A shadow that the deciding rule matches, on the same posture, gets the verdict
\* of the call.
LEMMA ShadowDecides ==
  ASSUME NEW b, BundleOK(b), NEW w, NEW c, Shadows(b, w, c), KindIn(b, w) = KindIn(b, c),
         \A i \in DOMAIN b.rules :
           BundleMatches(b.rules[i], c, KindIn(b, c))
             /\ (\A j \in DOMAIN b.rules : BundleMatches(b.rules[j], c, KindIn(b, c)) => i <= j)
             => BundleMatches(b.rules[i], w, KindIn(b, c))
  PROVE  BundleVerdict(b, w) = BundleVerdict(b, c)
<1> DEFINE kind == KindIn(b, c)
           hits(call) == {i \in DOMAIN b.rules : BundleMatches(b.rules[i], call, kind)}
<1>1. hits(w) \subseteq hits(c)
  <2>1. \A i \in DOMAIN b.rules : b.rules[i] \in RulesOf(b)
    BY DEF RulesOf
  <2> QED
    BY <2>1, ShadowIsNarrower
<1>2. hits(c) \in SUBSET Nat /\ hits(w) \in SUBSET Nat
  BY DEF BundleOK
<1>3. CASE hits(c) = {}
  <2>1. hits(w) = {}
    BY <1>1, <1>3
  <2> QED
    BY <1>3, <2>1 DEF BundleVerdict, BundleHits
<1>4. CASE hits(c) # {}
  <2> DEFINE first == Lowest(hits(c))
  <2>1. first \in hits(c) /\ \A j \in hits(c) : first <= j
    <3> HIDE DEF hits
    <3> QED
      BY <1>2, <1>4, LowestIs
  <2>2. first \in hits(w)
    <3> HIDE DEF first
    <3> QED
      BY <2>1
  <2>3. Lowest(hits(w)) \in hits(w) /\ \A j \in hits(w) : Lowest(hits(w)) <= j
    <3> HIDE DEF hits, first
    <3> QED
      BY <1>2, <2>2, LowestIs
  <2>4. Lowest(hits(w)) = first
    <3>1. first <= Lowest(hits(w)) /\ Lowest(hits(w)) <= first
      <4> HIDE DEF hits, first
      <4> QED
        BY <1>1, <2>1, <2>2, <2>3
    <3>2. first \in Nat /\ Lowest(hits(w)) \in Nat
      <4> HIDE DEF hits, first
      <4> QED
        BY <1>2, <2>1, <2>3
    <3> HIDE DEF hits, first
    <3> QED
      BY <3>1, <3>2
  <2>5. Verdict(b.rules, hits(w), b.default, kind) = Verdict(b.rules, hits(c), b.default, kind)
    <3>1. hits(w) # {}
      BY <2>2
    <3> HIDE DEF hits, kind
    <3> QED
      BY <1>4, <2>4, <3>1 DEF Verdict, first
  <2> QED
    BY <2>5 DEF BundleVerdict, BundleHits
<1> QED
  BY <1>3, <1>4

\* A witness with given names and roles, on a call's thresholds and posture.
LEMMA WitnessIs ==
  ASSUME NEW b, BundleOK(b), NEW c \in Known, KindIn(b, c) \in Kinds,
         NEW tool \in NameWitnesses(UNION {r.tools : r \in RulesOf(b)}, {s.tool : s \in b.exact}),
         NEW action \in NameWitnesses(UNION {r.actions : r \in RulesOf(b)}, {"read", "write"}),
         NEW agent \in NameWitnesses(UNION {r.agents : r \in RulesOf(b)}, {}),
         NEW roles \in RoleSets(b), roles \subseteq c.roles,
         \A q \in Patterns : tool \in Matches[q] => c.tool \in Matches[q],
         \A q \in Patterns : action \in Matches[q] => c.action \in Matches[q],
         \A q \in Patterns : agent \in Matches[q] => c.agent \in Matches[q]
  PROVE  \E w \in Witnesses(b) :
           /\ Shadows(b, w, c) /\ w.posture = KindIn(b, c) /\ KindIn(b, w) = KindIn(b, c)
           /\ w.tool = tool /\ w.action = action /\ w.agent = agent /\ w.roles = roles
<1> DEFINE risks == UNION {r.minRisk \cup r.maxRisk : r \in RulesOf(b)}
           threats == UNION {r.minThreat : r \in RulesOf(b)}
<1>1. \A r \in RulesOf(b) : r.minRisk \subseteq Nat /\ r.maxRisk \subseteq Nat /\ r.minThreat \subseteq Nat
  <2>1. \A r \in RulesOf(b) :
          r.minRisk \in Optional(Nat) /\ r.maxRisk \in Optional(Nat) /\ r.minThreat \in Optional(Nat)
    BY DEF BundleOK, RulesOf, Sound, Rules
  <2> QED
    BY <2>1, OptionalIs
<1>2. c.risk \in Nat /\ c.threat \in Nat
  BY PolicyAssumption DEF Known
<1>3. PICK risk \in Thresholds(risks) :
        \A t \in risks : (c.risk >= t <=> risk >= t) /\ (c.risk <= t <=> risk <= t)
  <2>1. risks \in SUBSET Nat
    BY <1>1
  <2>2. c.risk \in Nat
    BY <1>2
  <2>3. \A T \in SUBSET Nat : \A n \in Nat : \E m \in Thresholds(T) :
          \A t \in T : (n >= t <=> m >= t) /\ (n <= t <=> m <= t)
    BY ThresholdFor
  <2> HIDE DEF risks, threats
  <2> QED
    BY <2>1, <2>2, <2>3, Zenon
<1>4. PICK threat \in Thresholds(threats) :
        \A t \in threats : (c.threat >= t <=> threat >= t) /\ (c.threat <= t <=> threat <= t)
  <2>1. threats \in SUBSET Nat
    BY <1>1
  <2>2. c.threat \in Nat
    BY <1>2
  <2>3. \A T \in SUBSET Nat : \A n \in Nat : \E m \in Thresholds(T) :
          \A t \in T : (n >= t <=> m >= t) /\ (n <= t <=> m <= t)
    BY ThresholdFor
  <2> HIDE DEF risks, threats
  <2> QED
    BY <2>1, <2>2, <2>3, Zenon
<1> DEFINE w == [tool |-> tool, action |-> action, agent |-> agent, roles |-> roles,
                 risk |-> risk, threat |-> threat, posture |-> KindIn(b, c), meets |-> FALSE]
<1>5. w \in Witnesses(b)
  BY DEF Witnesses
<1>6. \A r \in RulesOf(b) :
        /\ \A t \in r.minThreat : c.threat >= t <=> threat >= t
        /\ \A t \in r.minRisk : c.risk >= t <=> risk >= t
        /\ \A t \in r.maxRisk : c.risk <= t <=> risk <= t
  <2>1. \A r \in RulesOf(b) : r.minThreat \subseteq threats /\ r.minRisk \subseteq risks /\ r.maxRisk \subseteq risks
    OBVIOUS
  <2> HIDE DEF risks, threats
  <2> QED
    BY <1>3, <1>4, <2>1
<1>7. Shadows(b, w, c)
  BY <1>6 DEF Shadows
<1>8. KindIn(b, w) = KindIn(b, c)
  <2>1. KindIn(b, c) # ""
    BY DEF Kinds
  <2> QED
    BY <2>1 DEF KindIn
<1> QED
  BY <1>5, <1>7, <1>8

LEMMA KindIsKnown ==
  ASSUME NEW b, BundleOK(b), NEW c \in Known
  PROVE  KindIn(b, c) \in Kinds
BY ClassifyType DEF BundleOK, Known, KindIn

\* Each call of a known posture has a witness that gets its verdict on its posture;
\* and when only exact names are registered and the bundle itself gives the call its
\* posture, it gives it to the witness too, unless no rule decides.
LEMMA ShadowExists ==
  ASSUME NEW b, BundleOK(b), Complete(b), RoleSets(b) = Combinations(b), NEW c \in Known
  PROVE  \E w \in Witnesses(b) :
           /\ w.posture = KindIn(b, c) /\ KindIn(b, w) = KindIn(b, c)
           /\ BundleVerdict(b, w) = BundleVerdict(b, c)
           /\ b.globs = <<>> /\ c.posture = "" =>
                \/ w.posture = Classify(b.exact, b.globs, w.tool)
                \/ Deciding(b, c) = "__default__"
<1> DEFINE kind == KindIn(b, c)
           hits == {i \in DOMAIN b.rules : BundleMatches(b.rules[i], c, kind)}
<1>1. kind \in Kinds
  BY KindIsKnown
<1>2. c.tool \in Names /\ c.action \in Names /\ c.agent \in Names
  BY PolicyAssumption DEF Known
<1>3. CASE hits = {}
  <2>1. \A pats, literals : Unmatched \in NameWitnesses(pats, literals)
    BY DEF NameWitnesses
  <2>2. \A q \in Patterns, name \in Names : Unmatched \in Matches[q] => name \in Matches[q]
    BY PolicyAssumption
  <2>3. {} \in RoleSets(b)
    BY DEF Combinations
  <2>4. PICK w \in Witnesses(b) :
          Shadows(b, w, c) /\ w.posture = KindIn(b, c) /\ KindIn(b, w) = KindIn(b, c)
    <3>1. {} \subseteq c.roles
      OBVIOUS
    <3>2. /\ \A q \in Patterns : Unmatched \in Matches[q] => c.tool \in Matches[q]
          /\ \A q \in Patterns : Unmatched \in Matches[q] => c.action \in Matches[q]
          /\ \A q \in Patterns : Unmatched \in Matches[q] => c.agent \in Matches[q]
      BY <1>2, <2>2
    <3>3. /\ Unmatched \in NameWitnesses(UNION {r.tools : r \in RulesOf(b)}, {s.tool : s \in b.exact})
          /\ Unmatched \in NameWitnesses(UNION {r.actions : r \in RulesOf(b)}, {"read", "write"})
          /\ Unmatched \in NameWitnesses(UNION {r.agents : r \in RulesOf(b)}, {})
      BY <2>1
    <3> HIDE <2>1, <2>2 DEF hits
    <3> QED
      BY <1>1, <2>3, <3>1, <3>2, <3>3, WitnessIs
  <2>5. BundleVerdict(b, w) = BundleVerdict(b, c)
    BY <1>3, <2>4, ShadowDecides
  <2>6. Deciding(b, c) = "__default__"
    BY <1>3 DEF Deciding, BundleVerdict, BundleHits, Verdict
  <2> QED
    BY <2>4, <2>5, <2>6
<1>4. CASE hits # {}
  <2>1. PICK i \in hits : \A j \in hits : i <= j
    <3>1. hits \in SUBSET Nat
      BY DEF BundleOK
    <3> HIDE DEF hits
    <3> QED
      BY <1>4, <3>1, LowestIs
  <2> DEFINE r == b.rules[i]
  <2>2. r \in RulesOf(b) /\ BundleMatches(r, c, kind)
    BY DEF RulesOf
  <2>3. /\ MatchesAny(c.tool, r.tools) /\ MatchesAny(c.action, r.actions) /\ MatchesAny(c.agent, r.agents)
        /\ r.roles \subseteq c.roles
    BY <2>2 DEF BundleMatches, Applies, Admits
  <2>4. r.actions \subseteq Patterns /\ r.agents \subseteq Patterns
        /\ r.actions \subseteq DOMAIN WitnessOf \cup {Star}
        /\ r.agents \subseteq DOMAIN WitnessOf \cup {Star}
    BY <2>2 DEF BundleOK, RulesOf, Sound, Rules, Complete
  <2>5. r.actions \subseteq UNION {q.actions : q \in RulesOf(b)}
        /\ r.agents \subseteq UNION {q.agents : q \in RulesOf(b)}
    BY <2>2
  <2> HIDE DEF r
  <2>6. PICK tool \in NameWitnesses(UNION {q.tools : q \in RulesOf(b)}, {s.tool : s \in b.exact}) :
          /\ StandsFor(tool, c.tool, r.tools)
          /\ b.globs = <<>> => Classify(b.exact, b.globs, tool) = Classify(b.exact, b.globs, c.tool)
    BY <1>2, <2>2, <2>3, ToolFor
  <2>7. PICK action \in NameWitnesses(UNION {q.actions : q \in RulesOf(b)}, {"read", "write"}) :
          StandsFor(action, c.action, r.actions)
    BY <1>2, <2>3, <2>4, <2>5, NameFor
  <2>8. PICK agent \in NameWitnesses(UNION {q.agents : q \in RulesOf(b)}, {}) :
          StandsFor(agent, c.agent, r.agents)
    BY <1>2, <2>3, <2>4, <2>5, NameFor
  <2>9. r.roles \in RoleSets(b)
    BY <2>2 DEF Combinations
  <2>10. PICK w \in Witnesses(b) :
           /\ Shadows(b, w, c) /\ w.posture = KindIn(b, c) /\ KindIn(b, w) = KindIn(b, c)
           /\ w.tool = tool /\ w.action = action /\ w.agent = agent /\ w.roles = r.roles
    BY <1>1, <2>3, <2>6, <2>7, <2>8, <2>9, WitnessIs DEF StandsFor
  <2>11. BundleMatches(r, w, kind)
    <3>1. MatchesAny(w.tool, r.tools) /\ MatchesAny(w.action, r.actions) /\ MatchesAny(w.agent, r.agents)
      BY <2>6, <2>7, <2>8, <2>10 DEF StandsFor
    <3>2. AtLeast(r.minThreat, w.threat) /\ AtLeast(r.minRisk, w.risk) /\ AtMost(r.maxRisk, w.risk)
      BY <2>2, <2>10 DEF Shadows, BundleMatches, Applies, Admits, AtLeast, AtMost
    <3>3. r.roles \subseteq w.roles
      BY <2>10
    <3> QED
      BY <2>2, <3>1, <3>2, <3>3 DEF BundleMatches, Applies, Admits
  <2>12. ASSUME NEW k \in DOMAIN b.rules, BundleMatches(b.rules[k], c, KindIn(b, c)),
                \A j \in DOMAIN b.rules : BundleMatches(b.rules[j], c, KindIn(b, c)) => k <= j
         PROVE  BundleMatches(b.rules[k], w, KindIn(b, c))
    <3>1. k <= i /\ i <= k /\ i \in Nat /\ k \in Nat
      BY <2>1, <2>12 DEF BundleOK
    <3>2. k = i
      BY <3>1
    <3> QED
      BY <2>11, <3>2 DEF r
  <2>13. BundleVerdict(b, w) = BundleVerdict(b, c)
    BY <2>10, <2>12, ShadowDecides
  <2>14. ASSUME b.globs = <<>>, c.posture = "" PROVE w.posture = Classify(b.exact, b.globs, w.tool)
    BY <2>6, <2>10, <2>14 DEF KindIn
  <2> QED
    BY <2>10, <2>13, <2>14
<1> QED
  BY <1>3, <1>4

-----------------------------------------------------------------------------
(* The policy and the bundle.                                              *)

\* What loading and compiling keep: every rule is sound, a built bundle is the
\* policy, the default and the registry as they are, and an enforcer runs only on
\* a built bundle, without checked identities only on one that asks for none.
BundleInv ==
  /\ DOMAIN policy \subseteq Nat /\ \A i \in DOMAIN policy : Sound(policy[i])
  /\ default \in Effects
  /\ IF bundle.built
     THEN bundle = [rules |-> policy, default |-> default, exact |-> exact, globs |-> globs,
                    built |-> TRUE]
          /\ \A i \in DOMAIN policy : Portable(policy[i])
     ELSE bundle = NoBundle /\ served = "down"
  /\ served = "unverified" => DependsOnAgent(bundle) = {}
  /\ served \in {"down", "unverified", "trusted-network"}

\* A rule that the loader takes is sound.
LEMMA ParsedIsSound ==
  ASSUME NEW raw \in RawRules, ~Refuses(raw)
  PROVE  Sound(Parsed(raw))
<1> DEFINE orStar(pats) == IF pats = {} THEN {Star} ELSE pats
           raws == [id : RuleIds, effect : STRING, tools : SUBSET Patterns,
                    actions : SUBSET Patterns, agents : SUBSET Patterns, roles : SUBSET Roles,
                    kinds : SUBSET STRING, floor : Optional(STRING), minThreat : Optional(Nat),
                    minRisk : Optional(Nat), maxRisk : Optional(Nat), when : BOOLEAN,
                    budget : BOOLEAN, redacts : BOOLEAN]
<1>1. raw \in raws
  BY PolicyAssumption
<1>2. raw.effect \in Effects /\ raw.kinds \subseteq Kinds /\ raw.floor \subseteq Kinds
      /\ (raw.kinds = {} \/ raw.floor = {})
  BY DEF Refuses
<1>3. raw.floor \in Optional(Kinds)
  BY <1>1, <1>2 DEF Optional
<1>4. \A pats \in SUBSET Patterns : orStar(pats) \in SUBSET Patterns /\ orStar(pats) # {}
  <2>1. Star \in Patterns
    BY PolicyAssumption
  <2> QED
    BY <2>1
<1>5. Parsed(raw) = [raw EXCEPT !.tools = orStar(raw.tools), !.actions = orStar(raw.actions),
                                !.agents = orStar(raw.agents)]
  BY DEF Parsed
<1>6. orStar(raw.tools) \in SUBSET Patterns /\ orStar(raw.tools) # {}
      /\ orStar(raw.actions) \in SUBSET Patterns /\ orStar(raw.agents) \in SUBSET Patterns
  BY <1>1, <1>4
<1>7. /\ Parsed(raw).tools = orStar(raw.tools)
      /\ Parsed(raw).kinds = raw.kinds /\ Parsed(raw).floor = raw.floor
  <2> HIDE DEF orStar
  <2> QED
    BY <1>1, <1>5
<1>8. Parsed(raw) \in Rules
  <2> HIDE DEF orStar
  <2> QED
    BY <1>1, <1>2, <1>3, <1>5, <1>6 DEF Rules
<1> QED
  BY <1>2, <1>6, <1>7, <1>8 DEF Sound

LEMMA BundleInvInit ==
  Init => BundleInv
BY DEF Init, BundleInv, NoBundle, Effects

LEMMA BundleInvStep ==
  BundleInv /\ [Next]_vars => BundleInv'
<1> SUFFICES ASSUME BundleInv, [Next]_vars PROVE BundleInv'
  OBVIOUS
<1>1. ASSUME NEW spec \in Specs, Register(spec) PROVE BundleInv'
  BY <1>1 DEF BundleInv, Register
<1>2. ASSUME NEW raws \in PolicyFiles, NEW effect \in {"allow", "deny"}, Load(raws, effect)
      PROVE  BundleInv'
  <2>1. PICK n \in 1 .. MaxRules : raws \in [1 .. n -> RawRules]
    BY DEF PolicyFiles
  <2>2. DOMAIN raws = 1 .. n /\ n \in Nat
    BY <2>1, PolicyAssumption
  <2>3. policy' = [i \in DOMAIN raws |-> Parsed(raws[i])] /\ \A i \in DOMAIN raws : ~Refuses(raws[i])
    BY <1>2 DEF Load
  <2>4. DOMAIN policy' \subseteq Nat
    BY <2>2, <2>3
  <2>5. \A i \in DOMAIN policy' : Sound(policy'[i])
    BY <2>1, <2>3, ParsedIsSound
  <2>6. default' \in Effects
    BY <1>2 DEF Load, Effects
  <2>7. UNCHANGED <<bundle, served>> /\ ~bundle.built
    BY <1>2 DEF Load
  <2> QED
    BY <2>4, <2>5, <2>6, <2>7 DEF BundleInv
<1>3. CASE Compile
  <2>1. bundle' = [rules |-> policy, default |-> default, exact |-> exact, globs |-> globs,
                   built |-> TRUE]
        /\ UNCHANGED <<exact, globs, policy, default, served>>
        /\ served = "down" /\ \A i \in DOMAIN policy : Portable(policy[i])
    BY <1>3 DEF Compile, BundleInv
  <2> QED
    BY <2>1 DEF BundleInv
<1>4. ASSUME NEW identity \in {"unverified", "trusted-network"}, Serve(identity) PROVE BundleInv'
  <2>1. /\ UNCHANGED <<exact, globs, policy, default, bundle>> /\ bundle.built
        /\ served' = identity /\ (identity = "unverified" => DependsOnAgent(bundle) = {})
    BY <1>4 DEF Serve
  <2>2. DependsOnAgent(bundle)' = DependsOnAgent(bundle)
    BY <2>1 DEF DependsOnAgent
  <2> QED
    BY <2>1, <2>2 DEF BundleInv
<1>5. CASE UNCHANGED vars
  <2>1. DependsOnAgent(bundle)' = DependsOnAgent(bundle)
    BY <1>5 DEF DependsOnAgent, vars
  <2> QED
    BY <1>5, <2>1 DEF BundleInv, vars
<1> QED
  BY <1>1, <1>2, <1>3, <1>4, <1>5 DEF Next

-----------------------------------------------------------------------------
(* The registry.                                                           *)

\* The registry against its history: the exact names are the latest specs without
\* a wildcard, and the patterns are the latest specs with one, each pattern once,
\* in the order of those registrations.
OneEach(gs) == \A i, j \in DOMAIN gs : gs[i].tool = gs[j].tool => i = j

RegistryInv ==
  /\ registered \in Seq(Specs) /\ globs \in Seq(Specs)
  /\ exact = {registered[k] : k \in {l \in Latest : registered[l].tool \notin Globs}}
  /\ \A i \in DOMAIN globs : globs[i].tool \in Globs /\ \E k \in Latest : globs[i] = registered[k]
  /\ \A k \in Latest : registered[k].tool \in Globs => \E i \in DOMAIN globs : globs[i] = registered[k]
  /\ OneEach(globs)
  /\ \A i, j \in DOMAIN globs, k, l \in Latest :
       i < j /\ globs[i].tool = registered[k].tool /\ globs[j].tool = registered[l].tool => k < l

\* How a list relates to the one it replaces: an increasing choice of its places,
\* of those with another pattern, and the new spec.
Moved(gs, spec, new, src) ==
  /\ new \in Seq(Specs) /\ Len(new) > 0 /\ new[Len(new)] = spec
  /\ src \in [1 .. Len(new) - 1 -> DOMAIN gs]
  /\ \A i \in 1 .. Len(new) - 1 : new[i] = gs[src[i]] /\ gs[src[i]].tool # spec.tool
  /\ \A i, j \in 1 .. Len(new) - 1 : i < j => src[i] < src[j]
  /\ \A k \in DOMAIN gs : gs[k].tool # spec.tool => \E i \in 1 .. Len(new) - 1 : src[i] = k

LEMMA ReplacedMoves ==
  ASSUME NEW gs \in Seq(Specs), NEW spec \in Specs, OneEach(gs)
  PROVE  \E src : Moved(gs, spec, Replaced(gs, spec), src)
<1> DEFINE new == Replaced(gs, spec)
<1>0. Len(gs) \in Nat /\ DOMAIN gs = 1 .. Len(gs)
  OBVIOUS
<1>1. CASE \A i \in DOMAIN gs : gs[i].tool # spec.tool
  <2> DEFINE src == [i \in 1 .. Len(gs) |-> i]
  <2>1. new = Append(gs, spec)
    BY <1>1 DEF Replaced
  <2>2. new \in Seq(Specs) /\ Len(new) = Len(gs) + 1 /\ new[Len(gs) + 1] = spec
        /\ \A i \in 1 .. Len(gs) : new[i] = gs[i]
    BY <2>1
  <2>3. Len(new) - 1 = Len(gs) /\ Len(new) > 0
    BY <1>0, <2>2
  <2> HIDE DEF new
  <2>4. Moved(gs, spec, new, src)
    BY <1>0, <1>1, <2>2, <2>3 DEF Moved
  <2> QED
    BY <2>4 DEF new
<1>2. CASE ~\A i \in DOMAIN gs : gs[i].tool # spec.tool
  <2> DEFINE at == CHOOSE i \in DOMAIN gs : gs[i].tool = spec.tool
             src == [i \in 1 .. Len(gs) - 1 |-> IF i < at THEN i ELSE i + 1]
  <2>1. at \in DOMAIN gs /\ gs[at].tool = spec.tool
    BY <1>2
  <2>2. new = [i \in DOMAIN gs |-> IF i < at THEN gs[i] ELSE IF i < Len(gs) THEN gs[i + 1] ELSE spec]
    BY <1>2 DEF Replaced
  <2> HIDE DEF at, new
  <2>3. \A k \in DOMAIN gs : k # at => gs[k].tool # spec.tool
    BY <2>1 DEF OneEach
  <2>4. at \in 1 .. Len(gs)
    BY <1>0, <2>1
  <2>5. \A i \in 1 .. Len(gs) : gs[i] \in Specs
    OBVIOUS
  <2>6. \A i \in DOMAIN gs : new[i] \in Specs
    BY <1>0, <2>2, <2>5
  <2>7. new \in Seq(Specs) /\ Len(new) = Len(gs)
    BY <1>0, <2>2, <2>6
  <2>8. new[Len(gs)] = spec
    BY <1>0, <2>2, <2>4
  <2>9. src \in [1 .. Len(gs) - 1 -> DOMAIN gs]
    BY <1>0
  <2>10. ASSUME NEW i \in 1 .. Len(gs) - 1
         PROVE  new[i] = gs[src[i]] /\ src[i] \in DOMAIN gs /\ src[i] # at
    BY <1>0, <2>2, <2>4
  <2>11. \A i, j \in 1 .. Len(gs) - 1 : i < j => src[i] < src[j]
    BY <1>0, <2>4
  <2>12. ASSUME NEW k \in DOMAIN gs, gs[k].tool # spec.tool
         PROVE  \E i \in 1 .. Len(gs) - 1 : src[i] = k
    <3>1. k \in 1 .. Len(gs) /\ k # at
      BY <1>0, <2>1, <2>12
    <3>2. CASE k < at
      <4>1. k \in 1 .. Len(gs) - 1 /\ src[k] = k
        BY <1>0, <2>4, <3>1, <3>2
      <4> QED
        BY <4>1
    <3>3. CASE ~(k < at)
      <4>1. k - 1 \in 1 .. Len(gs) - 1 /\ ~(k - 1 < at) /\ (k - 1) + 1 = k
        BY <1>0, <2>4, <3>1, <3>3
      <4>2. src[k - 1] = k
        BY <4>1
      <4> QED
        BY <4>1, <4>2
    <3> QED
      BY <3>2, <3>3
  <2>13. Len(new) > 0 /\ Len(new) - 1 = Len(gs) - 1
    BY <1>0, <2>4, <2>7
  <2> HIDE DEF src
  <2>14. \A i \in 1 .. Len(gs) - 1 : new[i] = gs[src[i]] /\ gs[src[i]].tool # spec.tool
    BY <2>3, <2>10
  <2>15. Moved(gs, spec, new, src)
    BY <2>7, <2>8, <2>9, <2>11, <2>12, <2>13, <2>14 DEF Moved
  <2> QED
    BY <2>15 DEF new
<1> QED
  BY <1>1, <1>2

\* The latest registrations, after one more.
LEMMA LatestAfter ==
  ASSUME registered \in Seq(Specs), NEW spec \in Specs, registered' = Append(registered, spec)
  PROVE  /\ Latest' = {k \in Latest : registered[k].tool # spec.tool} \cup {Len(registered) + 1}
         /\ Latest \subseteq 1 .. Len(registered) /\ Len(registered) \in Nat
         /\ \A k \in Latest : registered'[k] = registered[k]
         /\ registered'[Len(registered) + 1] = spec
<1> DEFINE n == Len(registered)
<1>1. /\ n \in Nat /\ DOMAIN registered = 1 .. n /\ DOMAIN registered' = 1 .. n + 1
      /\ registered'[n + 1] = spec /\ \A k \in 1 .. n : registered'[k] = registered[k]
  OBVIOUS
<1>2. Latest \subseteq 1 .. n
  BY <1>1 DEF Latest
<1> HIDE DEF n
<1>3. Latest' = {k \in 1 .. n + 1 :
                   \A j \in 1 .. n + 1 : registered'[j].tool = registered'[k].tool => j <= k}
  BY <1>1 DEF Latest
<1>4. ASSUME NEW k \in Latest' PROVE k = n + 1 \/ (k \in Latest /\ registered[k].tool # spec.tool)
  <2>1. CASE k \in 1 .. n
    <3>1. registered[k].tool # spec.tool
      <4>1. n + 1 \in 1 .. n + 1 /\ ~(n + 1 <= k)
        BY <1>1, <2>1
      <4> QED
        BY <1>1, <1>3, <2>1, <4>1
    <3>2. \A j \in 1 .. n : j \in 1 .. n + 1
      BY <1>1
    <3>3. k \in Latest
      BY <1>1, <1>3, <2>1, <3>2 DEF Latest
    <3> QED
      BY <3>1, <3>3
  <2> QED
    BY <1>1, <1>3, <2>1
<1>5. ASSUME NEW k \in Latest, registered[k].tool # spec.tool PROVE k \in Latest'
  <2>1. k \in 1 .. n /\ k \in 1 .. n + 1
    BY <1>1, <1>2
  <2>2. ASSUME NEW j \in 1 .. n + 1, registered'[j].tool = registered'[k].tool PROVE j <= k
    <3>1. j # n + 1
      BY <1>1, <1>5, <2>1, <2>2
    <3>2. j \in 1 .. n
      BY <1>1, <3>1
    <3> QED
      BY <1>1, <2>1, <2>2, <3>2 DEF Latest
  <2> QED
    BY <1>3, <2>1, <2>2
<1>6. n + 1 \in Latest'
  <2>1. n + 1 \in 1 .. n + 1 /\ \A j \in 1 .. n + 1 : j <= n + 1
    BY <1>1
  <2> QED
    BY <1>3, <2>1
<1>7. Latest' = {k \in Latest : registered[k].tool # spec.tool} \cup {n + 1}
  BY <1>4, <1>5, <1>6
<1> QED
  BY <1>1, <1>2, <1>7 DEF n

LEMMA RegistryInvInit ==
  Init => RegistryInv
<1> SUFFICES ASSUME Init PROVE RegistryInv
  OBVIOUS
<1>1. registered = <<>> /\ globs = <<>> /\ exact = {}
  BY DEF Init
<1>2. DOMAIN registered = {} /\ DOMAIN globs = {}
  BY <1>1
<1>3. Latest = {}
  BY <1>2 DEF Latest
<1> QED
  BY <1>1, <1>2, <1>3 DEF RegistryInv, OneEach

\* Registering an exact name: the patterns are as they were.
LEMMA ExactKeeps ==
  ASSUME RegistryInv, NEW spec \in Specs, Register(spec), spec.tool \notin Globs
  PROVE  RegistryInv'
<1> DEFINE n == Len(registered)
<1>1. /\ registered' = Append(registered, spec) /\ globs' = globs
      /\ exact' = {s \in exact : s.tool # spec.tool} \cup {spec}
  BY DEF Register
<1>2. registered \in Seq(Specs) /\ registered' \in Seq(Specs)
  BY <1>1 DEF RegistryInv
<1>3. /\ Latest' = {k \in Latest : registered[k].tool # spec.tool} \cup {n + 1}
      /\ Latest \subseteq 1 .. n /\ n \in Nat
      /\ \A k \in Latest : registered'[k] = registered[k]
      /\ registered'[n + 1] = spec
  BY <1>1, <1>2, LatestAfter
<1>4. n + 1 \notin Latest
  BY <1>3
<1> HIDE DEF n
<1>5. exact' = {registered'[k] : k \in {l \in Latest' : registered'[l].tool \notin Globs}}
  <2>1. exact = {registered[k] : k \in {l \in Latest : registered[l].tool \notin Globs}}
    BY DEF RegistryInv
  <2>2. ASSUME NEW s \in exact'
        PROVE  \E k \in Latest' : registered'[k].tool \notin Globs /\ s = registered'[k]
    <3>1. CASE s = spec
      BY <1>3, <3>1
    <3>2. CASE s # spec
      <4>1. s \in exact /\ s.tool # spec.tool
        BY <1>1, <3>2
      <4>2. PICK k \in Latest : registered[k].tool \notin Globs /\ s = registered[k]
        BY <2>1, <4>1
      <4> QED
        BY <1>3, <4>1, <4>2
    <3> QED
      BY <3>1, <3>2
  <2>3. ASSUME NEW k \in Latest', registered'[k].tool \notin Globs PROVE registered'[k] \in exact'
    <3>1. CASE k = n + 1
      BY <1>1, <1>3, <3>1
    <3>2. CASE k # n + 1
      <4>1. k \in Latest /\ registered[k].tool # spec.tool
        BY <1>3, <3>2
      <4>2. registered'[k] = registered[k] /\ registered[k] \in exact
        BY <1>3, <2>1, <2>3, <4>1
      <4> QED
        BY <1>1, <4>1, <4>2
    <3> QED
      BY <3>1, <3>2
  <2> QED
    BY <2>2, <2>3
<1>6. ASSUME NEW i \in DOMAIN globs
      PROVE  globs[i].tool \in Globs /\ \E k \in Latest' : globs[i] = registered'[k]
  <2>1. PICK k \in Latest : globs[i] = registered[k] /\ globs[i].tool \in Globs
    BY DEF RegistryInv
  <2> QED
    BY <1>3, <2>1
<1>7. ASSUME NEW k \in Latest', registered'[k].tool \in Globs
      PROVE  \E i \in DOMAIN globs : globs[i] = registered'[k]
  <2>1. k \in Latest /\ registered'[k] = registered[k]
    BY <1>3, <1>7
  <2> QED
    BY <1>7, <2>1 DEF RegistryInv
<1>8. ASSUME NEW i \in DOMAIN globs, NEW j \in DOMAIN globs, NEW k \in Latest', NEW l \in Latest',
             i < j, globs[i].tool = registered'[k].tool, globs[j].tool = registered'[l].tool
      PROVE  k < l
  <2>1. globs[i].tool \in Globs /\ globs[j].tool \in Globs
    BY DEF RegistryInv
  <2>2. k \in Latest /\ l \in Latest /\ registered'[k] = registered[k] /\ registered'[l] = registered[l]
    BY <1>3, <1>8, <2>1
  <2> QED
    BY <1>8, <2>2 DEF RegistryInv
<1>9. globs \in Seq(Specs) /\ OneEach(globs)
  BY DEF RegistryInv
<1>10. OneEach(globs)'
  BY <1>1, <1>9 DEF OneEach
<1>11. globs' \in Seq(Specs) /\ DOMAIN globs' = DOMAIN globs /\ \A i \in DOMAIN globs : globs'[i] = globs[i]
  BY <1>1, <1>9
<1>12. \A i \in DOMAIN globs' : globs'[i].tool \in Globs /\ \E k \in Latest' : globs'[i] = registered'[k]
  BY <1>6, <1>11
<1>13. \A k \in Latest' : registered'[k].tool \in Globs => \E i \in DOMAIN globs' : globs'[i] = registered'[k]
  BY <1>7, <1>11
<1>14. \A i, j \in DOMAIN globs', k, l \in Latest' :
         i < j /\ globs'[i].tool = registered'[k].tool /\ globs'[j].tool = registered'[l].tool => k < l
  BY <1>8, <1>11
<1> QED
  BY <1>2, <1>5, <1>10, <1>11, <1>12, <1>13, <1>14 DEF RegistryInv

\* Registering a pattern: the exact names are as they were.
LEMMA GlobKeeps ==
  ASSUME RegistryInv, NEW spec \in Specs, Register(spec), spec.tool \in Globs
  PROVE  RegistryInv'
<1> DEFINE n == Len(registered)
           m == Len(globs')
<1>1. /\ registered' = Append(registered, spec) /\ globs' = Replaced(globs, spec) /\ exact' = exact
  BY DEF Register
<1>2. registered \in Seq(Specs) /\ registered' \in Seq(Specs) /\ globs \in Seq(Specs) /\ OneEach(globs)
  BY <1>1 DEF RegistryInv
<1>3. /\ Latest' = {k \in Latest : registered[k].tool # spec.tool} \cup {n + 1}
      /\ Latest \subseteq 1 .. n /\ n \in Nat
      /\ \A k \in Latest : registered'[k] = registered[k]
      /\ registered'[n + 1] = spec
  BY <1>1, <1>2, LatestAfter
<1>4. PICK src : Moved(globs, spec, globs', src)
  BY <1>1, <1>2, ReplacedMoves
<1>5. /\ globs' \in Seq(Specs) /\ m > 0 /\ globs'[m] = spec
      /\ src \in [1 .. m - 1 -> DOMAIN globs]
      /\ \A i \in 1 .. m - 1 : globs'[i] = globs[src[i]] /\ globs[src[i]].tool # spec.tool
      /\ \A i, j \in 1 .. m - 1 : i < j => src[i] < src[j]
      /\ \A k \in DOMAIN globs : globs[k].tool # spec.tool => \E i \in 1 .. m - 1 : src[i] = k
  BY <1>4 DEF Moved
<1>6. m \in Nat /\ DOMAIN globs' = 1 .. m
  BY <1>5
<1> HIDE DEF n, m
<1>7. m \in DOMAIN globs' /\ \A i \in DOMAIN globs' : i # m => i \in 1 .. m - 1
  BY <1>5, <1>6
<1>8. 1 .. m - 1 \subseteq DOMAIN globs' /\ \A i \in 1 .. m - 1 : src[i] \in DOMAIN globs
  BY <1>5, <1>6
<1>9. exact' = {registered'[k] : k \in {l \in Latest' : registered'[l].tool \notin Globs}}
  <2>1. exact = {registered[k] : k \in {l \in Latest : registered[l].tool \notin Globs}}
    BY DEF RegistryInv
  <2> DEFINE K == {l \in Latest : registered[l].tool \notin Globs}
  <2>2. {l \in Latest' : registered'[l].tool \notin Globs} = K /\ \A k \in K : registered'[k] = registered[k]
    BY <1>3
  <2> HIDE DEF K
  <2>3. {registered[k] : k \in K} = {registered'[k] : k \in K}
    BY <2>2
  <2> QED
    BY <1>1, <2>1, <2>2, <2>3 DEF K
<1>10. ASSUME NEW i \in 1 .. m - 1
       PROVE  /\ globs'[i].tool \in Globs /\ globs'[i].tool # spec.tool
              /\ \E k \in Latest' : globs'[i] = registered'[k]
  <2>1. PICK k \in Latest : globs[src[i]] = registered[k] /\ globs[src[i]].tool \in Globs
    BY <1>8 DEF RegistryInv
  <2>2. globs'[i] = globs[src[i]] /\ globs[src[i]].tool # spec.tool
    BY <1>5
  <2>3. k \in Latest' /\ registered'[k] = registered[k]
    BY <1>3, <2>1, <2>2
  <2> QED
    BY <2>1, <2>2, <2>3
<1>11. ASSUME NEW i \in DOMAIN globs'
       PROVE  globs'[i].tool \in Globs /\ \E k \in Latest' : globs'[i] = registered'[k]
  <2>1. CASE i = m
    BY <1>3, <1>5, <2>1
  <2> QED
    BY <1>7, <1>10, <2>1
<1>12. ASSUME NEW k \in Latest', registered'[k].tool \in Globs
       PROVE  \E i \in DOMAIN globs' : globs'[i] = registered'[k]
  <2>1. CASE k = n + 1
    BY <1>3, <1>5, <1>7, <2>1
  <2>2. CASE k # n + 1
    <3>1. k \in Latest /\ registered[k].tool # spec.tool /\ registered'[k] = registered[k]
      BY <1>3, <2>2
    <3>2. PICK j \in DOMAIN globs : globs[j] = registered[k]
      BY <1>12, <3>1 DEF RegistryInv
    <3>3. PICK i \in 1 .. m - 1 : src[i] = j
      BY <1>5, <3>1, <3>2
    <3> QED
      BY <1>5, <1>8, <3>1, <3>2, <3>3
  <2> QED
    BY <2>1, <2>2
<1>13. ASSUME NEW i \in DOMAIN globs', NEW j \in DOMAIN globs', i < j
       PROVE  globs'[i].tool # globs'[j].tool
  <2>1. i \in 1 .. m - 1
    BY <1>6, <1>13
  <2>2. CASE j = m
    BY <1>5, <1>10, <2>1, <2>2
  <2>3. CASE j # m
    <3>1. j \in 1 .. m - 1
      BY <1>7, <2>3
    <3>2. src[i] < src[j] /\ src[i] \in DOMAIN globs /\ src[j] \in DOMAIN globs
      BY <1>5, <1>8, <1>13, <2>1, <3>1
    <3>3. src[i] \in Nat /\ src[j] \in Nat
      BY <1>2, <3>2
    <3>4. src[i] # src[j]
      BY <3>2, <3>3
    <3> QED
      BY <1>2, <1>5, <2>1, <3>1, <3>2, <3>4 DEF OneEach
  <2> QED
    BY <2>2, <2>3
<1>14. OneEach(globs)'
  <2>1. ASSUME NEW i \in DOMAIN globs', NEW j \in DOMAIN globs', globs'[i].tool = globs'[j].tool
        PROVE  i = j
    <3>1. i \in Nat /\ j \in Nat
      BY <1>6
    <3>2. ~(i < j) /\ ~(j < i)
      BY <1>13, <2>1
    <3> QED
      BY <3>1, <3>2
  <2> QED
    BY <2>1 DEF OneEach
<1>15. ASSUME NEW i \in DOMAIN globs', NEW j \in DOMAIN globs', NEW k \in Latest', NEW l \in Latest',
              i < j, globs'[i].tool = registered'[k].tool, globs'[j].tool = registered'[l].tool
       PROVE  k < l
  <2>1. i \in 1 .. m - 1
    BY <1>6, <1>15
  <2>2. k \in Latest /\ registered[k].tool # spec.tool /\ registered'[k] = registered[k] /\ k \in 1 .. n
    BY <1>3, <1>10, <1>15, <2>1
  <2>3. CASE j = m
    <3>1. l = n + 1
      BY <1>3, <1>5, <1>15, <2>3
    <3> QED
      BY <1>3, <2>2, <3>1
  <2>4. CASE j # m
    <3>1. j \in 1 .. m - 1
      BY <1>7, <2>4
    <3>2. l \in Latest /\ registered'[l] = registered[l]
      BY <1>3, <1>10, <1>15, <3>1
    <3>3. src[i] < src[j] /\ src[i] \in DOMAIN globs /\ src[j] \in DOMAIN globs
      BY <1>5, <1>8, <1>15, <2>1, <3>1
    <3>4. globs[src[i]].tool = registered[k].tool /\ globs[src[j]].tool = registered[l].tool
      BY <1>5, <1>15, <2>1, <2>2, <3>1, <3>2
    <3> QED
      BY <2>2, <3>2, <3>3, <3>4 DEF RegistryInv
  <2> QED
    BY <2>3, <2>4
<1> QED
  BY <1>2, <1>5, <1>9, <1>11, <1>12, <1>14, <1>15 DEF RegistryInv

LEMMA RegistryInvStep ==
  RegistryInv /\ [Next]_vars => RegistryInv'
<1> SUFFICES ASSUME RegistryInv, [Next]_vars PROVE RegistryInv'
  OBVIOUS
<1>1. ASSUME NEW spec \in Specs, Register(spec) PROVE RegistryInv'
  BY <1>1, ExactKeeps, GlobKeeps
<1>2. ASSUME UNCHANGED <<registered, exact, globs>> PROVE RegistryInv'
  <2>1. Latest' = Latest
    BY <1>2 DEF Latest
  <2>2. OneEach(globs)' = OneEach(globs)
    BY <1>2 DEF OneEach
  <2> QED
    BY <1>2, <2>1, <2>2 DEF RegistryInv
<1>3. ASSUME NEW raws \in PolicyFiles, NEW effect \in {"allow", "deny"}, Load(raws, effect)
      PROVE  UNCHANGED <<registered, exact, globs>>
  BY <1>3 DEF Load
<1>4. ASSUME Compile PROVE UNCHANGED <<registered, exact, globs>>
  BY <1>4 DEF Compile
<1>5. ASSUME NEW identity \in {"unverified", "trusted-network"}, Serve(identity)
      PROVE  UNCHANGED <<registered, exact, globs>>
  BY <1>5 DEF Serve
<1>6. ASSUME UNCHANGED vars PROVE UNCHANGED <<registered, exact, globs>>
  BY <1>6 DEF vars
<1> QED
  BY <1>1, <1>2, <1>3, <1>4, <1>5, <1>6 DEF Next

-----------------------------------------------------------------------------
(* What the invariants show.                                               *)

\* Two latest registrations of one name are the same.
LEMMA LatestIsOne ==
  ASSUME RegistryInv, NEW k \in Latest, NEW l \in Latest, registered[k].tool = registered[l].tool
  PROVE  k = l
<1>1. k \in Nat /\ l \in Nat
  BY DEF Latest, RegistryInv
<1>2. k <= l /\ l <= k
  BY DEF Latest
<1> QED
  BY <1>1, <1>2

LEMMA ExactIsLatest ==
  ASSUME RegistryInv
  PROVE  /\ exact \subseteq Specs /\ \A s \in exact : s.tool \notin Globs
         /\ \A s, t \in exact : s.tool = t.tool => s = t
<1>1. exact = {registered[k] : k \in {l \in Latest : registered[l].tool \notin Globs}}
      /\ registered \in Seq(Specs)
  BY DEF RegistryInv
<1>2. Latest \subseteq DOMAIN registered
  BY DEF Latest
<1>3. \A k \in Latest : registered[k] \in Specs
  BY <1>1, <1>2
<1> QED
  BY <1>1, <1>3, LatestIsOne

LEMMA RegistryAnswers ==
  RegistryInv => LatestSpecDecides
<1> SUFFICES ASSUME RegistryInv, NEW tool \in Names
    PROVE  LET named == {i \in Latest : registered[i].tool = tool /\ tool \notin Globs}
               broad == {i \in Latest : registered[i].tool \in Globs
                                        /\ tool \in Matches[registered[i].tool]}
           IN Classify(exact, globs, tool) =
                IF named # {} THEN registered[Lowest(named)].kind
                ELSE IF broad # {} THEN registered[Lowest(broad)].kind ELSE "unknown"
  BY DEF LatestSpecDecides
<1> DEFINE named == {i \in Latest : registered[i].tool = tool /\ tool \notin Globs}
           broad == {i \in Latest : registered[i].tool \in Globs
                                    /\ tool \in Matches[registered[i].tool]}
           hits == {i \in DOMAIN globs : tool \in Matches[globs[i].tool]}
<1>1. named \in SUBSET Nat /\ broad \in SUBSET Nat /\ hits \in SUBSET Nat
  BY DEF Latest, RegistryInv
<1>2. exact = {registered[k] : k \in {l \in Latest : registered[l].tool \notin Globs}}
  BY DEF RegistryInv
<1>3. CASE named # {}
  <2>1. Lowest(named) \in named
    <3> HIDE DEF named
    <3> QED
      BY <1>1, <1>3, LowestIs
  <2>2. registered[Lowest(named)] \in exact /\ registered[Lowest(named)].tool = tool
    BY <1>2, <2>1
  <2> HIDE DEF named
  <2>3. (CHOOSE s \in exact : s.tool = tool) = registered[Lowest(named)]
    BY <2>2, ExactIsLatest
  <2>4. Classify(exact, globs, tool) = registered[Lowest(named)].kind
    BY <2>2, <2>3 DEF Classify, LookUp
  <2> QED
    BY <1>3, <2>4 DEF named
<1>4. CASE named = {}
  <2>1. ~\E s \in exact : s.tool = tool
    BY <1>2, <1>4
  <2>2. Classify(exact, globs, tool) = IF hits # {} THEN globs[Lowest(hits)].kind ELSE "unknown"
    BY <2>1 DEF Classify, LookUp
  <2>3. CASE broad = {}
    <3>1. hits = {}
      BY <2>3 DEF RegistryInv
    <3> QED
      BY <1>4, <2>2, <2>3, <3>1
  <2>4. CASE broad # {}
    <3>1. Lowest(broad) \in broad /\ \A k \in broad : Lowest(broad) <= k
      <4> HIDE DEF broad
      <4> QED
        BY <1>1, <2>4, LowestIs
    <3> DEFINE B == Lowest(broad)
    <3>2. PICK i \in DOMAIN globs : globs[i] = registered[B]
      BY <3>1 DEF RegistryInv
    <3>3. i \in hits
      BY <3>1, <3>2
    <3>4. Lowest(hits) \in hits /\ Lowest(hits) <= i
      <4> HIDE DEF hits
      <4> QED
        BY <1>1, <3>3, LowestIs
    <3> DEFINE L == Lowest(hits)
    <3>5. PICK k \in Latest : globs[L] = registered[k] /\ globs[L].tool \in Globs
      BY <3>4 DEF RegistryInv
    <3>6. k \in broad
      BY <3>4, <3>5
    <3>7. B <= k /\ B \in Latest /\ B \in Nat /\ k \in Nat
      BY <1>1, <3>1, <3>6
    <3>8. L \in DOMAIN globs /\ L \in Nat /\ i \in Nat /\ L <= i
      BY <1>1, <3>3, <3>4
    <3> HIDE DEF B, L, broad, hits
    <3>9. ~(L < i)
      <4>1. L < i => k < B
        BY <3>2, <3>5, <3>7, <3>8 DEF RegistryInv
      <4> QED
        BY <3>7, <4>1
    <3>10. L = i
      BY <3>8, <3>9
    <3>11. Classify(exact, globs, tool) = registered[B].kind
      BY <2>2, <3>2, <3>3, <3>10 DEF L
    <3> QED
      BY <1>4, <2>4, <3>11 DEF B, broad
  <2> QED
    BY <2>3, <2>4
<1> QED
  BY <1>3, <1>4

\* What a bundle that was built satisfies.
LEMMA BuiltIsOK ==
  ASSUME BundleInv, RegistryInv, bundle.built
  PROVE  /\ BundleOK(bundle)
         /\ bundle.rules = policy /\ bundle.default = default
         /\ bundle.exact = exact /\ bundle.globs = globs
BY ExactIsLatest DEF BundleInv, RegistryInv, BundleOK

LEMMA TypesHold ==
  BundleInv /\ RegistryInv => TypeOK
<1> SUFFICES ASSUME BundleInv, RegistryInv PROVE TypeOK
  OBVIOUS
<1>1. registered \in Seq(Specs) /\ globs \in Seq(Specs)
      /\ \A i, j \in DOMAIN globs : globs[i].tool = globs[j].tool => i = j
  BY DEF RegistryInv, OneEach
<1>2. exact \subseteq Specs /\ \A s, t \in exact : s.tool = t.tool => s = t
  BY ExactIsLatest
<1>3. /\ \A i \in DOMAIN policy : policy[i] \in Rules /\ policy[i].tools # {}
      /\ default \in Effects /\ served \in {"down", "unverified", "trusted-network"}
  BY DEF BundleInv, Sound
<1>4. bundle.built => bundle.rules = policy
  BY DEF BundleInv
<1> QED
  BY <1>1, <1>2, <1>3, <1>4 DEF TypeOK

LEMMA EvaluatorsAgree ==
  BundleInv /\ RegistryInv => SameVerdict
<1> SUFFICES ASSUME BundleInv, RegistryInv, bundle.built, NEW c \in Calls
    PROVE  /\ c.posture \in Kinds \cup {""} => BundleVerdict(bundle, c) = GateVerdict(c)
           /\ (\A p \in PatternsOf(bundle) : Orderly(p)) =>
                GoVerdict(bundle, c) = BundleVerdict(bundle, c)
           /\ c.posture # "" =>
                GoHits(bundle, c, c.posture) \subseteq BundleHits(bundle, c, c.posture)
  BY DEF SameVerdict
<1> DEFINE kind == KindIn(bundle, c)
<1>1. /\ BundleOK(bundle) /\ bundle.rules = policy /\ bundle.default = default
      /\ bundle.exact = exact /\ bundle.globs = globs
  BY BuiltIsOK
<1>2. \A i \in DOMAIN policy : policy[i] \in Rules /\ Portable(policy[i])
  BY <1>1 DEF BundleOK, Sound
<1>3. ASSUME NEW posture PROVE GoHits(bundle, c, posture) \subseteq BundleHits(bundle, c, posture)
  BY <1>1, <1>2, MatchersAgree DEF GoHits, BundleHits
<1>4. ASSUME \A p \in PatternsOf(bundle) : Orderly(p)
      PROVE  GoVerdict(bundle, c) = BundleVerdict(bundle, c)
  <2>1. \A i \in DOMAIN policy : policy[i] \in RulesOf(bundle)
    BY <1>1 DEF RulesOf
  <2>2. \A i \in DOMAIN policy :
          \A p \in policy[i].tools \cup policy[i].actions \cup policy[i].agents : Orderly(p)
    BY <1>4, <2>1 DEF PatternsOf
  <2>3. \A i \in DOMAIN policy : BundleMatches(policy[i], c, kind) => GoMatches(policy[i], c, kind)
    <3> HIDE DEF kind
    <3> QED
      BY <1>2, <2>2, MatchersAgree
  <2>4. GoHits(bundle, c, kind) = BundleHits(bundle, c, kind)
    BY <1>1, <1>3, <2>3 DEF GoHits, BundleHits
  <2>5. ASSUME NEW i \in DOMAIN bundle.globs PROVE Orderly(bundle.globs[i].tool)
    <3>1. bundle.globs[i].tool \in {bundle.globs[j].tool : j \in DOMAIN bundle.globs}
      OBVIOUS
    <3>2. bundle.globs[i].tool \in PatternsOf(bundle)
      BY <3>1 DEF PatternsOf
    <3> QED
      BY <1>4, <3>2
  <2>6. GoClassify(bundle.exact, bundle.globs, c.tool) = Classify(bundle.exact, bundle.globs, c.tool)
    BY <1>1, <2>5, ClassifiersAgree DEF BundleOK
  <2> QED
    BY <2>4, <2>6 DEF GoVerdict, BundleVerdict, KindIn
<1>5. ASSUME c.posture \in Kinds \cup {""} PROVE BundleVerdict(bundle, c) = GateVerdict(c)
  <2>1. kind \in Kinds
    BY <1>1, <1>5, KindIsKnown DEF Known
  <2>2. kind = IF c.posture = "" THEN Classify(exact, globs, c.tool) ELSE c.posture
    BY <1>1 DEF KindIn
  <2> HIDE DEF kind
  <2>3. {i \in DOMAIN policy : BundleMatches(policy[i], c, kind)}
          = {i \in DOMAIN policy : GateMatches(policy[i], c, kind)}
    BY <1>2, <2>1, GateAgrees
  <2>4. BundleVerdict(bundle, c) =
          Verdict(policy, {i \in DOMAIN policy : BundleMatches(policy[i], c, kind)}, default, kind)
    BY <1>1 DEF BundleVerdict, BundleHits, kind
  <2>5. GateVerdict(c) =
          Verdict(policy, {i \in DOMAIN policy : GateMatches(policy[i], c, kind)}, default, kind)
    BY <2>2 DEF GateVerdict
  <2> QED
    BY <2>3, <2>4, <2>5
<1> QED
  BY <1>3, <1>4, <1>5

LEMMA IdentityIsIgnored ==
  BundleInv /\ RegistryInv => IdentityNeverSelects
<1> SUFFICES ASSUME BundleInv, RegistryInv, served = "unverified", NEW c \in Calls, NEW d \in Calls
    PROVE  GoVerdict(bundle, c) = GoVerdict(bundle, [c EXCEPT !.agent = d.agent])
  BY DEF IdentityNeverSelects
<1> DEFINE e == [c EXCEPT !.agent = d.agent]
<1>1. bundle.built /\ DependsOnAgent(bundle) = {}
  BY DEF BundleInv
<1>2. BundleOK(bundle)
  BY <1>1, BuiltIsOK
<1>3. c.agent \in Names /\ d.agent \in Names
  BY PolicyAssumption
<1>4. /\ e.tool = c.tool /\ e.action = c.action /\ e.roles = c.roles /\ e.risk = c.risk
      /\ e.threat = c.threat /\ e.posture = c.posture /\ e.agent = d.agent
  BY PolicyAssumption
<1> HIDE DEF e
<1>5. ASSUME NEW i \in DOMAIN bundle.rules
      PROVE  GoMatchesAny(c.agent, bundle.rules[i].agents) <=> GoMatchesAny(e.agent, bundle.rules[i].agents)
  <2>1. \A p \in bundle.rules[i].agents : p = Star
    BY <1>1, <1>5 DEF DependsOnAgent
  <2>2. FnMatch[Star] = Names
    BY GoTableIs, PolicyAssumption
  <2> QED
    BY <1>3, <1>4, <2>1, <2>2 DEF GoMatchesAny
<1>6. \A i \in DOMAIN bundle.rules : \A kind :
        GoMatches(bundle.rules[i], c, kind) <=> GoMatches(bundle.rules[i], e, kind)
  BY <1>4, <1>5 DEF GoMatches, Admits
<1>7. \A kind : GoHits(bundle, c, kind) = GoHits(bundle, e, kind)
  BY <1>6 DEF GoHits
<1>8. GoVerdict(bundle, c) = GoVerdict(bundle, e)
  BY <1>4, <1>7 DEF GoVerdict
<1> QED
  BY <1>8 DEF e

LEMMA CompiledLoads ==
  BundleInv /\ RegistryInv => CompiledIsAcceptable
BY BuiltIsOK DEF CompiledIsAcceptable, Acceptable, BundleOK, Sound

LEMMA AccusedNeverDecide ==
  BundleInv /\ RegistryInv => UnreachableIsTrue
<1> SUFFICES ASSUME BundleInv, RegistryInv, RoleSets(bundle) = Combinations(bundle), bundle.built,
                    NEW c \in Known, Deciding(bundle, c) \in Unreachable(bundle)
    PROVE  FALSE
  BY DEF UnreachableIsTrue, NeverAccused
<1>1. BundleOK(bundle)
  BY BuiltIsOK
<1>2. Complete(bundle)
  BY DEF Unreachable
<1>3. PICK w \in Witnesses(bundle) : BundleVerdict(bundle, w) = BundleVerdict(bundle, c)
  BY <1>1, <1>2, ShadowExists
<1>4. Deciding(bundle, w) = Deciding(bundle, c)
  BY <1>3 DEF Deciding
<1> QED
  BY <1>2, <1>4 DEF Unreachable

LEMMA NoHoleIsMissed ==
  BundleInv /\ RegistryInv => HolesAreReported
<1> SUFFICES ASSUME BundleInv, RegistryInv, Covered(bundle), NEW c \in Calls, Hole(bundle, c)
    PROVE  /\ Deciding(bundle, c) \in Holes(bundle)
           /\ bundle.globs = <<>> /\ c.posture = "" =>
                Deciding(bundle, c) \in DirectHoles(bundle) \cup {"__default__"}
  BY DEF HolesAreReported
<1>1. BundleOK(bundle) /\ Complete(bundle) /\ RoleSets(bundle) = Combinations(bundle)
  BY BuiltIsOK DEF Covered
<1>2. c \in Known
  BY DEF Hole, IsOneWay, KindIn, Known, Kinds
<1>3. PICK w \in Witnesses(bundle) :
        /\ w.posture = KindIn(bundle, c) /\ KindIn(bundle, w) = KindIn(bundle, c)
        /\ BundleVerdict(bundle, w) = BundleVerdict(bundle, c)
        /\ bundle.globs = <<>> /\ c.posture = "" =>
             \/ w.posture = Classify(bundle.exact, bundle.globs, w.tool)
             \/ Deciding(bundle, c) = "__default__"
  BY <1>1, <1>2, ShadowExists
<1>4. Hole(bundle, w) /\ Deciding(bundle, w) = Deciding(bundle, c)
  BY <1>3 DEF Hole, Deciding
<1>5. Deciding(bundle, c) \in Holes(bundle)
  BY <1>4 DEF Holes
<1>6. ASSUME bundle.globs = <<>>, c.posture = "", Deciding(bundle, c) # "__default__"
      PROVE  Deciding(bundle, c) \in DirectHoles(bundle)
  <2>1. w.posture = Classify(bundle.exact, bundle.globs, w.tool)
    BY <1>3, <1>6
  <2> QED
    BY <1>4, <2>1 DEF DirectHoles
<1> QED
  BY <1>5, <1>6

-----------------------------------------------------------------------------

LEMMA InvHolds ==
  Spec => [](BundleInv /\ RegistryInv)
<1>1. Init => BundleInv /\ RegistryInv
  BY BundleInvInit, RegistryInvInit
<1>2. BundleInv /\ RegistryInv /\ [Next]_vars => (BundleInv /\ RegistryInv)'
  BY BundleInvStep, RegistryInvStep
<1> QED
  BY <1>1, <1>2, PTL DEF Spec

\* Whatever specs are registered and in whatever order, InverseRegistry.classify answers
\* with the posture registered last for an exact name, else for the pattern whose latest
\* registration is oldest; what was replaced never answers.
THEOREM LatestDecides == Spec => []LatestSpecDecides
<1>1. BundleInv /\ RegistryInv => LatestSpecDecides
  BY RegistryAnswers
<1> QED
  BY <1>1, InvHolds, PTL

\* The gate and the bundle's evaluator give each call one verdict by one rule, whatever
\* policy was loaded.  So does the enforcer, which translates the patterns on its own, as
\* long as no pattern has an empty range; with one it never applies a rule the gate would
\* not.  An unverified agent id selects no rule; and what was compiled is not refused.
THEOREM OneVerdict == Spec => []VerdictsAgree
<1>1. BundleInv /\ RegistryInv => VerdictsAgree
  BY EvaluatorsAgree, IdentityIsIgnored, CompiledLoads DEF VerdictsAgree
<1> QED
  BY <1>1, InvHolds, PTL

\* What recoup prove reports holds of every call, not only of those it tried: a rule it
\* calls unreachable never fires, and no rule that lets through what cannot be undone is
\* left out.
THEOREM ReportHolds == Spec => []ReportIsRight
<1>1. BundleInv /\ RegistryInv => ReportIsRight
  BY TypesHold, AccusedNeverDecide, NoHoleIsMissed DEF ReportIsRight
<1> QED
  BY <1>1, InvHolds, PTL

-----------------------------------------------------------------------------
(* Totals over a finite set, taken one element at a time.                  *)

\* A set of naturals with 0 and every successor holds all of them: the numbers are
\* well-founded.
LEMMA NaturalsInduct ==
  ASSUME NEW S \in SUBSET Nat, 0 \in S, \A n \in S : n + 1 \in S
  PROVE  S = Nat
<1> DEFINE Less == {pair \in Nat \X Nat : pair[1] < pair[2]}
<1> SUFFICES ASSUME Nat \ S # {} PROVE FALSE
  OBVIOUS
<1>1. IsWellFoundedOn(Less, Nat)
  BY NatLessThanWellFounded DEF OpToRel
<1>2. PICK x \in Nat \ S : \A y \in Nat \ S : <<y, x>> \notin Less
  BY <1>1, WFMin
<1>3. \A y \in Nat \ S : ~(y < x)
  BY <1>2
<1>4. x # 0 /\ x - 1 \in Nat /\ x - 1 \notin Nat \ S
  BY <1>3
<1> QED
  BY <1>4

Pick(S) == CHOOSE x \in S : TRUE

\* What the fold of TotalOf computes for each subset of D.
Sums(f, D, sum) ==
  sum = [S \in SUBSET D |-> IF S = {} THEN 0 ELSE f[Pick(S)] + sum[S \ {Pick(S)}]]

\* Taking the picked element out leaves one element less.
LEMMA PickOne ==
  ASSUME NEW S, IsFiniteSet(S), S # {}
  PROVE  /\ Pick(S) \in S
         /\ IsFiniteSet(S \ {Pick(S)})
         /\ Cardinality(S) \in Nat \ {0}
         /\ Cardinality(S \ {Pick(S)}) = Cardinality(S) - 1
<1>1. Pick(S) \in S
  BY DEF Pick
<1> QED
  BY <1>1, FS_RemoveElement, FS_CardinalityType, FS_EmptySet

\* The fold is defined: it can be built up by the size of the subsets.
LEMMA SumExists ==
  ASSUME NEW f, NEW D, IsFiniteSet(D)
  PROVE  \E sum : Sums(f, D, sum)
<1> DEFINE Upto(n) == {S \in SUBSET D : Cardinality(S) <= n}
           Computes(n, sum) ==
             sum = [S \in Upto(n) |-> IF S = {} THEN 0 ELSE f[Pick(S)] + sum[S \ {Pick(S)}]]
           Good == {n \in Nat : \E sum : Computes(n, sum)}
<1>1. \A S \in SUBSET D : IsFiniteSet(S) /\ Cardinality(S) \in Nat
  BY FS_Subset, FS_CardinalityType
<1>2. 0 \in Good
  <2>1. \A S \in Upto(0) : S = {}
    BY <1>1, FS_EmptySet
  <2>2. Computes(0, [S \in Upto(0) |-> 0])
    BY <2>1
  <2> QED
    BY <2>2
<1>3. ASSUME NEW n \in Good
      PROVE  n + 1 \in Good
  <2>1. PICK sum : Computes(n, sum)
    OBVIOUS
  <2> DEFINE more == [S \in Upto(n + 1) |-> IF S = {} THEN 0 ELSE f[Pick(S)] + sum[S \ {Pick(S)}]]
  <2>2. ASSUME NEW S \in Upto(n + 1), S # {}
        PROVE  more[S \ {Pick(S)}] = sum[S \ {Pick(S)}]
    <3>1. S \ {Pick(S)} \in Upto(n) /\ S \ {Pick(S)} \in Upto(n + 1)
      BY <1>1, <2>2, PickOne
    <3> QED
      BY <2>1, <3>1
  <2>3. Computes(n + 1, more)
    BY <2>2
  <2> HIDE DEF more
  <2>4. \E any : Computes(n + 1, any)
    BY <2>3
  <2> HIDE DEF Computes
  <2> QED
    BY <2>4
<1>4. Good = Nat
  BY <1>2, <1>3, NaturalsInduct
<1>5. PICK sum : Computes(Cardinality(D), sum)
  BY <1>1, <1>4
<1>6. Upto(Cardinality(D)) = SUBSET D
  BY <1>1, FS_Subset
<1>7. Sums(f, D, sum)
  BY <1>5, <1>6 DEF Sums
<1> QED
  BY <1>7

\* Functions that agree on a set have the same sum over it, whatever domain the fold
\* ran over.
LEMMA SumUnique ==
  ASSUME NEW f, NEW g, NEW D, NEW E, IsFiniteSet(D), D \subseteq E,
         \A x \in D : f[x] = g[x],
         NEW sum, NEW other, Sums(f, D, sum), Sums(g, E, other)
  PROVE  sum[D] = other[D]
<1> DEFINE Good == {n \in Nat : \A S \in SUBSET D : Cardinality(S) = n => sum[S] = other[S]}
<1>1. \A S \in SUBSET D : IsFiniteSet(S) /\ Cardinality(S) \in Nat
  BY FS_Subset, FS_CardinalityType
<1>2. /\ sum[{}] = 0 /\ other[{}] = 0
      /\ \A S \in SUBSET D : S # {} =>
           /\ sum[S] = f[Pick(S)] + sum[S \ {Pick(S)}]
           /\ other[S] = g[Pick(S)] + other[S \ {Pick(S)}]
  BY DEF Sums
<1>3. 0 \in Good
  BY <1>1, <1>2, FS_EmptySet
<1>4. ASSUME NEW n \in Good
      PROVE  n + 1 \in Good
  <2>1. ASSUME NEW S \in SUBSET D, Cardinality(S) = n + 1
        PROVE  sum[S] = other[S]
    <3>1. S # {}
      BY <2>1, FS_EmptySet
    <3>2. /\ Pick(S) \in S
          /\ S \ {Pick(S)} \in SUBSET D /\ Cardinality(S \ {Pick(S)}) = n
      BY <1>1, <2>1, <3>1, PickOne
    <3>3. sum[S \ {Pick(S)}] = other[S \ {Pick(S)}]
      BY <3>2
    <3> QED
      BY <1>2, <3>1, <3>2, <3>3
  <2> QED
    BY <2>1
<1>5. Good = Nat
  BY <1>3, <1>4, NaturalsInduct
<1> QED
  BY <1>1, <1>5

\* TotalOf is such a fold.
LEMMA TotalIsSum ==
  ASSUME NEW f, NEW D, IsFiniteSet(D)
  PROVE  \E sum : Sums(f, D, sum) /\ TotalOf(f, D) = sum[D]
<1> DEFINE fold == CHOOSE sum : Sums(f, D, sum)
<1>1. TotalOf(f, D) = fold[D]
  BY DEF TotalOf, Sets!MapThenSumSet, Sets!MapThenFoldSet, Sums, Pick
<1>2. Sums(f, D, fold)
  BY SumExists
<1> QED
  BY <1>1, <1>2

\* The sum over nothing, and over a set one element smaller.
LEMMA SumPick ==
  ASSUME NEW f, NEW D, IsFiniteSet(D)
  PROVE  /\ TotalOf(f, {}) = 0
         /\ D # {} => TotalOf(f, D) = f[Pick(D)] + TotalOf(f, D \ {Pick(D)})
<1>1. TotalOf(f, {}) = 0
  <2>1. PICK sum : Sums(f, {}, sum) /\ TotalOf(f, {}) = sum[{}]
    BY TotalIsSum, FS_EmptySet
  <2> QED
    BY <2>1 DEF Sums
<1>2. ASSUME D # {}
      PROVE  TotalOf(f, D) = f[Pick(D)] + TotalOf(f, D \ {Pick(D)})
  <2>1. PICK sum : Sums(f, D, sum) /\ TotalOf(f, D) = sum[D]
    BY TotalIsSum
  <2> DEFINE C == D \ {Pick(D)}
  <2>2. IsFiniteSet(C)
    BY <1>2, PickOne
  <2>3. PICK other : Sums(f, C, other) /\ TotalOf(f, C) = other[C]
    BY <2>2, TotalIsSum
  <2> HIDE DEF C
  <2>4. C \subseteq D
    BY DEF C
  <2>5. other[C] = sum[C]
    BY <2>1, <2>2, <2>3, <2>4, SumUnique
  <2>6. sum[D] = f[Pick(D)] + sum[C]
    BY <1>2, <2>1 DEF Sums, C
  <2> QED
    BY <2>1, <2>3, <2>5, <2>6 DEF C
<1> QED
  BY <1>1, <1>2



\* Terms of at least 1, and of at least 8 on a part.
LEMMA TotalAtLeast ==
  ASSUME NEW f, NEW D, IsFiniteSet(D), NEW B \in SUBSET D,
         \A x \in D : f[x] \in Nat /\ f[x] >= 1, \A x \in B : f[x] >= 8
  PROVE  TotalOf(f, D) >= Cardinality(D) + 7 * Cardinality(B)
<1> DEFINE Right(S) == TotalOf(f, S) \in Nat /\ TotalOf(f, S) >= Cardinality(S) + 7 * Cardinality(S \cap B)
           Good == {n \in Nat : \A S \in SUBSET D : Cardinality(S) = n => Right(S)}
<1>1. \A S \in SUBSET D : IsFiniteSet(S) /\ Cardinality(S) \in Nat
  BY FS_Subset, FS_CardinalityType
<1>2. 0 \in Good
  <2>1. TotalOf(f, {}) = 0 /\ {} \cap B = {} /\ Cardinality({}) = 0
    BY SumPick, FS_EmptySet
  <2>2. Right({})
    BY <2>1
  <2>3. \A S \in SUBSET D : Cardinality(S) = 0 => S = {}
    BY <1>1, FS_EmptySet
  <2> HIDE DEF Right
  <2> QED
    BY <2>2, <2>3
<1>3. ASSUME NEW n \in Good
      PROVE  n + 1 \in Good
  <2>0. n \in Nat /\ \A S \in SUBSET D : Cardinality(S) = n => Right(S)
    OBVIOUS
  <2>1. ASSUME NEW S \in SUBSET D, Cardinality(S) = n + 1
        PROVE  Right(S)
    <3> DEFINE p == Pick(S)
               C == S \ {p}
    <3>1. IsFiniteSet(S) /\ S # {}
      BY <1>1, <2>0, <2>1, FS_EmptySet
    <3>2. p \in S /\ Cardinality(C) = Cardinality(S) - 1
      BY <3>1, PickOne
    <3>3. TotalOf(f, S) = f[p] + TotalOf(f, C)
      BY <3>1, SumPick
    <3> HIDE DEF p
    <3>4. Cardinality(C) = n /\ C \in SUBSET D
      BY <2>0, <2>1, <3>2
    <3> HIDE DEF C
    <3>5. TotalOf(f, C) \in Nat /\ TotalOf(f, C) >= n + 7 * Cardinality(C \cap B)
      BY <2>0, <3>4
    <3>6. f[p] \in Nat /\ f[p] >= 1 /\ IsFiniteSet(C \cap B) /\ Cardinality(C \cap B) \in Nat
      BY <1>1, <3>2, <3>4, FS_Subset
    <3>7. CASE p \in B
      <4>1. S \cap B = (C \cap B) \cup {p} /\ p \notin C \cap B
        BY <3>2, <3>7 DEF C
      <4>2. Cardinality(S \cap B) = Cardinality(C \cap B) + 1
        BY <3>6, <4>1, FS_AddElement
      <4>3. f[p] >= 8
        BY <3>7
      <4> DEFINE k == Cardinality(C \cap B)
                 t == TotalOf(f, C)
                 w == f[p]
      <4>4. k \in Nat /\ t \in Nat /\ w \in Nat /\ t >= n + 7 * k /\ w >= 8
        BY <3>5, <3>6, <4>3
      <4> HIDE DEF k, t, w
      <4>5. w + t \in Nat /\ w + t >= (n + 1) + 7 * (k + 1)
        BY <2>0, <4>4
      <4> QED
        BY <2>1, <3>3, <4>2, <4>5 DEF k, t, w
    <3>8. CASE p \notin B
      <4>1. S \cap B = C \cap B
        BY <3>8 DEF C
      <4> DEFINE k == Cardinality(C \cap B)
                 t == TotalOf(f, C)
                 w == f[p]
      <4>4. k \in Nat /\ t \in Nat /\ w \in Nat /\ t >= n + 7 * k /\ w >= 1
        BY <3>5, <3>6
      <4> HIDE DEF k, t, w
      <4>5. w + t \in Nat /\ w + t >= (n + 1) + 7 * k
        BY <2>0, <4>4
      <4> QED
        BY <2>1, <3>3, <4>1, <4>5 DEF k, t, w
    <3> QED
      BY <3>7, <3>8
  <2> HIDE DEF Right
  <2> QED
    BY <2>0, <2>1
<1>4. Good = Nat
  BY <1>2, <1>3, NaturalsInduct
<1>5. Right(D)
  BY <1>1, <1>4
<1>6. D \cap B = B
  OBVIOUS
<1> QED
  BY <1>5, <1>6

\* The sizes of the parts of a finite set add up to its size.
LEMMA TotalCounts ==
  ASSUME NEW f, NEW D, IsFiniteSet(D), NEW Part,
         \A x \in D : IsFiniteSet(Part[x]) /\ f[x] = Cardinality(Part[x]),
         \A x, y \in D : x # y => Part[x] \cap Part[y] = {}
  PROVE  Cardinality(UNION {Part[x] : x \in D}) = TotalOf(f, D)
<1> DEFINE All(S) == UNION {Part[x] : x \in S}
           Right(S) == IsFiniteSet(All(S)) /\ Cardinality(All(S)) = TotalOf(f, S)
           Good == {n \in Nat : \A S \in SUBSET D : Cardinality(S) = n => Right(S)}
<1>1. \A S \in SUBSET D : IsFiniteSet(S) /\ Cardinality(S) \in Nat
  BY FS_Subset, FS_CardinalityType
<1>2. 0 \in Good
  <2>1. TotalOf(f, {}) = 0 /\ All({}) = {} /\ Cardinality({}) = 0 /\ IsFiniteSet({})
    BY SumPick, FS_EmptySet
  <2> HIDE DEF All
  <2>2. Right({})
    BY <2>1
  <2>3. \A S \in SUBSET D : Cardinality(S) = 0 => S = {}
    BY <1>1, FS_EmptySet
  <2> HIDE DEF Right
  <2> QED
    BY <2>2, <2>3
<1>3. ASSUME NEW n \in Good
      PROVE  n + 1 \in Good
  <2>0. n \in Nat /\ \A S \in SUBSET D : Cardinality(S) = n => Right(S)
    OBVIOUS
  <2>1. ASSUME NEW S \in SUBSET D, Cardinality(S) = n + 1
        PROVE  Right(S)
    <3> DEFINE p == Pick(S)
               C == S \ {p}
    <3>1. IsFiniteSet(S) /\ S # {}
      BY <1>1, <2>0, <2>1, FS_EmptySet
    <3>2. p \in S /\ Cardinality(C) = Cardinality(S) - 1
      BY <3>1, PickOne
    <3>3. TotalOf(f, S) = f[p] + TotalOf(f, C)
      BY <3>1, SumPick
    <3> HIDE DEF p
    <3>4. Cardinality(C) = n /\ C \in SUBSET D
      BY <2>0, <2>1, <3>2
    <3>5. All(S) = All(C) \cup Part[p]
      BY <3>2
    <3>6. All(C) \cap Part[p] = {}
      BY <3>2
    <3> HIDE DEF C, All
    <3>7. IsFiniteSet(All(C)) /\ Cardinality(All(C)) = TotalOf(f, C)
      BY <2>0, <3>4
    <3>8. IsFiniteSet(Part[p]) /\ f[p] = Cardinality(Part[p])
      BY <3>2
    <3>9. Cardinality(All(C) \cap Part[p]) = 0
      BY <3>6, FS_EmptySet
    <3>12. IsFiniteSet(All(C) \cup Part[p])
      BY <3>7, <3>8, FS_Union
    <3>10. Cardinality(All(S)) = Cardinality(All(C)) + Cardinality(Part[p]) - 0
      BY <3>5, <3>7, <3>8, <3>9, FS_Union
    <3>11. Cardinality(All(C)) \in Nat /\ Cardinality(Part[p]) \in Nat
      BY <3>7, <3>8, FS_CardinalityType
    <3> QED
      BY <3>3, <3>5, <3>7, <3>8, <3>10, <3>11, <3>12
  <2> HIDE DEF Right
  <2> QED
    BY <2>0, <2>1
<1>4. Good = Nat
  BY <1>2, <1>3, NaturalsInduct
<1> HIDE DEF Right
<1>5. Right(D)
  BY <1>1, <1>4
<1> QED
  BY <1>5 DEF Right

-----------------------------------------------------------------------------
(* On-chain actions.                                                       *)

\* The chains' block times and depths.
LEMMA ChainsAre ==
  ASSUME NEW a \in OnChainActions
  PROVE  /\ Depth(a) \in 6 .. 128
         /\ a.chain \in KnownChains =>
              /\ Chains[a.chain].block \in Nat \ {0}
              /\ Chains[a.chain].depth = Depth(a)
         /\ Replaceable(a) \in BOOLEAN
         /\ Replaceable(a) => a.chain \in KnownChains
<1>1. KnownChains = {"bitcoin", "ethereum", "solana", "base", "polygon"}
  BY DEF KnownChains, Chains
<1>2. a.chain \in KnownChains \cup {"unknown"}
  BY DEF OnChainActions
<1>3. Chains["bitcoin"].block = 6000 /\ Chains["bitcoin"].depth = 6
  BY DEF Chains, Chain
<1>4. Chains["ethereum"].block = 120 /\ Chains["ethereum"].depth = 64
  BY DEF Chains, Chain
<1>5. Chains["solana"].block = 4 /\ Chains["solana"].depth = 32
  BY DEF Chains, Chain
<1>6. Chains["base"].block = 20 /\ Chains["base"].depth = 64
  BY DEF Chains, Chain
<1>7. Chains["polygon"].block = 20 /\ Chains["polygon"].depth = 128
  BY DEF Chains, Chain
<1>8. \A x \in KnownChains : Chains[x].replaceable \in BOOLEAN
  <2>1. Chains["bitcoin"].replaceable \in BOOLEAN /\ Chains["ethereum"].replaceable \in BOOLEAN
    BY DEF Chains, Chain
  <2>2. Chains["solana"].replaceable \in BOOLEAN /\ Chains["base"].replaceable \in BOOLEAN
    BY DEF Chains, Chain
  <2>3. Chains["polygon"].replaceable \in BOOLEAN
    BY DEF Chains, Chain
  <2> QED
    BY <1>1, <2>1, <2>2, <2>3
<1>9. \A x \in KnownChains : Chains[x].block \in Nat \ {0} /\ Chains[x].depth \in 6 .. 128
  BY <1>1, <1>3, <1>4, <1>5, <1>6, <1>7
<1>10. Replaceable(a) \in BOOLEAN /\ (Replaceable(a) => a.chain \in KnownChains)
  BY <1>8 DEF Replaceable
<1>11. CASE a.chain \in KnownChains
  BY <1>9, <1>10, <1>11 DEF Depth
<1>12. CASE a.chain \notin KnownChains
  BY <1>10, <1>12 DEF Depth
<1> QED
  BY <1>11, <1>12

\* What an action is said to be, by its signature, its confirmations and its chain's depth.
LEMMA ActionIs ==
  ASSUME NEW a \in OnChainActions
  PROVE  /\ a.confirmations \in -1 .. 129 /\ a.signed \in BOOLEAN /\ a.large \in BOOLEAN
         /\ a.confirmations >= 0 => a.signed
         /\ StateOf(a) = "draft" <=> a.confirmations < 0 /\ ~a.signed
         /\ StateOf(a) = "pending" <=> a.confirmations <= 0 /\ a.signed
         /\ StateOf(a) = "confirming" <=> a.confirmations >= 1 /\ a.confirmations < Depth(a)
         /\ StateOf(a) = "final" <=> a.confirmations >= Depth(a)
         /\ StateOf(a) \in {"draft", "pending", "confirming", "final"}
<1>1. a.confirmations \in -1 .. 129 /\ a.signed \in BOOLEAN /\ a.large \in BOOLEAN
      /\ (a.confirmations >= 0 => a.signed)
  BY DEF OnChainActions, Deepest
<1> DEFINE n == a.confirmations
           d == Depth(a)
<1>2. d \in 6 .. 128
  BY ChainsAre
<1>3. n < 0 \/ n = 0 \/ n \in 1 .. d - 1 \/ n >= d
  <2>1. n \in Int /\ d \in Int
    BY <1>1, <1>2
  <2> HIDE DEF n, d
  <2> QED
    BY <2>1
<1>4. CASE n < 0 /\ ~a.signed
  <2>1. StateOf(a) = "draft"
    BY <1>1, <1>2, <1>4 DEF StateOf
  <2> QED
    BY <1>1, <1>2, <1>4, <2>1
<1>5. CASE n < 0 /\ a.signed
  <2>1. StateOf(a) = "pending"
    BY <1>1, <1>2, <1>5 DEF StateOf
  <2> QED
    BY <1>1, <1>2, <1>5, <2>1
<1>6. CASE n = 0
  <2>1. StateOf(a) = "pending"
    BY <1>1, <1>2, <1>6 DEF StateOf
  <2> QED
    BY <1>1, <1>2, <1>6, <2>1
<1>7. CASE n \in 1 .. d - 1
  <2>1. StateOf(a) = "confirming"
    BY <1>1, <1>2, <1>7 DEF StateOf
  <2> QED
    BY <1>1, <1>2, <1>7, <2>1
<1>8. CASE n >= d
  <2>1. n \in Int /\ d \in 6 .. 128
    BY <1>1, <1>2
  <2>3. ~(n < 0 /\ ~a.signed) /\ ~(n < 0 /\ a.signed) /\ ~(n = 0) /\ ~(n \in 1 .. d - 1) /\ n >= d
    <3> HIDE DEF n, d
    <3> QED
      BY <1>8, <2>1
  <2>2. StateOf(a) = "final"
    BY <2>3, Zenon DEF StateOf
  <2>4. ~(n < 0) /\ ~(n <= 0) /\ n >= 1 /\ ~(n < d)
    <3> HIDE DEF n, d
    <3> QED
      BY <1>8, <2>1
  <2> QED
    BY <1>1, <1>8, <2>2, <2>4
<1> QED
  BY <1>1, <1>3, <1>4, <1>5, <1>6, <1>7, <1>8

\* More blocks take more time.
LEMMA BlocksTakeTime ==
  ASSUME NEW b \in Nat \ {0}, NEW x \in Nat, NEW y \in Nat, x <= y
  PROVE  b * x \in Nat /\ b * x <= b * y /\ (x > 0 => b * x > 0)
<1>1. b * x \in Nat /\ b * (y - x) \in Nat
  OBVIOUS
<1>2. b * y = b * x + b * (y - x)
  OBVIOUS
<1>3. x > 0 => b * x > 0
  OBVIOUS
<1> QED
  BY <1>1, <1>2, <1>3

\* The time left is that of the blocks that are missing.
Missing(a) == IF a.confirmations <= 0 THEN Depth(a) ELSE Depth(a) - a.confirmations

LEMMA TimeIs ==
  ASSUME NEW a \in OnChainActions
  PROVE  /\ a.chain \notin KnownChains \/ StateOf(a) = "final" => TimeLeft(a) = -1
         /\ a.chain \in KnownChains /\ StateOf(a) # "final" =>
              /\ Missing(a) \in Nat \ {0}
              /\ TimeLeft(a) = Chains[a.chain].block * Missing(a)
              /\ TimeLeft(a) \in Nat \ {0}
<1>1. CASE a.chain \notin KnownChains \/ StateOf(a) = "final"
  <2>1. CASE a.chain \notin KnownChains
    BY <2>1 DEF TimeLeft, NoTime
  <2>2. CASE StateOf(a) = "final"
    BY <2>2 DEF TimeLeft, NoTime
  <2> QED
    BY <1>1, <2>1, <2>2
<1>2. CASE a.chain \in KnownChains /\ StateOf(a) # "final"
  <2>1. Missing(a) \in Nat \ {0}
    <3>1. ~(a.confirmations >= Depth(a))
      BY <1>2, ActionIs
    <3>2. a.confirmations \in Int /\ Depth(a) \in 6 .. 128
      BY ActionIs, ChainsAre
    <3> QED
      BY <3>1, <3>2 DEF Missing
  <2>2. Chains[a.chain].block \in Nat \ {0} /\ Chains[a.chain].depth = Depth(a)
    BY <1>2, ChainsAre
  <2>3. CASE StateOf(a) \in {"draft", "pending"}
    <3>1. TimeLeft(a) = Chains[a.chain].block * Chains[a.chain].depth
      BY <1>2, <2>3 DEF TimeLeft
    <3>2. Missing(a) = Depth(a)
      BY <2>3, ActionIs DEF Missing
    <3>3. TimeLeft(a) = Chains[a.chain].block * Missing(a)
      BY <2>2, <3>1, <3>2
    <3>4. Chains[a.chain].block * Missing(a) > 0 /\ Chains[a.chain].block * Missing(a) \in Nat
      BY <2>1, <2>2, BlocksTakeTime
    <3> QED
      BY <1>2, <2>1, <3>3, <3>4
  <2>4. CASE StateOf(a) = "confirming"
    <3>1. TimeLeft(a) = Chains[a.chain].block * (Chains[a.chain].depth - a.confirmations)
      BY <1>2, <2>4 DEF TimeLeft
    <3>2. Missing(a) = Depth(a) - a.confirmations
      BY <2>4, ActionIs DEF Missing
    <3>3. TimeLeft(a) = Chains[a.chain].block * Missing(a)
      BY <2>2, <3>1, <3>2
    <3>4. Chains[a.chain].block * Missing(a) > 0 /\ Chains[a.chain].block * Missing(a) \in Nat
      BY <2>1, <2>2, BlocksTakeTime
    <3> QED
      BY <1>2, <2>1, <3>3, <3>4
  <2> QED
    BY <1>2, <2>3, <2>4, ActionIs
<1> QED
  BY <1>1, <1>2

\* Fewer confirmations on the same chain leave no less time, once something is signed or not.
LEMMA TimeGrows ==
  ASSUME NEW a \in OnChainActions, NEW b \in OnChainActions, a.chain = b.chain,
         a.confirmations <= b.confirmations
  PROVE  TimeLeft(b) <= TimeLeft(a)
<1>1. Depth(a) = Depth(b)
  BY DEF Depth
<1>2. StateOf(a) = "final" => StateOf(b) = "final"
  <2>1. StateOf(a) = "final" => a.confirmations >= Depth(a)
    BY ActionIs
  <2>2. b.confirmations >= Depth(b) => StateOf(b) = "final"
    BY ActionIs
  <2>3. a.confirmations \in Int /\ b.confirmations \in Int /\ Depth(a) \in Int
    BY ActionIs, ChainsAre
  <2> QED
    BY <1>1, <2>1, <2>2, <2>3
<1>3. CASE a.chain \notin KnownChains \/ StateOf(a) = "final"
  <2>1. TimeLeft(a) = -1 /\ TimeLeft(b) = -1
    BY <1>2, <1>3, TimeIs
  <2> QED
    BY <2>1
<1>4. CASE a.chain \in KnownChains /\ StateOf(a) # "final" /\ StateOf(b) = "final"
  <2>1. TimeLeft(a) \in Nat /\ TimeLeft(b) = -1
    BY <1>4, TimeIs
  <2> QED
    BY <2>1
<1>5. CASE a.chain \in KnownChains /\ StateOf(a) # "final" /\ StateOf(b) # "final"
  <2>1. /\ Missing(a) \in Nat /\ Missing(b) \in Nat
        /\ TimeLeft(a) = Chains[a.chain].block * Missing(a)
        /\ TimeLeft(b) = Chains[a.chain].block * Missing(b)
    BY <1>5, TimeIs
  <2>2. Missing(b) <= Missing(a)
    <3>1. Depth(a) \in Int /\ a.confirmations \in Int /\ b.confirmations \in Int
      BY ChainsAre, ActionIs
    <3> QED
      BY <1>1, <3>1 DEF Missing
  <2>3. Chains[a.chain].block \in Nat \ {0}
    BY <1>5, ChainsAre
  <2> QED
    BY <2>1, <2>2, <2>3, BlocksTakeTime
<1> QED
  BY <1>3, <1>4, <1>5

\* FinalityIsHonest.
LEMMA FinalityHolds == FinalityIsHonest
<1> SUFFICES ASSUME NEW a \in OnChainActions
             PROVE  /\ a.chain \in KnownChains =>
                         (TimeLeft(a) > 0 <=> \/ PostureOf(a) # "irreversible"
                                              \/ StateOf(a) = "pending" /\ ~Replaceable(a))
                    /\ Holdback(a).hold => PostureOf(a) = "reversible" /\ Holdback(a).stoppable
                    /\ Holdback(a).stoppable <=> Remedies[PostureOf(a)] > 0
                    /\ StateOf(a) = "pending" /\ ~Replaceable(a) => ~Holdback(a).stoppable
                    /\ \A b \in Forward(a) :
                         /\ TimeLeft(b) <= TimeLeft(a)
                         /\ Remedies[PostureOf(b)] <= Remedies[PostureOf(a)]
                              \/ (StateOf(a) = "pending" /\ StateOf(b) = "confirming" /\ ~Replaceable(a))
                         /\ Holdback(b).hold => Holdback(a).hold
                    /\ \A b \in Reorganised(a) : ~Holdback(b).hold /\ TimeLeft(b) >= TimeLeft(a)
  BY DEF FinalityIsHonest
<1>1. /\ Remedies["reversible"] = 2 /\ Remedies["compensable"] = 1
      /\ Remedies["irreversible"] = 0
  BY DEF Remedies
<1>2. \A c \in OnChainActions :
        /\ StateOf(c) = "draft" => PostureOf(c) = "reversible"
        /\ StateOf(c) = "pending" /\ Replaceable(c) => PostureOf(c) = "compensable"
        /\ StateOf(c) = "pending" /\ ~Replaceable(c) => PostureOf(c) = "irreversible"
        /\ StateOf(c) = "confirming" => PostureOf(c) = "compensable"
        /\ StateOf(c) = "final" => PostureOf(c) = "irreversible"
  BY DEF PostureOf
<1>3. \A c \in OnChainActions :
        /\ StateOf(c) = "draft" => Holdback(c).hold = c.large /\ Holdback(c).stoppable = TRUE
        /\ StateOf(c) # "draft" =>
             Holdback(c).hold = FALSE /\ Holdback(c).stoppable = (PostureOf(c) # "irreversible")
  BY DEF Holdback
<1>4. \A c \in OnChainActions : StateOf(c) \in {"draft", "pending", "confirming", "final"}
  BY ActionIs
<1>5. ASSUME a.chain \in KnownChains
      PROVE  TimeLeft(a) > 0 <=> \/ PostureOf(a) # "irreversible"
                                 \/ StateOf(a) = "pending" /\ ~Replaceable(a)
  <2>1. CASE StateOf(a) = "final"
    <3>1. TimeLeft(a) = -1
      BY <2>1 DEF TimeLeft, NoTime
    <3>2. PostureOf(a) = "irreversible"
      BY <1>2, <2>1
    <3> QED
      BY <2>1, <3>1, <3>2
  <2>2. CASE StateOf(a) # "final"
    <3>1. TimeLeft(a) \in Nat \ {0}
      BY <1>5, <2>2, TimeIs
    <3>2. PostureOf(a) # "irreversible" \/ (StateOf(a) = "pending" /\ ~Replaceable(a))
      BY <1>2, <1>4, <2>2
    <3> QED
      BY <3>1, <3>2
  <2> QED
    BY <2>1, <2>2
<1>6. /\ Holdback(a).hold => PostureOf(a) = "reversible" /\ Holdback(a).stoppable
      /\ StateOf(a) = "pending" /\ ~Replaceable(a) => ~Holdback(a).stoppable
  BY <1>2, <1>3, <1>4
<1>7. PostureOf(a) \in {"reversible", "compensable", "irreversible"}
  BY <1>2, <1>4
<1>8. Holdback(a).stoppable <=> Remedies[PostureOf(a)] > 0
  <2>1. Remedies[PostureOf(a)] > 0 <=> PostureOf(a) # "irreversible"
    BY <1>1, <1>7
  <2>2. Holdback(a).stoppable <=> PostureOf(a) # "irreversible"
    BY <1>2, <1>3, <1>4
  <2> QED
    BY <2>1, <2>2
<1>9. ASSUME NEW b \in Forward(a)
      PROVE  /\ TimeLeft(b) <= TimeLeft(a)
             /\ Remedies[PostureOf(b)] <= Remedies[PostureOf(a)]
                  \/ (StateOf(a) = "pending" /\ StateOf(b) = "confirming" /\ ~Replaceable(a))
             /\ Holdback(b).hold => Holdback(a).hold
  <2>1. /\ b \in OnChainActions /\ b.chain = a.chain
        /\ \/ ~a.signed /\ b.signed /\ b.confirmations = a.confirmations
           \/ a.signed /\ b.signed /\ b.confirmations = a.confirmations + 1
    BY <1>9 DEF Forward, OnChainActions
  <2>2. a.confirmations <= b.confirmations
    BY <2>1, ActionIs
  <2>3. TimeLeft(b) <= TimeLeft(a)
    BY <2>1, <2>2, TimeGrows
  <2>4. Depth(a) = Depth(b) /\ Replaceable(a) = Replaceable(b)
    BY <2>1 DEF Depth, Replaceable
  <2>5. StateOf(b) # "draft"
    BY <2>1, ActionIs
  <2>6. PostureOf(b) \in {"compensable", "irreversible"}
    BY <1>2, <1>4, <2>1, <2>5
  <2>7. CASE StateOf(a) = "draft"
    <3>1. PostureOf(a) = "reversible"
      BY <1>2, <2>7
    <3> QED
      BY <1>1, <1>3, <2>1, <2>3, <2>5, <2>6, <3>1
  <2>8. CASE StateOf(a) = "pending"
    <3>1. StateOf(b) \in {"pending", "confirming"}
      BY <2>1, <2>4, <2>8, ActionIs, ChainsAre
    <3>2. CASE Replaceable(a)
      <4>1. PostureOf(a) = "compensable"
        BY <1>2, <2>8, <3>2
      <4> QED
        BY <1>1, <1>3, <2>1, <2>3, <2>5, <2>6, <4>1
    <3>3. CASE ~Replaceable(a) /\ StateOf(b) = "pending"
      <4>1. PostureOf(a) = "irreversible" /\ PostureOf(b) = "irreversible"
        BY <1>2, <2>1, <2>4, <2>8, <3>3
      <4> QED
        BY <1>1, <1>3, <2>1, <2>3, <2>5, <4>1
    <3> QED
      BY <1>3, <2>1, <2>3, <2>5, <2>8, <3>1, <3>2, <3>3
  <2>9. CASE StateOf(a) = "confirming"
    <3>1. PostureOf(a) = "compensable"
      BY <1>2, <2>9
    <3>2. Remedies[PostureOf(b)] <= Remedies[PostureOf(a)]
      BY <1>1, <2>6, <3>1
    <3>3. ~Holdback(b).hold
      BY <1>3, <2>1, <2>5
    <3> QED
      BY <2>3, <3>2, <3>3
  <2>10. CASE StateOf(a) = "final"
    <3>1. StateOf(b) = "final"
      <4>1. a.confirmations >= Depth(a)
        BY <2>10, ActionIs
      <4>2. b.confirmations >= Depth(b) => StateOf(b) = "final"
        BY <2>1, ActionIs
      <4>3. a.confirmations \in Int /\ b.confirmations \in Int /\ Depth(a) \in Int
        BY <2>1, ActionIs, ChainsAre
      <4> QED
        BY <2>2, <2>4, <4>1, <4>2, <4>3
    <3>2. PostureOf(a) = "irreversible" /\ PostureOf(b) = "irreversible"
      BY <1>2, <2>1, <2>10, <3>1
    <3> QED
      BY <1>1, <1>3, <2>1, <2>3, <2>5, <3>2
  <2> QED
    BY <1>4, <2>7, <2>8, <2>9, <2>10
<1>10. ASSUME NEW b \in Reorganised(a)
       PROVE  ~Holdback(b).hold /\ TimeLeft(b) >= TimeLeft(a)
  <2>1. PICK n \in 0 .. a.confirmations - 1 : b = [a EXCEPT !.confirmations = n]
    BY <1>10 DEF Reorganised
  <2>2. a.confirmations \in -1 .. 129 /\ a.confirmations >= 1 /\ a.signed /\ n \in -1 .. 129
        /\ n <= a.confirmations
    BY <2>1, ActionIs
  <2>3. b \in OnChainActions /\ b.chain = a.chain /\ b.confirmations = n /\ b.signed
    BY <2>1, <2>2 DEF OnChainActions, Deepest
  <2>4. TimeLeft(a) <= TimeLeft(b)
    BY <2>2, <2>3, TimeGrows
  <2>5. StateOf(b) # "draft"
    BY <2>1, <2>3, ActionIs
  <2>6. TimeLeft(a) \in Int /\ TimeLeft(b) \in Int
    BY <2>3, TimeIs
  <2> QED
    BY <1>3, <2>3, <2>4, <2>5, <2>6
<1> QED
  BY <1>5, <1>6, <1>8, <1>9, <1>10

-----------------------------------------------------------------------------
(* The observations.                                                       *)

\* A finite set of naturals has a highest element, and Highest is it.
LEMMA HighestIs ==
  ASSUME NEW S \in SUBSET Nat, IsFiniteSet(S), S # {}
  PROVE  Highest(S) \in S /\ \A x \in S : x <= Highest(S)
<1> DEFINE Bounded(T) == \E k \in Nat : \A x \in T : x <= k
           Good == {n \in Nat : \A T \in SUBSET S : Cardinality(T) = n => Bounded(T)}
<1>1. \A T \in SUBSET S : IsFiniteSet(T) /\ Cardinality(T) \in Nat
  BY FS_Subset, FS_CardinalityType
<1>2. 0 \in Good
  <2>1. \A T \in SUBSET S : Cardinality(T) = 0 => T = {}
    BY <1>1, FS_EmptySet
  <2> QED
    BY <2>1
<1>3. ASSUME NEW n \in Good
      PROVE  n + 1 \in Good
  <2>0. n \in Nat /\ \A T \in SUBSET S : Cardinality(T) = n => Bounded(T)
    OBVIOUS
  <2>1. ASSUME NEW T \in SUBSET S, Cardinality(T) = n + 1
        PROVE  Bounded(T)
    <3> DEFINE p == Pick(T)
               C == T \ {p}
    <3>1. IsFiniteSet(T) /\ T # {}
      BY <1>1, <2>0, <2>1, FS_EmptySet
    <3>2. p \in T /\ Cardinality(C) = Cardinality(T) - 1
      BY <3>1, PickOne
    <3> HIDE DEF p
    <3>3. Cardinality(C) = n /\ C \in SUBSET S
      BY <2>0, <2>1, <3>2
    <3>4. PICK k \in Nat : \A x \in C : x <= k
      BY <2>0, <3>3
    <3>5. p \in Nat
      BY <3>2
    <3> DEFINE m == IF p <= k THEN k ELSE p
    <3>6. m \in Nat /\ k <= m /\ p <= m
      BY <3>5
    <3> HIDE DEF m
    <3>7. ASSUME NEW x \in T PROVE x <= m
      <4>1. x \in Nat
        OBVIOUS
      <4>2. x = p \/ x <= k
        BY <3>4
      <4> QED
        BY <3>6, <4>1, <4>2
    <3> QED
      BY <3>6, <3>7
  <2> HIDE DEF Bounded
  <2> QED
    BY <2>0, <2>1
<1>4. Good = Nat
  BY <1>2, <1>3, NaturalsInduct
<1>5. Bounded(S)
  BY <1>1, <1>4
<1>6. \E m \in S : \A x \in S : x <= m
  BY <1>5, GreatestBelow
<1> QED
  BY <1>6 DEF Highest

\* What a function gives on a finite set is finite.
LEMMA ImageIsFinite ==
  ASSUME NEW f, NEW D, IsFiniteSet(D)
  PROVE  IsFiniteSet({f[x] : x \in D})
<1> DEFINE T == {f[x] : x \in D}
           g == [x \in D |-> f[x]]
<1>1. g \in Surjection(D, T)
  BY DEF Surjection
<1> QED
  BY <1>1, FS_Surjection

\* Observations: finitely many, of names that are patterns too.
Observed(obs) ==
  /\ DOMAIN obs \in SUBSET Nat /\ IsFiniteSet(DOMAIN obs)
  /\ \A i \in DOMAIN obs :
       /\ obs[i].tool \in Patterns \cap Names /\ obs[i].action \in Patterns \cap Names
       /\ obs[i].agent \in (Patterns \cap Names) \cup {Nobody}
       /\ obs[i].risk \in Nat /\ obs[i].posture \in Kinds

\* What read leaves of a journal are observations.
LEMMA ReadIs ==
  ASSUME traffic \in Seq(Lines)
  PROVE  Observed(Read(traffic))
<1> DEFINE obs == Read(traffic)
<1>1. DOMAIN obs = {j \in DOMAIN traffic : traffic[j] # Torn}
  BY DEF Read
<1>2. \A i \in DOMAIN obs : obs[i] \in Lines \ {Torn}
  BY DEF Read
<1>3. DOMAIN obs \in SUBSET (1 .. Len(traffic)) /\ Len(traffic) \in Nat
  BY <1>1
<1>4. IsFiniteSet(1 .. Len(traffic))
  BY <1>3, FS_Interval
<1>5. IsFiniteSet(DOMAIN obs)
  BY <1>3, <1>4, FS_Subset
<1>6. DOMAIN obs \in SUBSET Nat
  BY <1>3
<1> HIDE DEF obs
<1>7. ASSUME NEW i \in DOMAIN obs
      PROVE  /\ obs[i].tool \in Patterns \cap Names /\ obs[i].action \in Patterns \cap Names
             /\ obs[i].agent \in (Patterns \cap Names) \cup {Nobody}
             /\ obs[i].risk \in Nat /\ obs[i].posture \in Kinds
  BY <1>2, EstateAssumption
<1> QED
  BY <1>5, <1>6, <1>7 DEF obs, Observed

\* An agent's calls, and the highest risk among them.
LEMMA AgentIs ==
  ASSUME NEW obs, Observed(obs), NEW a \in AgentsIn(obs)
  PROVE  /\ Of(obs, a) \in SUBSET DOMAIN obs /\ IsFiniteSet(Of(obs, a)) /\ Of(obs, a) # {}
         /\ Profile(obs, a).maxRisk \in Nat
         /\ \E i \in Of(obs, a) : obs[i].risk = Profile(obs, a).maxRisk
         /\ \A i \in Of(obs, a) : obs[i].risk <= Profile(obs, a).maxRisk
         /\ Profile(obs, a).tools = {obs[i].tool : i \in Of(obs, a)}
         /\ Profile(obs, a).actions = {obs[i].action : i \in Of(obs, a)}
         /\ Profile(obs, a).irreversible =
              {obs[i].tool : i \in {j \in Of(obs, a) : IsOneWay(obs[j].posture)}}
<1>1. Of(obs, a) \in SUBSET DOMAIN obs /\ Of(obs, a) # {}
  BY DEF Of, AgentsIn
<1>2. IsFiniteSet(Of(obs, a))
  BY <1>1, FS_Subset DEF Observed
<1> DEFINE risk == [i \in Of(obs, a) |-> obs[i].risk]
           S == {obs[i].risk : i \in Of(obs, a)}
<1>3. S = {risk[i] : i \in Of(obs, a)}
  OBVIOUS
<1>4. IsFiniteSet(S)
  <2> HIDE DEF risk
  <2> QED
    BY <1>2, <1>3, ImageIsFinite
<1>5. S \in SUBSET Nat /\ S # {}
  BY <1>1 DEF Observed
<1>6. Highest(S) \in S /\ \A x \in S : x <= Highest(S)
  <2> HIDE DEF S
  <2> QED
    BY <1>4, <1>5, HighestIs
<1>7. Profile(obs, a).maxRisk = Highest(S)
  BY DEF Profile
<1>8. Profile(obs, a).maxRisk \in Nat
  BY <1>5, <1>6, <1>7
<1>9. \E i \in Of(obs, a) : obs[i].risk = Profile(obs, a).maxRisk
  BY <1>6, <1>7
<1>10. \A i \in Of(obs, a) : obs[i].risk <= Profile(obs, a).maxRisk
  BY <1>6, <1>7
<1>11. /\ Profile(obs, a).tools = {obs[i].tool : i \in Of(obs, a)}
       /\ Profile(obs, a).actions = {obs[i].action : i \in Of(obs, a)}
       /\ Profile(obs, a).irreversible =
            {obs[i].tool : i \in {j \in Of(obs, a) : IsOneWay(obs[j].posture)}}
  BY DEF Profile
<1> QED
  BY <1>1, <1>2, <1>8, <1>9, <1>10, <1>11

\* Each call is its agent's; and a tool some agent used one way needs approval.
LEMMA CallIs ==
  ASSUME NEW obs, NEW i \in DOMAIN obs
  PROVE  /\ obs[i].agent \in AgentsIn(obs) /\ i \in Of(obs, obs[i].agent)
         /\ obs[i].tool \in ToolsIn(obs)
         /\ IsOneWay(obs[i].posture) => obs[i].tool \in Profile(obs, obs[i].agent).irreversible
         /\ IsOneWay(obs[i].posture) => obs[i].tool \in AllIrreversible(obs)
<1>1. obs[i].agent \in AgentsIn(obs) /\ i \in Of(obs, obs[i].agent) /\ obs[i].tool \in ToolsIn(obs)
  BY DEF AgentsIn, Of, ToolsIn
<1>2. Profile(obs, obs[i].agent).irreversible =
        {obs[j].tool : j \in {k \in Of(obs, obs[i].agent) : IsOneWay(obs[k].posture)}}
  BY DEF Profile
<1>3. IsOneWay(obs[i].posture) => obs[i].tool \in Profile(obs, obs[i].agent).irreversible
  BY <1>1, <1>2
<1> QED
  BY <1>1, <1>3 DEF AllIrreversible

-----------------------------------------------------------------------------
(* The suggested policy.                                                   *)

\* SetToSeq lists each element of a finite set once.
LEMMA ListIs ==
  ASSUME NEW S, IsFiniteSet(S)
  PROVE  /\ Cardinality(S) \in Nat
         /\ Seqs!SetToSeq(S) \in [1 .. Cardinality(S) -> S]
         /\ \A i, j \in 1 .. Cardinality(S) :
              Seqs!SetToSeq(S)[i] = Seqs!SetToSeq(S)[j] => i = j
         /\ \A x \in S : \E i \in 1 .. Cardinality(S) : Seqs!SetToSeq(S)[i] = x
<1> DEFINE n == Cardinality(S)
           f == Seqs!SetToSeq(S)
           Once(g) == \A i, j \in DOMAIN g : g[i] = g[j] => i = j
<1>1. n \in Nat /\ ExistsBijection(1 .. n, S)
  BY FS_CardinalityType
<1>2. PICK g \in [1 .. n -> S] : Once(g)
  BY <1>1 DEF ExistsBijection, Bijection, Injection, IsInjective
<1>3. f \in [1 .. n -> S] /\ Once(f)
  <2>4. Seqs!Cardinality(S) = n
    BY DEF Seqs!Cardinality, Cardinality
  <2>1. f = CHOOSE h \in [1 .. n -> S] : Seqs!IsInjective(h)
    BY <2>4 DEF Seqs!SetToSeq
  <2>2. \A h \in [1 .. n -> S] : Seqs!IsInjective(h) <=> Once(h)
    BY DEF Seqs!IsInjective
  <2> HIDE DEF f, n, Once
  <2>3. f \in [1 .. n -> S] /\ Seqs!IsInjective(f)
    BY <1>2, <2>1, <2>2
  <2> QED
    BY <2>2, <2>3
<1> HIDE DEF f
<1>4. f \in Injection(1 .. n, S)
  BY <1>3 DEF Injection, IsInjective
<1>5. IsFiniteSet(1 .. n) /\ Cardinality(1 .. n) = n
  BY <1>1, FS_Interval
<1>6. f \in Surjection(1 .. n, S)
  BY <1>4, <1>5, FS_Injection
<1>7. \A x \in S : \E i \in 1 .. n : f[i] = x
  BY <1>6 DEF Surjection
<1> QED
  BY <1>1, <1>3, <1>7 DEF f

\* What Allowances calls mine and ordered, and an agent's clause.
Mine(obs, a) == Profile(obs, a).tools \ Profile(obs, a).irreversible
Able(obs) == {a \in AgentsIn(obs) : Mine(obs, a) # {}}
InOrder(obs) == Seqs!SetToSeq(Able(obs))
AgentClause(obs, a) ==
  Clause(<<"allow", IF a = Nobody THEN Unattributed ELSE a>>, "allow",
         Mine(obs, a), Profile(obs, a).actions,
         IF a = Nobody THEN {Star} ELSE {a}, {Profile(obs, a).maxRisk})
ApprovalClause(obs) ==
  Clause(<<"irreversible-needs-a-human">>, "require_approval", AllIrreversible(obs), {Star}, {Star}, {})

\* How many clauses come before those of the agents.
Before(obs) == IF AllIrreversible(obs) = {} THEN 0 ELSE 1

\* Finitely many agents are seen, and have a clause.
LEMMA AgentsAreFew ==
  ASSUME NEW obs, Observed(obs)
  PROVE  IsFiniteSet(AgentsIn(obs)) /\ IsFiniteSet(Able(obs))
<1> DEFINE agent == [i \in DOMAIN obs |-> obs[i].agent]
<1>1. AgentsIn(obs) = {agent[i] : i \in DOMAIN obs}
  BY DEF AgentsIn
<1>2. IsFiniteSet({agent[i] : i \in DOMAIN obs})
  <2> HIDE DEF agent
  <2> QED
    BY ImageIsFinite DEF Observed
<1>3. Able(obs) \in SUBSET AgentsIn(obs)
  BY DEF Able
<1> QED
  BY <1>1, <1>2, <1>3, FS_Subset

\* Where the elements of two sequences are in the one joined of them.
LEMMA JoinedIs ==
  ASSUME NEW C, NEW s \in Seq(C), NEW t \in Seq(C)
  PROVE  /\ DOMAIN (s \o t) = 1 .. (Len(s) + Len(t))
         /\ \A i \in 1 .. Len(s) : (s \o t)[i] = s[i]
         /\ \A j \in 1 .. Len(t) : (s \o t)[Len(s) + j] = t[j]
<1>1. Len(s) \in Nat /\ Len(t) \in Nat
  OBVIOUS
<1>2. s \o t \in Seq(C) /\ Len(s \o t) = Len(s) + Len(t)
  BY ConcatProperties
<1>3. \A i \in 1 .. Len(s) + Len(t) :
        (s \o t)[i] = IF i <= Len(s) THEN s[i] ELSE t[i - Len(s)]
  BY ConcatProperties
<1>4. DOMAIN (s \o t) = 1 .. (Len(s) + Len(t))
  BY <1>2
<1>5. ASSUME NEW i \in 1 .. Len(s)
      PROVE  (s \o t)[i] = s[i]
  <2>1. i \in 1 .. Len(s) + Len(t) /\ i <= Len(s)
    BY <1>1
  <2> QED
    BY <1>3, <2>1
<1>6. ASSUME NEW j \in 1 .. Len(t)
      PROVE  (s \o t)[Len(s) + j] = t[j]
  <2>1. Len(s) + j \in 1 .. Len(s) + Len(t) /\ ~(Len(s) + j <= Len(s)) /\ (Len(s) + j) - Len(s) = j
    BY <1>1
  <2> QED
    BY <1>3, <2>1
<1> QED
  BY <1>4, <1>5, <1>6

\* The clauses: one for approval where some tool needs it, then one for each able agent.
LEMMA SuggestedIs ==
  ASSUME NEW obs, Observed(obs)
  PROVE  /\ Cardinality(Able(obs)) \in Nat /\ Before(obs) \in 0 .. 1
         /\ DOMAIN Suggested(obs) = 1 .. (Before(obs) + Cardinality(Able(obs)))
         /\ Before(obs) = 1 => Suggested(obs)[1] = ApprovalClause(obs)
         /\ \A j \in 1 .. Cardinality(Able(obs)) :
              /\ InOrder(obs)[j] \in Able(obs)
              /\ Suggested(obs)[Before(obs) + j] = AgentClause(obs, InOrder(obs)[j])
         /\ \A i, j \in 1 .. Cardinality(Able(obs)) : InOrder(obs)[i] = InOrder(obs)[j] => i = j
         /\ \A a \in Able(obs) : \E j \in 1 .. Cardinality(Able(obs)) : InOrder(obs)[j] = a
<1> DEFINE n == Cardinality(Able(obs))
           k == Before(obs)
           clauses == Allowances(obs)
           first == Approval(obs)
           C == {AgentClause(obs, a) : a \in Able(obs)} \cup {ApprovalClause(obs)}
<1>1. /\ n \in Nat
      /\ InOrder(obs) \in [1 .. n -> Able(obs)]
      /\ \A i, j \in 1 .. n : InOrder(obs)[i] = InOrder(obs)[j] => i = j
      /\ \A a \in Able(obs) : \E j \in 1 .. n : InOrder(obs)[j] = a
  BY AgentsAreFew, ListIs DEF InOrder
<1>2. clauses = [j \in 1 .. n |-> AgentClause(obs, InOrder(obs)[j])]
  <2>1. {a \in AgentsIn(obs) : Profile(obs, a).tools \ Profile(obs, a).irreversible # {}} = Able(obs)
    BY DEF Able, Mine
  <2>2. clauses = [j \in DOMAIN InOrder(obs) |-> AgentClause(obs, InOrder(obs)[j])]
    BY <2>1 DEF Allowances, InOrder, AgentClause, Mine
  <2> QED
    BY <1>1, <2>2
<1>3. clauses \in Seq(C) /\ Len(clauses) = n
  BY <1>1, <1>2
<1>4. k \in 0 .. 1
  BY DEF Before
<1>5. first \in Seq(C) /\ Len(first) = k /\ (k = 1 => first[1] = ApprovalClause(obs))
  <2>1. first = IF AllIrreversible(obs) = {} THEN <<>> ELSE <<ApprovalClause(obs)>>
    BY DEF Approval, ApprovalClause
  <2>2. ApprovalClause(obs) \in C
    OBVIOUS
  <2> HIDE DEF first, C
  <2>3. CASE AllIrreversible(obs) = {}
    BY <2>1, <2>3 DEF Before
  <2>4. CASE AllIrreversible(obs) # {}
    BY <2>1, <2>2, <2>4 DEF Before
  <2> QED
    BY <2>3, <2>4
<1>6. Suggested(obs) = first \o clauses
  BY DEF Suggested
<1> HIDE DEF first, clauses, C, n, k
<1>12. /\ DOMAIN (first \o clauses) = 1 .. (Len(first) + Len(clauses))
       /\ \A i \in 1 .. Len(first) : (first \o clauses)[i] = first[i]
       /\ \A j \in 1 .. Len(clauses) : (first \o clauses)[Len(first) + j] = clauses[j]
  <2>1. first \in Seq(C) /\ clauses \in Seq(C)
    BY <1>3, <1>5
  <2> QED
    BY <2>1, JoinedIs
<1>7. DOMAIN Suggested(obs) = 1 .. (k + n)
  BY <1>3, <1>5, <1>6, <1>12
<1>8. k = 1 => Suggested(obs)[1] = ApprovalClause(obs)
  BY <1>5, <1>6, <1>12
<1>9. \A j \in 1 .. n : Suggested(obs)[k + j] = clauses[j]
  BY <1>3, <1>5, <1>6, <1>12
<1>10. \A j \in 1 .. n : InOrder(obs)[j] \in Able(obs)
  BY <1>1
<1>11. \A j \in 1 .. n : Suggested(obs)[k + j] = AgentClause(obs, InOrder(obs)[j])
  BY <1>2, <1>9
<1> QED
  BY <1>1, <1>4, <1>7, <1>8, <1>10, <1>11 DEF n, k

\* The calls an agent's clause lets through, and those the approval clause stops.
Permits(obs, a, c) ==
  /\ MatchesAny(c.tool, Mine(obs, a)) /\ MatchesAny(c.action, Profile(obs, a).actions)
  /\ a = Nobody \/ c.agent \in Matches[a]
  /\ c.risk <= Profile(obs, a).maxRisk

NeedsApproval(obs, c) == MatchesAny(c.tool, AllIrreversible(obs))

\* A list of spelt names matches those names, and "*" every name.
LEMMA SpeltMatches ==
  ASSUME NEW S \in SUBSET (Patterns \ Globs), NEW name
  PROVE  MatchesAny(name, S) <=> name \in S
<1>1. \A p \in S : Matches[p] = {p}
  BY PolicyAssumption
<1> QED
  BY <1>1 DEF MatchesAny

LEMMA StarMatches ==
  ASSUME NEW name \in Names
  PROVE  MatchesAny(name, {Star})
BY PolicyAssumption DEF MatchesAny

\* Of names without wildcards, no tool or action of a clause is a glob.
LEMMA SpeltTools ==
  ASSUME NEW obs, Observed(obs), Literal(obs)
  PROVE  /\ \A a \in AgentsIn(obs) :
              /\ Mine(obs, a) \in SUBSET (Patterns \ Globs)
              /\ Profile(obs, a).actions \in SUBSET (Patterns \ Globs)
         /\ AllIrreversible(obs) \in SUBSET (Patterns \ Globs)
<1>1. ASSUME NEW a \in AgentsIn(obs)
      PROVE  /\ Profile(obs, a).tools \in SUBSET (Patterns \ Globs)
             /\ Profile(obs, a).actions \in SUBSET (Patterns \ Globs)
             /\ Profile(obs, a).irreversible \in SUBSET (Patterns \ Globs)
  BY AgentIs DEF Literal
<1> QED
  BY <1>1 DEF Mine, AllIrreversible

\* An agent's clause matches what it permits, and the approval clause every call of its tools.
LEMMA AgentClauseMatches ==
  ASSUME NEW obs, NEW a, NEW c, NEW kind, c.agent \in Names
  PROVE  BundleMatches(AgentClause(obs, a), c, kind) <=> Permits(obs, a, c)
<1> DEFINE r == AgentClause(obs, a)
<1>1. /\ r.tools = Mine(obs, a) /\ r.actions = Profile(obs, a).actions
      /\ r.agents = (IF a = Nobody THEN {Star} ELSE {a})
      /\ r.roles = {} /\ r.kinds = {} /\ r.floor = {} /\ r.minThreat = {} /\ r.minRisk = {}
      /\ r.maxRisk = {Profile(obs, a).maxRisk}
  BY DEF AgentClause, Clause
<1>2. MatchesAny(c.agent, r.agents) <=> (a = Nobody \/ c.agent \in Matches[a])
  <2>1. CASE a = Nobody
    BY <1>1, <2>1, StarMatches
  <2>2. CASE a # Nobody
    BY <1>1, <2>2 DEF MatchesAny
  <2> QED
    BY <2>1, <2>2
<1> HIDE DEF r
<1>3. BundleMatches(r, c, kind) <=>
        /\ MatchesAny(c.tool, r.tools) /\ MatchesAny(c.action, r.actions)
        /\ MatchesAny(c.agent, r.agents)
        /\ c.risk <= Profile(obs, a).maxRisk
  BY <1>1 DEF BundleMatches, Applies, Admits, AtLeast, AtMost
<1> QED
  BY <1>1, <1>2, <1>3 DEF Permits, r

LEMMA ApprovalMatches ==
  ASSUME NEW obs, NEW c, NEW kind, c.agent \in Names, c.action \in Names
  PROVE  BundleMatches(ApprovalClause(obs), c, kind) <=> NeedsApproval(obs, c)
<1> DEFINE r == ApprovalClause(obs)
<1>1. /\ r.tools = AllIrreversible(obs) /\ r.actions = {Star} /\ r.agents = {Star}
      /\ r.roles = {} /\ r.kinds = {} /\ r.floor = {} /\ r.minThreat = {} /\ r.minRisk = {}
      /\ r.maxRisk = {}
  BY DEF ApprovalClause, Clause
<1>2. MatchesAny(c.action, r.actions) /\ MatchesAny(c.agent, r.agents)
  BY <1>1, StarMatches
<1> HIDE DEF r
<1>3. BundleMatches(r, c, kind) <=> MatchesAny(c.tool, r.tools)
  BY <1>1, <1>2 DEF BundleMatches, Applies, Admits, AtLeast, AtMost
<1> QED
  BY <1>1, <1>3 DEF NeedsApproval, r

\* What a suggested policy answers: approval comes first, then the agents' clauses.
Answer(obs, c) ==
  IF NeedsApproval(obs, c) THEN "require_approval"
  ELSE IF \E a \in Able(obs) : Permits(obs, a, c) THEN "allow" ELSE "deny"

LEMMA VerdictIs ==
  ASSUME NEW obs, Observed(obs), NEW c, c.agent \in Names, c.action \in Names
  PROVE  BundleVerdict(Candidate(Suggested(obs)), c).effect = Answer(obs, c)
<1> DEFINE b == Candidate(Suggested(obs))
           s == Suggested(obs)
           kind == KindIn(b, c)
           hits == {i \in DOMAIN s : BundleMatches(s[i], c, kind)}
           k == Before(obs)
           n == Cardinality(Able(obs))
<1>1. b.rules = s /\ b.default = "deny"
  BY DEF Candidate, NoBundle
<1>2. BundleVerdict(b, c).effect = IF hits = {} THEN "deny" ELSE s[Lowest(hits)].effect
  <2>1. BundleVerdict(b, c) = Verdict(s, hits, "deny", kind)
    BY <1>1 DEF BundleVerdict, BundleHits
  <2> HIDE DEF hits, s, kind, b
  <2> QED
    BY <2>1 DEF Verdict
<1> HIDE DEF b, kind
<1>3. /\ n \in Nat /\ k \in 0 .. 1 /\ DOMAIN s = 1 .. (k + n)
      /\ k = 1 => s[1] = ApprovalClause(obs)
      /\ \A j \in 1 .. n : InOrder(obs)[j] \in Able(obs)
                           /\ s[k + j] = AgentClause(obs, InOrder(obs)[j])
      /\ \A a \in Able(obs) : \E j \in 1 .. n : InOrder(obs)[j] = a
  BY SuggestedIs
<1>4. hits \in SUBSET Nat
  BY <1>3
<1>5. hits # {} => Lowest(hits) \in hits /\ \A j \in hits : Lowest(hits) <= j
  <2> HIDE DEF hits
  <2> QED
    BY <1>4, LowestIs
<1>6. k = 1 => (1 \in hits <=> NeedsApproval(obs, c))
  <2>1. k = 1 => 1 \in DOMAIN s
    BY <1>3
  <2>2. k = 1 => (BundleMatches(s[1], c, kind) <=> NeedsApproval(obs, c))
    BY <1>3, ApprovalMatches
  <2> QED
    BY <2>1, <2>2
<1>7. \A j \in 1 .. n : k + j \in hits <=> Permits(obs, InOrder(obs)[j], c)
  <2> TAKE j \in 1 .. n
  <2>1. InOrder(obs)[j] \in AgentsIn(obs) /\ s[k + j] = AgentClause(obs, InOrder(obs)[j])
    BY <1>3 DEF Able
  <2>2. BundleMatches(s[k + j], c, kind) <=> Permits(obs, InOrder(obs)[j], c)
    BY <2>1, AgentClauseMatches
  <2>3. k + j \in DOMAIN s
    BY <1>3
  <2> QED
    BY <2>2, <2>3
<1>8. \A i \in hits : (k = 1 /\ i = 1) \/ \E j \in 1 .. n : i = k + j
  <2> TAKE i \in hits
  <2>1. i \in 1 .. (k + n)
    BY <1>3
  <2>2. i <= k => k = 1 /\ i = 1
    BY <1>3, <2>1
  <2>3. ~(i <= k) => i - k \in 1 .. n /\ i = k + (i - k)
    BY <1>3, <2>1
  <2> QED
    BY <2>2, <2>3
<1>9. ApprovalClause(obs).effect = "require_approval"
      /\ \A a : AgentClause(obs, a).effect = "allow"
  BY DEF ApprovalClause, AgentClause, Clause
<1> HIDE DEF hits, s, k, n
<1>10. CASE NeedsApproval(obs, c)
  <2>1. k = 1
    BY <1>10 DEF Before, k, NeedsApproval, MatchesAny
  <2>2. 1 \in hits
    BY <1>6, <1>10, <2>1
  <2>3. Lowest(hits) \in hits /\ Lowest(hits) <= 1
    BY <1>5, <2>2
  <2>4. Lowest(hits) = 1
    <3>1. \A j \in 1 .. n : k + j > 1
      BY <1>3, <2>1
    <3> QED
      BY <1>3, <1>8, <2>1, <2>3, <3>1
  <2>5. BundleVerdict(b, c).effect = "require_approval"
    BY <1>2, <1>3, <1>9, <2>1, <2>2, <2>4
  <2> QED
    BY <1>10, <2>5 DEF Answer, b, s
<1>11. CASE ~NeedsApproval(obs, c) /\ \E a \in Able(obs) : Permits(obs, a, c)
  <2>1. PICK a \in Able(obs) : Permits(obs, a, c)
    BY <1>11
  <2>2. PICK j \in 1 .. n : InOrder(obs)[j] = a
    BY <1>3
  <2>3. hits # {}
    BY <1>7, <2>1, <2>2
  <2>4. PICK i \in 1 .. n : Lowest(hits) = k + i
    BY <1>5, <1>6, <1>8, <1>11, <2>3
  <2>5. s[Lowest(hits)].effect = "allow"
    <3>1. s[k + i] = AgentClause(obs, InOrder(obs)[i])
      BY <1>3
    <3> QED
      BY <1>9, <2>4, <3>1
  <2> QED
    BY <1>2, <1>11, <2>3, <2>5 DEF Answer, b, s
<1>12. CASE ~NeedsApproval(obs, c) /\ ~\E a \in Able(obs) : Permits(obs, a, c)
  <2>1. hits = {}
    <3> SUFFICES ASSUME NEW i \in hits PROVE FALSE
      OBVIOUS
    <3>1. PICK j \in 1 .. n : i = k + j
      BY <1>6, <1>8, <1>12
    <3>2. InOrder(obs)[j] \in Able(obs) /\ Permits(obs, InOrder(obs)[j], c)
      BY <1>3, <1>7, <3>1
    <3> QED
      BY <1>12, <3>2
  <2> QED
    BY <1>2, <1>12, <2>1 DEF Answer, b, s
<1> QED
  BY <1>10, <1>11, <1>12

\* SuggestionIsTight, of any observations.
LEMMA SuggestionsAreTight ==
  ASSUME NEW obs, Observed(obs)
  PROVE  SuggestionIsTight(obs)
<1> SUFFICES ASSUME NEW c \in Calls, NEW tool \in ToolsIn(obs)
             PROVE  LET effect == BundleVerdict(Candidate(Suggested(obs)), [c EXCEPT !.tool = tool]).effect
                    IN /\ (\E t \in AllIrreversible(obs) : tool \in Matches[t]) =>
                            effect = "require_approval"
                       /\ effect = "allow" =>
                            \E a \in AgentsIn(obs) :
                              /\ a = Nobody \/ c.agent \in Matches[a]
                              /\ \E i \in Of(obs, a) : tool \in Matches[obs[i].tool]
                              /\ \E i \in Of(obs, a) : c.action \in Matches[obs[i].action]
                              /\ \E i \in Of(obs, a) : obs[i].risk >= c.risk
  BY DEF SuggestionIsTight
<1> DEFINE d == [c EXCEPT !.tool = tool]
           effect == BundleVerdict(Candidate(Suggested(obs)), d).effect
<1>1. /\ d.tool = tool /\ d.agent = c.agent /\ d.action = c.action /\ d.risk = c.risk
      /\ d.agent \in Names /\ d.action \in Names /\ d.risk \in Nat
  BY PolicyAssumption
<1> HIDE DEF d
<1>2. effect = Answer(obs, d)
  BY <1>1, VerdictIs
<1> HIDE DEF effect
<1>3. (\E t \in AllIrreversible(obs) : tool \in Matches[t]) => effect = "require_approval"
  BY <1>1, <1>2 DEF Answer, NeedsApproval, MatchesAny
<1>4. ASSUME effect = "allow"
      PROVE  \E a \in AgentsIn(obs) :
               /\ a = Nobody \/ c.agent \in Matches[a]
               /\ \E i \in Of(obs, a) : tool \in Matches[obs[i].tool]
               /\ \E i \in Of(obs, a) : c.action \in Matches[obs[i].action]
               /\ \E i \in Of(obs, a) : obs[i].risk >= c.risk
  <2>1. PICK a \in Able(obs) : Permits(obs, a, d)
    BY <1>2, <1>4 DEF Answer
  <2>2. a \in AgentsIn(obs) /\ (a = Nobody \/ c.agent \in Matches[a])
    BY <1>1, <2>1 DEF Able, Permits
  <2>3. /\ \E p \in Profile(obs, a).tools : tool \in Matches[p]
        /\ \E p \in Profile(obs, a).actions : c.action \in Matches[p]
        /\ c.risk <= Profile(obs, a).maxRisk
    BY <1>1, <2>1 DEF Permits, Mine, MatchesAny
  <2>4. /\ \E i \in Of(obs, a) : tool \in Matches[obs[i].tool]
        /\ \E i \in Of(obs, a) : c.action \in Matches[obs[i].action]
    BY <2>2, <2>3, AgentIs
  <2>5. \E i \in Of(obs, a) : obs[i].risk >= c.risk
    <3>1. PICK i \in Of(obs, a) : obs[i].risk = Profile(obs, a).maxRisk
      BY <2>2, AgentIs
    <3>2. Profile(obs, a).maxRisk \in Nat
      BY <2>2, AgentIs
    <3> QED
      BY <1>1, <2>3, <3>1, <3>2
  <2> QED
    BY <2>2, <2>4, <2>5
<1> QED
  BY <1>3, <1>4 DEF effect, d

-----------------------------------------------------------------------------
(* The replay.                                                             *)

\* Without wildcards, a recorded call is stopped exactly on a tool that needs approval: its
\* own agent's clause lets the others through.
LEMMA ReplayIs ==
  ASSUME NEW obs, Observed(obs), Literal(obs), NEW i \in DOMAIN obs
  PROVE  BundleVerdict(Candidate(Suggested(obs)), Replayed(obs[i])).effect =
           IF obs[i].tool \in AllIrreversible(obs) THEN "require_approval" ELSE "allow"
<1> DEFINE c == Replayed(obs[i])
           a == obs[i].agent
<1>1. c.tool = obs[i].tool /\ c.action = obs[i].action /\ c.agent = a /\ c.risk = obs[i].risk
  BY DEF Replayed
<1>2. c.agent \in Names /\ c.action \in Names
  BY <1>1, EstateAssumption DEF Observed
<1> HIDE DEF c
<1>3. BundleVerdict(Candidate(Suggested(obs)), c).effect = Answer(obs, c)
  BY <1>2, VerdictIs
<1>4. NeedsApproval(obs, c) <=> obs[i].tool \in AllIrreversible(obs)
  BY <1>1, SpeltTools, SpeltMatches DEF NeedsApproval
<1>5. CASE obs[i].tool \in AllIrreversible(obs)
  BY <1>3, <1>4, <1>5 DEF Answer, c
<1>6. CASE obs[i].tool \notin AllIrreversible(obs)
  <2>1. a \in AgentsIn(obs) /\ i \in Of(obs, a)
    BY CallIs
  <2>2. obs[i].tool \notin Profile(obs, a).irreversible
    BY <1>6, <2>1 DEF AllIrreversible
  <2>3. /\ obs[i].tool \in Profile(obs, a).tools /\ obs[i].action \in Profile(obs, a).actions
        /\ obs[i].risk <= Profile(obs, a).maxRisk
    BY <2>1, AgentIs
  <2>4. obs[i].tool \in Mine(obs, a)
    BY <2>2, <2>3 DEF Mine
  <2>5. MatchesAny(c.tool, Mine(obs, a)) /\ MatchesAny(c.action, Profile(obs, a).actions)
    BY <1>1, <2>1, <2>3, <2>4, SpeltTools, SpeltMatches
  <2>6. a = Nobody \/ c.agent \in Matches[a]
    BY <1>1, PolicyAssumption DEF Literal
  <2>7. a \in Able(obs) /\ Permits(obs, a, c)
    BY <1>1, <2>1, <2>3, <2>4, <2>5, <2>6 DEF Able, Permits
  <2>8. Answer(obs, c) = "allow"
    BY <1>4, <1>6, <2>7 DEF Answer
  <2> QED
    BY <1>3, <1>6, <2>8 DEF c
<1> QED
  BY <1>5, <1>6

\* The tool, action and agent of a call, and the calls of a list that have them.
KeyAt(obs, i) == <<obs[i].tool, obs[i].action, obs[i].agent>>
Alike(obs, X, key) == {j \in X : KeyAt(obs, j) = key}

\* A row for each key, with the number of its calls and the verdicts of one of them.
LEMMA RowsAre ==
  ASSUME NEW obs, Observed(obs), NEW X \in SUBSET DOMAIN obs, NEW b
  PROVE  /\ IsFiniteSet(Rows(obs, X, b))
         /\ \A row \in Rows(obs, X, b) :
              /\ row.calls = Cardinality(Alike(obs, X, row.key))
              /\ \E i \in X : /\ row.key = KeyAt(obs, i) /\ row.was = obs[i].effect
                              /\ row.now = BundleVerdict(b, Replayed(obs[i])).effect
         /\ \A p, q \in Rows(obs, X, b) : p.key = q.key => p = q
         /\ \A i \in X : \E row \in Rows(obs, X, b) : row.key = KeyAt(obs, i)
<1> DEFINE RowAt(i) ==
             [key |-> KeyAt(obs, i), was |-> obs[i].effect,
              now |-> BundleVerdict(b, Replayed(obs[i])).effect,
              calls |-> Cardinality(Alike(obs, X, KeyAt(obs, i)))]
           first == {i \in X : \A j \in X : KeyAt(obs, j) = KeyAt(obs, i) => i <= j}
           row == [i \in first |-> RowAt(i)]
<1>1. Rows(obs, X, b) = {RowAt(i) : i \in first}
  BY DEF Rows, KeyAt, Alike
<1>2. Rows(obs, X, b) = {row[i] : i \in first}
  <2> HIDE DEF RowAt, first
  <2> QED
    BY <1>1
<1>3. IsFiniteSet(first)
  <2>1. first \in SUBSET DOMAIN obs
    OBVIOUS
  <2> QED
    BY <2>1, FS_Subset DEF Observed
<1>4. IsFiniteSet({row[i] : i \in first})
  <2> HIDE DEF row, first
  <2> QED
    BY <1>3, ImageIsFinite
<1>5. \A i \in first : /\ RowAt(i).key = KeyAt(obs, i) /\ RowAt(i).was = obs[i].effect
                       /\ RowAt(i).now = BundleVerdict(b, Replayed(obs[i])).effect
                       /\ RowAt(i).calls = Cardinality(Alike(obs, X, RowAt(i).key))
  OBVIOUS
<1>6. first \in SUBSET X /\ X \in SUBSET Nat
  BY DEF Observed
<1>7. \A i, j \in first : KeyAt(obs, i) = KeyAt(obs, j) => i = j
  <2> TAKE i, j \in first
  <2> HAVE KeyAt(obs, i) = KeyAt(obs, j)
  <2>1. i <= j /\ j <= i
    OBVIOUS
  <2>2. i \in Nat /\ j \in Nat
    BY <1>6
  <2> QED
    BY <2>1, <2>2
<1>8. \A i \in X : \E j \in first : KeyAt(obs, j) = KeyAt(obs, i)
  <2> TAKE i \in X
  <2> DEFINE S == Alike(obs, X, KeyAt(obs, i))
             j == Lowest(S)
  <2>1. S \in SUBSET Nat /\ i \in S
    BY <1>6 DEF Alike
  <2>2. j \in S /\ \A m \in S : j <= m
    <3> HIDE DEF S
    <3> QED
      BY <2>1, LowestIs
  <2> HIDE DEF j
  <2>3. j \in X /\ KeyAt(obs, j) = KeyAt(obs, i)
        /\ \A m \in X : KeyAt(obs, m) = KeyAt(obs, i) => j <= m
    BY <2>2 DEF Alike
  <2> QED
    BY <2>3
<1> HIDE DEF RowAt, first, row
<1>9. \A p \in Rows(obs, X, b) :
        /\ p.calls = Cardinality(Alike(obs, X, p.key))
        /\ \E i \in X : /\ p.key = KeyAt(obs, i) /\ p.was = obs[i].effect
                        /\ p.now = BundleVerdict(b, Replayed(obs[i])).effect
  BY <1>1, <1>5, <1>6
<1>10. \A p, q \in Rows(obs, X, b) : p.key = q.key => p = q
  BY <1>1, <1>5, <1>7
<1>11. \A i \in X : \E p \in Rows(obs, X, b) : p.key = KeyAt(obs, i)
  BY <1>1, <1>5, <1>8
<1> QED
  BY <1>2, <1>4, <1>9, <1>10, <1>11

\* ReplayIsExact, of observations without wildcards.
LEMMA ReplaysAreExact ==
  ASSUME NEW obs, Observed(obs), Literal(obs)
  PROVE  ReplayIsExact(obs)
<1> DEFINE b == Candidate(Suggested(obs))
           X == NewlyBlocked(obs, b)
           Y == NewlyAllowed(obs, b)
           rx == Rows(obs, X, b)
           ry == Rows(obs, Y, b)
           rows == rx \cup ry
           Stops(i) == obs[i].tool \in AllIrreversible(obs)
           calls == [row \in rows |-> row.calls]
           Part == [row \in rows |-> IF row.was = "allow" THEN Alike(obs, X, row.key)
                                     ELSE Alike(obs, Y, row.key)]
<1> HIDE DEF b
<1>1. \A i \in DOMAIN obs :
        BundleVerdict(b, Replayed(obs[i])).effect = IF Stops(i) THEN "require_approval" ELSE "allow"
  BY ReplayIs DEF b
<1>2. X = {i \in DOMAIN obs : WasAllowed(obs[i]) /\ Stops(i)}
      /\ Y = {i \in DOMAIN obs : ~WasAllowed(obs[i]) /\ ~Stops(i)}
  <2>1. \A i \in DOMAIN obs :
          (BundleVerdict(b, Replayed(obs[i])).effect = "allow") <=> ~Stops(i)
    BY <1>1
  <2> HIDE DEF Stops
  <2>2. Changed(obs, b) = {i \in DOMAIN obs : (~Stops(i)) # WasAllowed(obs[i])}
    BY <2>1 DEF Changed, WasAllowed
  <2>3. \A i \in DOMAIN obs : WasAllowed(obs[i]) \in BOOLEAN /\ Stops(i) \in BOOLEAN
    BY DEF WasAllowed, Stops
  <2> QED
    BY <2>2, <2>3 DEF NewlyBlocked, NewlyAllowed
<1>3. X \in SUBSET DOMAIN obs /\ Y \in SUBSET DOMAIN obs /\ X \cap Y = {}
  BY <1>2
<1>4. \A i \in X : obs[i].effect = "allow" /\ BundleVerdict(b, Replayed(obs[i])).effect = "require_approval"
  BY <1>1, <1>2 DEF WasAllowed
<1>5. \A i \in Y : obs[i].effect # "allow" /\ BundleVerdict(b, Replayed(obs[i])).effect = "allow"
  BY <1>1, <1>2 DEF WasAllowed
<1> HIDE DEF X, Y
<1>6. /\ IsFiniteSet(rx)
      /\ \A row \in rx : row.calls = Cardinality(Alike(obs, X, row.key))
                         /\ row.was = "allow" /\ row.now = "require_approval"
      /\ \A p, q \in rx : p.key = q.key => p = q
      /\ \A i \in X : \E row \in rx : row.key = KeyAt(obs, i)
  <2>1. /\ IsFiniteSet(rx)
        /\ \A row \in rx :
             /\ row.calls = Cardinality(Alike(obs, X, row.key))
             /\ \E i \in X : /\ row.key = KeyAt(obs, i) /\ row.was = obs[i].effect
                            /\ row.now = BundleVerdict(b, Replayed(obs[i])).effect
        /\ \A p, q \in rx : p.key = q.key => p = q
        /\ \A i \in X : \E row \in rx : row.key = KeyAt(obs, i)
    BY <1>3, RowsAre
  <2> HIDE DEF rx
  <2>2. \A row \in rx : row.was = "allow" /\ row.now = "require_approval"
    BY <1>4, <2>1
  <2> QED
    BY <2>1, <2>2
<1>7. /\ IsFiniteSet(ry)
      /\ \A row \in ry : row.calls = Cardinality(Alike(obs, Y, row.key))
                         /\ row.was # "allow" /\ row.now = "allow"
      /\ \A p, q \in ry : p.key = q.key => p = q
      /\ \A i \in Y : \E row \in ry : row.key = KeyAt(obs, i)
  <2>1. /\ IsFiniteSet(ry)
        /\ \A row \in ry :
             /\ row.calls = Cardinality(Alike(obs, Y, row.key))
             /\ \E i \in Y : /\ row.key = KeyAt(obs, i) /\ row.was = obs[i].effect
                            /\ row.now = BundleVerdict(b, Replayed(obs[i])).effect
        /\ \A p, q \in ry : p.key = q.key => p = q
        /\ \A i \in Y : \E row \in ry : row.key = KeyAt(obs, i)
    BY <1>3, RowsAre
  <2> HIDE DEF ry
  <2>2. \A row \in ry : row.was # "allow" /\ row.now = "allow"
    BY <1>5, <2>1
  <2> QED
    BY <2>1, <2>2
<1> HIDE DEF rx, ry
<1>8. IsFiniteSet(rows)
  BY <1>6, <1>7, FS_Union
<1>9. IsFiniteSet(X) /\ IsFiniteSet(Y)
  BY <1>3, FS_Subset DEF Observed
<1>10. \A key : IsFiniteSet(Alike(obs, X, key)) /\ IsFiniteSet(Alike(obs, Y, key))
  <2> TAKE key
  <2>1. Alike(obs, X, key) \in SUBSET X /\ Alike(obs, Y, key) \in SUBSET Y
    BY DEF Alike
  <2> QED
    BY <1>9, <2>1, FS_Subset
<1>11. \A row \in rows : IsFiniteSet(Part[row]) /\ calls[row] = Cardinality(Part[row])
  BY <1>6, <1>7, <1>10
<1>12. \A p, q \in rows : p # q => Part[p] \cap Part[q] = {}
  <2> TAKE p, q \in rows
  <2> SUFFICES ASSUME NEW i \in Part[p] \cap Part[q] PROVE p = q
    OBVIOUS
  <2>1. CASE p \in rx /\ q \in rx
    <3>1. i \in Alike(obs, X, p.key) /\ i \in Alike(obs, X, q.key)
      BY <1>6, <2>1
    <3> QED
      BY <1>6, <2>1, <3>1 DEF Alike
  <2>2. CASE p \in ry /\ q \in ry
    <3>1. i \in Alike(obs, Y, p.key) /\ i \in Alike(obs, Y, q.key)
      BY <1>7, <2>2
    <3> QED
      BY <1>7, <2>2, <3>1 DEF Alike
  <2>3. CASE (p \in rx /\ q \in ry) \/ (p \in ry /\ q \in rx)
    <3>1. i \in X /\ i \in Y
      BY <1>6, <1>7, <2>3 DEF Alike
    <3> QED
      BY <1>3, <3>1
  <2> QED
    BY <2>1, <2>2, <2>3
<1>13. UNION {Part[row] : row \in rows} = X \cup Y
  <2>1. \A row \in rows : Part[row] \subseteq X \cup Y
    BY DEF Alike
  <2>2. ASSUME NEW i \in X
        PROVE  \E row \in rows : i \in Part[row]
    <3>1. PICK row \in rx : row.key = KeyAt(obs, i)
      BY <1>6
    <3>2. Part[row] = Alike(obs, X, row.key)
      BY <1>6
    <3>3. i \in Alike(obs, X, row.key)
      BY <3>1 DEF Alike
    <3> QED
      BY <3>2, <3>3
  <2>3. ASSUME NEW i \in Y
        PROVE  \E row \in rows : i \in Part[row]
    <3>1. PICK row \in ry : row.key = KeyAt(obs, i)
      BY <1>7
    <3>2. Part[row] = Alike(obs, Y, row.key)
      BY <1>7
    <3>3. i \in Alike(obs, Y, row.key)
      BY <3>1 DEF Alike
    <3> QED
      BY <3>2, <3>3
  <2> HIDE DEF Part, rows
  <2> QED
    BY <2>1, <2>2, <2>3
<1>14. Cardinality(UNION {Part[row] : row \in rows}) = TotalOf(calls, rows)
  <2> HIDE DEF Part, rows, calls
  <2> QED
    BY <1>8, <1>11, <1>12, TotalCounts
<1>15. Cardinality(X \cup Y) = TotalOf([row \in rows |-> row.calls], rows)
  BY <1>13, <1>14
<1> QED
  BY <1>2, <1>6, <1>7, <1>15 DEF ReplayIsExact, b, X, Y, rx, ry

-----------------------------------------------------------------------------
(* What the reports say of each other.                                     *)

\* The inventory's last postures are among those seen.
LEMMA InventoryIsSeen ==
  ASSUME NEW obs, Observed(obs)
  PROVE  InventoryIrreversible(obs) \subseteq AllIrreversible(obs)
<1> SUFFICES ASSUME NEW t \in InventoryIrreversible(obs)
             PROVE  t \in AllIrreversible(obs)
  OBVIOUS
<1> DEFINE S == {i \in DOMAIN obs : obs[i].tool = t}
<1>1. t \in ToolsIn(obs) /\ IsOneWay(obs[Highest(S)].posture)
  BY DEF InventoryIrreversible
<1>2. S \in SUBSET DOMAIN obs /\ S # {}
  BY <1>1 DEF ToolsIn
<1>3. S \in SUBSET Nat /\ IsFiniteSet(S)
  BY <1>2, FS_Subset DEF Observed
<1>4. Highest(S) \in S
  <2> HIDE DEF S
  <2> QED
    BY <1>2, <1>3, HighestIs
<1>5. Highest(S) \in DOMAIN obs /\ obs[Highest(S)].tool = t
  BY <1>4
<1> QED
  BY <1>1, <1>5, CallIs

\* A tool is mine for its users only, unless one of them used it one way.
LEMMA UsersAre ==
  ASSUME NEW obs, NEW t, NEW a \in AgentsIn(obs)
  PROVE  /\ t \in Profile(obs, a).tools <=> a \in UsersOf(obs, t)
         /\ t \in Profile(obs, a).irreversible => a \in UsersOf(obs, t)
<1>1. t \in Profile(obs, a).tools <=> \E i \in Of(obs, a) : obs[i].tool = t
  BY DEF Profile
<1>2. a \in UsersOf(obs, t) <=> \E i \in DOMAIN obs : obs[i].tool = t /\ obs[i].agent = a
  BY DEF UsersOf
<1>3. t \in Profile(obs, a).irreversible => \E i \in Of(obs, a) : obs[i].tool = t
  BY DEF Profile
<1>4. \A i : i \in Of(obs, a) <=> i \in DOMAIN obs /\ obs[i].agent = a
  BY DEF Of
<1> QED
  BY <1>1, <1>2, <1>3, <1>4

\* A tool of one agent is in one clause: of that agent, or of those that need approval.
LEMMA OneClauseEach ==
  ASSUME NEW obs, Observed(obs), NEW t \in SingleAgentTools(obs)
  PROVE  Cardinality({i \in DOMAIN Suggested(obs) : t \in Suggested(obs)[i].tools}) = 1
<1> DEFINE s == Suggested(obs)
           naming == {i \in DOMAIN s : t \in s[i].tools}
           users == UsersOf(obs, t)
           k == Before(obs)
           n == Cardinality(Able(obs))
<1>1. t \in ToolsIn(obs) /\ Cardinality(users) = 1
  BY DEF SingleAgentTools
<1>2. IsFiniteSet(users) /\ users \in SUBSET AgentsIn(obs)
  <2>1. users \in SUBSET AgentsIn(obs)
    BY DEF UsersOf, AgentsIn
  <2> QED
    BY <2>1, AgentsAreFew, FS_Subset
<1>3. PICK u : users = {u}
  BY <1>1, <1>2, FS_Singleton
<1>4. u \in AgentsIn(obs)
  BY <1>2, <1>3
<1>5. \A a \in AgentsIn(obs) : t \in Profile(obs, a).tools <=> a = u
  BY <1>3, UsersAre
<1>6. \A a \in AgentsIn(obs) : t \in Profile(obs, a).irreversible => a = u
  BY <1>3, UsersAre
<1>7. t \in AllIrreversible(obs) <=> t \in Profile(obs, u).irreversible
  BY <1>4, <1>6 DEF AllIrreversible
<1>8. \A a \in Able(obs) : t \in Mine(obs, a) <=> a = u /\ t \notin AllIrreversible(obs)
  BY <1>4, <1>5, <1>7 DEF Able, Mine
<1>9. /\ n \in Nat /\ k \in 0 .. 1 /\ DOMAIN s = 1 .. (k + n)
      /\ k = 1 => s[1] = ApprovalClause(obs)
      /\ \A j \in 1 .. n : InOrder(obs)[j] \in Able(obs)
                           /\ s[k + j] = AgentClause(obs, InOrder(obs)[j])
      /\ \A i, j \in 1 .. n : InOrder(obs)[i] = InOrder(obs)[j] => i = j
      /\ \A a \in Able(obs) : \E j \in 1 .. n : InOrder(obs)[j] = a
  BY SuggestedIs
<1>10. \A a : AgentClause(obs, a).tools = Mine(obs, a)
  BY DEF AgentClause, Clause
<1>11. ApprovalClause(obs).tools = AllIrreversible(obs)
  BY DEF ApprovalClause, Clause
<1> HIDE DEF users
<1>12. \A i \in DOMAIN s : (k = 1 /\ i = 1) \/ \E j \in 1 .. n : i = k + j
  <2> TAKE i \in DOMAIN s
  <2>1. i \in 1 .. (k + n)
    BY <1>9
  <2>2. i <= k => k = 1 /\ i = 1
    BY <1>9, <2>1
  <2>3. ~(i <= k) => i - k \in 1 .. n /\ i = k + (i - k)
    BY <1>9, <2>1
  <2> QED
    BY <2>2, <2>3
<1>13. \A j \in 1 .. n : k + j \in DOMAIN s
  BY <1>9
<1>14. \A j \in 1 .. n : t \in s[k + j].tools <=> InOrder(obs)[j] = u /\ t \notin AllIrreversible(obs)
  BY <1>8, <1>9, <1>10
<1>15. \E i : naming = {i}
  <2> HIDE DEF s, k, n
  <2>1. CASE t \in AllIrreversible(obs)
    <3>1. k = 1
      BY <2>1 DEF Before, k
    <3>2. 1 \in DOMAIN s /\ t \in s[1].tools
      BY <1>9, <1>11, <2>1, <3>1
    <3>3. \A i \in naming : i = 1
      BY <1>12, <1>14, <2>1
    <3>4. naming = {1}
      BY <3>2, <3>3
    <3> QED
      BY <3>4
  <2>2. CASE t \notin AllIrreversible(obs)
    <3>1. u \in Able(obs)
      BY <1>4, <1>5, <1>7, <2>2 DEF Able, Mine
    <3>2. PICK j \in 1 .. n : InOrder(obs)[j] = u
      BY <1>9, <3>1
    <3>3. k + j \in naming
      BY <1>13, <1>14, <2>2, <3>2
    <3>4. ASSUME NEW i \in naming
          PROVE  i = k + j
      <4>1. ~(k = 1 /\ i = 1)
        BY <1>9, <1>11, <2>2
      <4>2. PICK m \in 1 .. n : i = k + m
        BY <1>12, <4>1
      <4>3. InOrder(obs)[m] = u
        BY <1>14, <4>2
      <4>4. m = j
        BY <1>9, <3>2, <4>3
      <4> QED
        BY <4>2, <4>4
    <3>5. naming = {k + j}
      BY <3>3, <3>4
    <3> QED
      BY <3>5
  <2> QED
    BY <2>1, <2>2
<1> HIDE DEF naming
<1>16. Cardinality(naming) = 1
  BY <1>15, FS_Singleton
<1> QED
  BY <1>16 DEF naming

\* An agent's exposure is at least 1 for each call and 8 for a call nothing can undo.
LEMMA ExposureIs ==
  ASSUME NEW obs, Observed(obs), NEW a \in AgentsIn(obs)
  PROVE  LET e == Exposure(obs, a)
         IN /\ e.consequence >= e.calls + 7 * e.irreversibleCalls
            /\ e.irreversibleCalls = 0 <=> Profile(obs, a).irreversible = {}
<1> DEFINE calls == Of(obs, a)
           weight == [i \in calls |-> Weight(obs[i].posture)]
           oneWay == {i \in calls : obs[i].posture \in {"irreversible", "unknown"}}
           e == Exposure(obs, a)
<1>1. /\ e.calls = Cardinality(calls) /\ e.consequence = TotalOf(weight, calls)
      /\ e.irreversibleCalls = Cardinality(oneWay)
  BY DEF Exposure
<1>2. IsFiniteSet(calls) /\ oneWay \in SUBSET calls
  BY AgentIs
<1>3. \A kind : Weight(kind) \in {1, 3, 8}
  BY DEF Weight
<1>4. Weight("irreversible") = 8 /\ Weight("unknown") = 8
  BY DEF Weight
<1>5. \A i \in calls : weight[i] \in Nat /\ weight[i] >= 1
  <2> TAKE i \in calls
  <2>1. weight[i] \in {1, 3, 8}
    BY <1>3
  <2> HIDE DEF weight
  <2> QED
    BY <2>1
<1>6. \A i \in oneWay : weight[i] >= 8
  <2> TAKE i \in oneWay
  <2>1. weight[i] = 8
    BY <1>4
  <2> HIDE DEF weight
  <2> QED
    BY <2>1
<1>7. TotalOf(weight, calls) >= Cardinality(calls) + 7 * Cardinality(oneWay)
  <2> HIDE DEF weight, calls, oneWay
  <2> QED
    BY <1>2, <1>5, <1>6, TotalAtLeast
<1>8. IsFiniteSet(oneWay)
  BY <1>2, FS_Subset
<1>9. Cardinality(oneWay) = 0 <=> oneWay = {}
  <2> HIDE DEF oneWay
  <2> QED
    BY <1>8, FS_EmptySet
<1>10. Profile(obs, a).irreversible = {obs[i].tool : i \in oneWay}
  BY AgentIs DEF IsOneWay
<1>11. Profile(obs, a).irreversible = {} <=> oneWay = {}
  <2> HIDE DEF oneWay
  <2> QED
    BY <1>10
<1> QED
  BY <1>1, <1>7, <1>9, <1>11

\* Two clauses have one id only where an agent has the name of unattributed callers.
LEMMA ClausesAreNamedApart ==
  ASSUME NEW obs, Observed(obs), ~({Nobody, Unattributed} \subseteq AgentsIn(obs)),
         NEW i \in DOMAIN Suggested(obs), NEW j \in DOMAIN Suggested(obs),
         Suggested(obs)[i].id = Suggested(obs)[j].id
  PROVE  i = j
<1> DEFINE s == Suggested(obs)
           k == Before(obs)
           n == Cardinality(Able(obs))
           Label(a) == <<"allow", IF a = Nobody THEN Unattributed ELSE a>>
<1>1. /\ n \in Nat /\ k \in 0 .. 1 /\ DOMAIN s = 1 .. (k + n)
      /\ k = 1 => s[1] = ApprovalClause(obs)
      /\ \A m \in 1 .. n : InOrder(obs)[m] \in Able(obs)
                           /\ s[k + m] = AgentClause(obs, InOrder(obs)[m])
      /\ \A l, m \in 1 .. n : InOrder(obs)[l] = InOrder(obs)[m] => l = m
  BY SuggestedIs
<1>2. ApprovalClause(obs).id = <<"irreversible-needs-a-human">>
      /\ \A a : AgentClause(obs, a).id = Label(a)
  BY DEF ApprovalClause, AgentClause, Clause
<1>3. \A a, d \in Able(obs) : Label(a) = Label(d) => a = d
  <2>1. \A a, d \in Able(obs) : Label(a) = Label(d) =>
          (IF a = Nobody THEN Unattributed ELSE a) = (IF d = Nobody THEN Unattributed ELSE d)
    OBVIOUS
  <2> HIDE DEF Label
  <2> QED
    BY <2>1 DEF Able
<1>4. \A a : Label(a) # <<"irreversible-needs-a-human">>
  OBVIOUS
<1> HIDE DEF s, k, n, Label
<1>5. \A m \in DOMAIN s : (k = 1 /\ m = 1) \/ \E l \in 1 .. n : m = k + l
  <2> TAKE m \in DOMAIN s
  <2>1. m \in 1 .. (k + n)
    BY <1>1
  <2>2. m <= k => k = 1 /\ m = 1
    BY <1>1, <2>1
  <2>3. ~(m <= k) => m - k \in 1 .. n /\ m = k + (m - k)
    BY <1>1, <2>1
  <2> QED
    BY <2>2, <2>3
<1>6. s[i].id = s[j].id /\ i \in DOMAIN s /\ j \in DOMAIN s
  BY DEF s
<1>7. \A l \in 1 .. n : s[k + l].id = Label(InOrder(obs)[l])
  BY <1>1, <1>2
<1>8. CASE (k = 1 /\ i = 1) \/ (k = 1 /\ j = 1)
  <2>1. k = 1 => s[1].id = <<"irreversible-needs-a-human">>
    BY <1>1, <1>2
  <2> QED
    BY <1>4, <1>5, <1>6, <1>7, <1>8, <2>1
<1>9. CASE ~(k = 1 /\ i = 1) /\ ~(k = 1 /\ j = 1)
  <2>1. PICK l \in 1 .. n : i = k + l
    BY <1>5, <1>6, <1>9
  <2>2. PICK m \in 1 .. n : j = k + m
    BY <1>5, <1>6, <1>9
  <2>3. InOrder(obs)[l] = InOrder(obs)[m]
    BY <1>1, <1>3, <1>6, <1>7, <2>1, <2>2
  <2> QED
    BY <1>1, <2>1, <2>2, <2>3
<1> QED
  BY <1>8, <1>9

\* ReportsConcur, of any observations.
LEMMA ReportsDoConcur ==
  ASSUME NEW obs, Observed(obs)
  PROVE  ReportsConcur(obs)
<1>1. \A a \in AgentsIn(obs) :
        LET e == Exposure(obs, a)
        IN /\ e.consequence >= e.calls + 7 * e.irreversibleCalls
           /\ e.irreversibleCalls = 0 <=> Profile(obs, a).irreversible = {}
  BY ExposureIs
<1>2. \A t \in SingleAgentTools(obs) :
        Cardinality({i \in DOMAIN Suggested(obs) : t \in Suggested(obs)[i].tools}) = 1
  BY OneClauseEach
<1>3. ~({Nobody, Unattributed} \subseteq AgentsIn(obs)) =>
        \A i, j \in DOMAIN Suggested(obs) : Suggested(obs)[i].id = Suggested(obs)[j].id => i = j
  BY ClausesAreNamedApart
<1> QED
  BY <1>1, <1>2, <1>3, InventoryIsSeen DEF ReportsConcur

-----------------------------------------------------------------------------
(* The analyses.                                                           *)

\* What is read out of the enforcer's journal is consistent, and what is suggested is safe
\* to try, whatever the journal holds, torn lines and names with wildcards included: a
\* suggested policy lets nothing through that nobody was seen to do undoably, up to what a
\* recorded name takes in as a pattern; the reports agree with each other, and the
\* suggestion loads unless an agent is named as unattributed callers are; and where no
\* recorded name has a wildcard, replaying it stops exactly the recorded calls of the tools
\* it sets to approval, and the rows of the replay account for every change.  An on-chain
\* action has time left exactly while something can be done about it, but for one that is
\* pending and irreversible.
THEOREM AnalysesStayRight == ESpec => []AnalysesAreRight
<1>1. EInit => traffic \in Seq(Lines)
  BY DEF EInit
<1>2. traffic \in Seq(Lines) /\ [ENext]_<<vars, traffic>> => (traffic \in Seq(Lines))'
  BY DEF ENext, Record
<1>3. traffic \in Seq(Lines) => AnalysesAreRight
  <2> SUFFICES ASSUME traffic \in Seq(Lines) PROVE AnalysesAreRight
    OBVIOUS
  <2> DEFINE obs == Read(traffic)
  <2>1. Observed(obs)
    BY ReadIs
  <2> HIDE DEF obs
  <2>2. SuggestionIsTight(obs) /\ (Literal(obs) => ReplayIsExact(obs)) /\ ReportsConcur(obs)
    BY <2>1, SuggestionsAreTight, ReplaysAreExact, ReportsDoConcur
  <2> QED
    BY <2>2, FinalityHolds DEF AnalysesAreRight, TrafficIsReadRight, obs
<1> QED
  BY <1>1, <1>2, <1>3, PTL DEF ESpec
=============================================================================
