--------------------------- MODULE PolicyDecision ---------------------------
(***************************************************************************)
(* One policy, three evaluators and a prover: the Python gate              *)
(* (src/src/revoco/gate), the bundle that recoup compiles from it with its *)
(* reference evaluator (src/recoup/recoup/bundle.py), the Go enforcer      *)
(* (src/recoup/internal/decision), and the search for unreachable rules    *)
(* and holes (src/recoup/recoup/prove.py).                                 *)
(*                                                                         *)
(* Specs are registered and a policy is loaded, both are compiled, and an  *)
(* enforcer is started with the result.  A pattern is translated into a    *)
(* regular expression twice, by CPython's fnmatch and by the enforcer's    *)
(* copy of it (fnmatch.go); an optional number of a rule is a set with at  *)
(* most one element.  A condition is what it evaluates to on the call.     *)
(***************************************************************************)
EXTENDS Reversibility, Integers, FiniteSets

CONSTANTS
  Names,        \* names of tools, actions and agents
  Patterns,     \* patterns of rules and specs, exact names among them
  Star,         \* the pattern "*"
  Unmatched,    \* a name no pattern but Star matches: the prover's last witness
  Spelling,     \* the pieces of each pattern
  Spelt,        \* the characters of each name, as numbers
  Globs,        \* the patterns with one of * ? [
  WitnessOf,    \* the prover's name for each pattern it has one for
  Roles,        \* role names, as numbers in the order of sorting
  RuleIds,
  RawRules,     \* rules a policy file may hold
  Specs,        \* inverse specs, as far as classification looks: tool and kind
  Calls,        \* calls; posture is what the control plane says, or "" for none
  RoleCap,      \* cap of _role_sets
  MaxRules, MaxSpecs

-----------------------------------------------------------------------------
(* Patterns.  Both translations cut a pattern into the same pieces: a run  *)
(* ("*"), one character ("?"), a class.  A character is a class of its     *)
(* own, and a class is its ranges, read from left to right.                *)

Pieces == [kind : {"run", "one", "class"}, negated : BOOLEAN, ranges : SUBSET (Nat \X Nat)]

Reversed(range) == range[1] > range[2]

\* fnmatch.translate: a range that is empty is dropped.  Of a class with nothing left
\* it makes "(?!)", which never matches, and of a negated one ".".
PyTranslate(pieces) ==
  [i \in DOMAIN pieces |-> [pieces[i] EXCEPT !.ranges = {r \in @ : ~Reversed(r)}]]

\* Fault: the leading "!" of a class is not rewritten.
Unnegated(pieces) == [i \in DOMAIN pieces |-> [pieces[i] EXCEPT !.negated = FALSE]]

\* translate of fnmatch.go: a class is copied as it stands, with "^" for "!".
GoTranslate(pieces) == pieces

\* regexp.Compile refuses a range that is empty.
Compiles(pieces) == \A i \in DOMAIN pieces : \A r \in pieces[i].ranges : ~Reversed(r)

Takes(piece, char) ==
  piece.kind = "one" \/ piece.negated # (\E r \in piece.ranges : char \in r[1] .. r[2])

\* What both regular expression engines answer: whether the pieces from x[1] on match the
\* text from x[2] on.
Accepts(pieces, text) ==
  LET rest[x \in (1 .. Len(pieces) + 1) \X (1 .. Len(text) + 1)] ==
        IF x[1] > Len(pieces) THEN x[2] > Len(text)
        ELSE IF pieces[x[1]].kind = "run"
        THEN rest[<<x[1] + 1, x[2]>>] \/ (x[2] <= Len(text) /\ rest[<<x[1], x[2] + 1>>])
        ELSE /\ x[2] <= Len(text) /\ Takes(pieces[x[1]], text[x[2]])
             /\ rest[<<x[1] + 1, x[2] + 1>>]
  IN rest[<<1, 1>>]

\* fnmatchcase, and FnMatch of fnmatch.go: what does not compile matches nothing.
Matches == [p \in Patterns |-> {n \in Names : Accepts(PyTranslate(Spelling[p]), Spelt[n])}]

FnMatch ==
  [p \in Patterns |->
     {n \in Names : LET compiled == GoTranslate(Spelling[p])
                    IN Compiles(compiled) /\ Accepts(compiled, Spelt[n])}]

\* No range in the pattern is empty.
Orderly(p) == Compiles(Spelling[p])

-----------------------------------------------------------------------------

Effects == {"allow", "deny", "require_approval", "redact"}

Optional(S) == {n \in SUBSET S : Cardinality(n) <= 1}

Rules ==
  [id : RuleIds, effect : Effects, tools : SUBSET Patterns, actions : SUBSET Patterns,
   agents : SUBSET Patterns, roles : SUBSET Roles, kinds : SUBSET Kinds,
   floor : Optional(Kinds), minThreat : Optional(Nat), minRisk : Optional(Nat),
   maxRisk : Optional(Nat), when : BOOLEAN, budget : BOOLEAN, redacts : BOOLEAN]

\* A witness may only match a pattern that takes in the whole of the pattern it
\* stands for: the filler is "unlikely to be matched by accident".
ASSUME PolicyAssumption ==
  /\ Spelling \in [Patterns -> Seq(Pieces)] /\ Spelt \in [Names -> Seq(Nat)]
  /\ Globs \subseteq Patterns
  /\ Star \in Globs /\ Matches[Star] = Names /\ Orderly(Star)
  /\ \A p \in Patterns \ Globs : Matches[p] = {p}
  /\ Unmatched \in Names /\ \A p \in Patterns \ {Star} : Unmatched \notin Matches[p]
  /\ DOMAIN WitnessOf \subseteq Patterns \ {Star}
  /\ \A p \in DOMAIN WitnessOf :
       WitnessOf[p] \in Matches[p]
       /\ \A q \in Patterns : WitnessOf[p] \in Matches[q] => Matches[p] \subseteq Matches[q]
  /\ Roles \subseteq Nat /\ RoleCap \in Nat \ {0} /\ MaxRules \in Nat /\ MaxSpecs \in Nat
  /\ RawRules \subseteq
       [id : RuleIds, effect : STRING, tools : SUBSET Patterns, actions : SUBSET Patterns,
        agents : SUBSET Patterns, roles : SUBSET Roles, kinds : SUBSET STRING,
        floor : Optional(STRING), minThreat : Optional(Nat), minRisk : Optional(Nat),
        maxRisk : Optional(Nat), when : BOOLEAN, budget : BOOLEAN, redacts : BOOLEAN]
  /\ \A s \in Specs : s.tool \in Patterns /\ s.kind \in Kinds
  /\ Calls \subseteq
       [tool : Names, action : Names, agent : Names, roles : SUBSET Roles, risk : Nat,
        threat : Nat, posture : STRING, meets : BOOLEAN]

VARIABLES
  registered,  \* history: the specs, as they were registered
  exact,       \* InverseRegistry._exact: a set of specs with different tools
  globs,       \* InverseRegistry._globs
  policy,      \* Policy.rules
  default,     \* Policy.default_effect
  bundle,      \* the compiled bundle, if any
  served       \* how the enforcer identifies agents, once it has started

vars == <<registered, exact, globs, policy, default, bundle, served>>

NoBundle == [rules |-> <<>>, default |-> "deny", exact |-> {}, globs |-> <<>>, built |-> FALSE]

Lowest(S) == CHOOSE i \in S : \A j \in S : i <= j

MatchesAny(name, pats) == \E p \in pats : name \in Matches[p]

-----------------------------------------------------------------------------
(* The registry.                                                           *)

\* Fault: the pattern keeps its old spec, and the new one comes behind it.
KeepOld(gs, spec) == Append(gs, spec)

\* A pattern registered again loses its place: what stood behind it moves up, and the new
\* spec comes last.  No pattern is in the list twice.
Replaced(gs, spec) ==
  IF \A i \in DOMAIN gs : gs[i].tool # spec.tool THEN Append(gs, spec)
  ELSE LET at == CHOOSE i \in DOMAIN gs : gs[i].tool = spec.tool
       IN [i \in DOMAIN gs |->
             IF i < at THEN gs[i] ELSE IF i < Len(gs) THEN gs[i + 1] ELSE spec]

\* InverseRegistry.register
Register(spec) ==
  /\ ~bundle.built /\ policy = <<>> /\ Len(registered) < MaxSpecs
  /\ registered' = Append(registered, spec)
  /\ IF spec.tool \in Globs
     THEN globs' = Replaced(globs, spec) /\ UNCHANGED exact
     ELSE exact' = {s \in exact : s.tool # spec.tool} \cup {spec} /\ UNCHANGED globs
  /\ UNCHANGED <<policy, default, bundle, served>>

\* An exact name, else the first pattern, else unknown.
LookUp(ex, gs, tool, hits) ==
  IF \E s \in ex : s.tool = tool THEN (CHOOSE s \in ex : s.tool = tool).kind
  ELSE IF hits # {} THEN gs[Lowest(hits)].kind ELSE "unknown"

\* InverseRegistry.get and classify, and the bundle's copy of them.
Classify(ex, gs, tool) ==
  LookUp(ex, gs, tool, {i \in DOMAIN gs : tool \in Matches[gs[i].tool]})

\* Bundle.Classify of decision.go
GoClassify(ex, gs, tool) ==
  LookUp(ex, gs, tool, {i \in DOMAIN gs : tool \in FnMatch[gs[i].tool]})

-----------------------------------------------------------------------------
(* Loading a policy.                                                       *)

\* _parse_rule
Refuses(raw) ==
  \/ raw.effect \notin Effects
  \/ ~(raw.kinds \cup raw.floor \subseteq Kinds)
  \/ raw.kinds # {} /\ raw.floor # {}
  \/ raw.effect = "redact" /\ ~raw.redacts

\* Fields that say nothing match everything.
Parsed(raw) ==
  LET orStar(pats) == IF pats = {} THEN {Star} ELSE pats
  IN [raw EXCEPT !.tools = orStar(@), !.actions = orStar(@), !.agents = orStar(@)]

\* load_policy: all of the rules or none.
Load(raws, effect) ==
  /\ policy = <<>> /\ ~bundle.built
  /\ \A i \in DOMAIN raws : ~Refuses(raws[i])
  /\ \A i, j \in DOMAIN raws : raws[i].id = raws[j].id => i = j
  /\ policy' = [i \in DOMAIN raws |-> Parsed(raws[i])]
  /\ default' = effect
  /\ UNCHANGED <<registered, exact, globs, bundle, served>>

-----------------------------------------------------------------------------
(* Compiling it.                                                           *)

\* _rule_to_dict refuses what the enforcer could not decide.
Portable(rule) == ~rule.when /\ ~rule.budget

\* compile_bundle
Compile ==
  /\ policy # <<>> /\ ~bundle.built
  /\ \A i \in DOMAIN policy : Portable(policy[i])
  /\ bundle' = [rules |-> policy, default |-> default, exact |-> exact, globs |-> globs,
                built |-> TRUE]
  /\ UNCHANGED <<registered, exact, globs, policy, default, served>>

\* Bundle validation in decision.Load, for what a compiler can write.
Acceptable(b) ==
  \A i \in DOMAIN b.rules : b.rules[i].floor # {} => b.rules[i].kinds = {}

\* DependsOnAgentIdentity
DependsOnAgent(b) == {i \in DOMAIN b.rules : \E p \in b.rules[i].agents : p # Star}

\* main: the enforcer starts or refuses to.
Serve(identity) ==
  /\ bundle.built /\ served = "down"
  /\ Acceptable(bundle)
  /\ identity = "unverified" => DependsOnAgent(bundle) = {}
  /\ served' = identity
  /\ UNCHANGED <<registered, exact, globs, policy, default, bundle>>

-----------------------------------------------------------------------------
(* The evaluators.                                                         *)

AtLeast(opt, n) == \A min \in opt : n >= min
AtMost(opt, n) == \A max \in opt : n <= max

\* Roles and thresholds.
Admits(r, c) ==
  /\ r.roles \subseteq c.roles
  /\ AtLeast(r.minThreat, c.threat)
  /\ AtLeast(r.minRisk, c.risk) /\ AtMost(r.maxRisk, c.risk)

\* What the Python matchers agree on.
Applies(r, c) ==
  /\ MatchesAny(c.tool, r.tools) /\ MatchesAny(c.action, r.actions)
  /\ MatchesAny(c.agent, r.agents)
  /\ Admits(r, c)

\* PolicyEngine._rule_matches; the posture is one of Kinds.  room: what the budget
\* answers is the subject of ExposureBudget.
GateMatches(r, c, kind) ==
  /\ Applies(r, c)
  /\ \A floor \in r.floor : Rank[kind] >= Rank[floor]
  /\ r.kinds # {} => kind \in r.kinds
  /\ r.when => c.meets

\* evaluate of bundle.py and _matches of prove.py: a posture that has no rank is
\* below every floor.
BundleMatches(r, c, kind) ==
  /\ Applies(r, c)
  /\ \A floor \in r.floor : (IF kind \in Kinds THEN Rank[kind] ELSE -1) >= Rank[floor]
  /\ r.kinds # {} => kind \in r.kinds

\* matchAny of fnmatch.go
GoMatchesAny(name, pats) == \E p \in pats : name \in FnMatch[p]

\* Rule.matches of decision.go: it must be in the map to be compared.
GoMatches(r, c, kind) ==
  /\ GoMatchesAny(c.tool, r.tools) /\ GoMatchesAny(c.action, r.actions)
  /\ GoMatchesAny(c.agent, r.agents)
  /\ Admits(r, c)
  /\ \A floor \in r.floor : kind \in Kinds /\ Rank[kind] >= Rank[floor]
  /\ r.kinds = {} \/ kind \in r.kinds

\* The first rule that matches decides, else the default.
Verdict(rules, hits, effect, kind) ==
  IF hits = {} THEN [effect |-> effect, rule |-> "__default__", kind |-> kind]
  ELSE [effect |-> rules[Lowest(hits)].effect, rule |-> rules[Lowest(hits)].id, kind |-> kind]

\* PolicyEngine.evaluate, after ReversalEngine.classify.
GateVerdict(c) ==
  LET kind == IF c.posture = "" THEN Classify(exact, globs, c.tool) ELSE c.posture
  IN Verdict(policy, {i \in DOMAIN policy : GateMatches(policy[i], c, kind)}, default, kind)

KindIn(b, c) == IF c.posture = "" THEN Classify(b.exact, b.globs, c.tool) ELSE c.posture

BundleHits(b, c, kind) == {i \in DOMAIN b.rules : BundleMatches(b.rules[i], c, kind)}
GoHits(b, c, kind) == {i \in DOMAIN b.rules : GoMatches(b.rules[i], c, kind)}

\* evaluate of bundle.py
BundleVerdict(b, c) ==
  LET kind == KindIn(b, c) IN Verdict(b.rules, BundleHits(b, c, kind), b.default, kind)

\* Bundle.Evaluate of decision.go
GoVerdict(b, c) ==
  LET kind == IF c.posture = "" THEN GoClassify(b.exact, b.globs, c.tool) ELSE c.posture
  IN Verdict(b.rules, GoHits(b, c, kind), b.default, kind)

-----------------------------------------------------------------------------
(* The prover.                                                             *)

RulesOf(b) == {b.rules[i] : i \in DOMAIN b.rules}

\* Fault: names of the registry that no rule spells are not tried.
RuleNames(pats, literals) == {WitnessOf[p] : p \in pats \cap DOMAIN WitnessOf} \cup {Unmatched}

\* _glob_witnesses
NameWitnesses(pats, literals) ==
  literals \cup {WitnessOf[p] : p \in pats \cap DOMAIN WitnessOf} \cup {Unmatched}

\* _thresholds
Thresholds(opts) == {0} \cup ((UNION {{t - 1, t, t + 1} : t \in opts}) \cap Nat)

\* The order of sorted tuples of role names.
SortsBefore(A, B) ==
  \E r \in Roles :
    /\ {x \in A : x < r} = {x \in B : x < r}
    /\ \/ r \in A \ B /\ \E x \in B : x > r
       \/ r \in B \ A /\ ~\E x \in A : x > r

\* Role combinations: no role, what each rule asks for, all of it together.
Combinations(b) ==
  {{}} \cup {r.roles : r \in RulesOf(b)} \cup {UNION {r.roles : r \in RulesOf(b)}}

\* _role_sets: the first RoleCap of them.
RoleSets(b) ==
  {S \in Combinations(b) :
     Cardinality({T \in Combinations(b) : SortsBefore(T, S)}) < RoleCap}

\* witnesses
Witnesses(b) ==
  LET rs == RulesOf(b)
  IN [tool : NameWitnesses(UNION {r.tools : r \in rs}, {s.tool : s \in b.exact}),
      action : NameWitnesses(UNION {r.actions : r \in rs}, {"read", "write"}),
      agent : NameWitnesses(UNION {r.agents : r \in rs}, {}),
      roles : RoleSets(b),
      risk : Thresholds(UNION {r.minRisk \cup r.maxRisk : r \in rs}),
      threat : Thresholds(UNION {r.minThreat : r \in rs}),
      posture : Kinds, meets : {FALSE}]

\* Report.complete
Complete(b) ==
  \A r \in RulesOf(b) : r.tools \cup r.actions \cup r.agents \subseteq DOMAIN WitnessOf \cup {Star}

Deciding(b, c) == BundleVerdict(b, c).rule

\* Rules that no witness reaches, if the search was complete.
Unreachable(b) ==
  IF Complete(b)
  THEN {r.id : r \in RulesOf(b)} \ {Deciding(b, w) : w \in Witnesses(b)} ELSE {}

Hole(b, c) == BundleVerdict(b, c).effect = "allow" /\ IsOneWay(KindIn(b, c))

\* Rules, or the default, that allow what nothing can undo.
Holes(b) == {Deciding(b, w) : w \in {v \in Witnesses(b) : Hole(b, v)}}

\* Holes some witness reaches with the posture the bundle itself gives its tool.
DirectHoles(b) ==
  {Deciding(b, w) : w \in {v \in Witnesses(b) :
     Hole(b, v) /\ v.posture = Classify(b.exact, b.globs, v.tool)}}

-----------------------------------------------------------------------------

Init ==
  /\ registered = <<>> /\ exact = {} /\ globs = <<>>
  /\ policy = <<>> /\ default = "deny"
  /\ bundle = NoBundle
  /\ served = "down"

PolicyFiles == UNION {[1 .. n -> RawRules] : n \in 1 .. MaxRules}

Next ==
  \/ \E spec \in Specs : Register(spec)
  \/ \E raws \in PolicyFiles, effect \in {"allow", "deny"} : Load(raws, effect)
  \/ Compile
  \/ \E identity \in {"unverified", "trusted-network"} : Serve(identity)

Spec == Init /\ [][Next]_vars

-----------------------------------------------------------------------------
(* Properties.                                                             *)

TypeOK ==
  /\ registered \in Seq(Specs)
  /\ exact \subseteq Specs /\ \A s, t \in exact : s.tool = t.tool => s = t
  /\ globs \in Seq(Specs)
  /\ \A i, j \in DOMAIN globs : globs[i].tool = globs[j].tool => i = j
  /\ \A i \in DOMAIN policy : policy[i] \in Rules /\ policy[i].tools # {}
  /\ default \in Effects
  /\ bundle.built => bundle.rules = policy
  /\ served \in {"down", "unverified", "trusted-network"}

\* The last registration of each pattern or name.
Latest == {i \in DOMAIN registered :
             \A j \in DOMAIN registered : registered[j].tool = registered[i].tool => j <= i}

\* The registry against its history: an exact name decides over every pattern, and
\* of the patterns the one whose latest registration is oldest, with the posture it
\* was registered with last.  Nothing of a replaced spec is ever looked up again.
LatestSpecDecides ==
  \A tool \in Names :
    LET named == {i \in Latest : registered[i].tool = tool /\ tool \notin Globs}
        broad == {i \in Latest : registered[i].tool \in Globs
                                 /\ tool \in Matches[registered[i].tool]}
    IN Classify(exact, globs, tool) =
         IF named # {} THEN registered[Lowest(named)].kind
         ELSE IF broad # {} THEN registered[Lowest(broad)].kind ELSE "unknown"

\* Every pattern of a bundle.
PatternsOf(b) ==
  (UNION {r.tools \cup r.actions \cup r.agents : r \in RulesOf(b)})
    \cup {b.globs[i].tool : i \in DOMAIN b.globs}

\* The bundle's evaluator gives every call the verdict that the gate gives it, by the same
\* rule and on the same posture, whatever specs were registered, in whatever order, and
\* whatever the rules say.  So does the enforcer, as long as no pattern has an empty range;
\* also a posture no evaluator knows gets one verdict.  With such a range the enforcer may
\* miss a rule, and on a given posture it never applies one that the gate would not.
SameVerdict ==
  bundle.built => \A c \in Calls :
    /\ c.posture \in Kinds \cup {""} => BundleVerdict(bundle, c) = GateVerdict(c)
    /\ (\A p \in PatternsOf(bundle) : Orderly(p)) => GoVerdict(bundle, c) = BundleVerdict(bundle, c)
    /\ c.posture # "" => GoHits(bundle, c, c.posture) \subseteq BundleHits(bundle, c, c.posture)

\* What a loaded policy compiles to, the enforcer does not refuse as malformed.
CompiledIsAcceptable == bundle.built => Acceptable(bundle)

\* A caller cannot choose its rule: an enforcer that takes the agent's id from the
\* request gives the same verdict whatever id is claimed.
IdentityNeverSelects ==
  served = "unverified" => \A c \in Calls, agent \in {d.agent : d \in Calls} :
    GoVerdict(bundle, c) = GoVerdict(bundle, [c EXCEPT !.agent = agent])

Known == {c \in Calls : c.posture \in Kinds \cup {""}}

\* Claimed by prove.py: a rule reported as unreachable cannot fire, on any call of a
\* posture the policy language knows.
NeverAccused ==
  bundle.built => Unreachable(bundle) \cap {Deciding(bundle, c) : c \in Known} = {}

\* A rule reported as unreachable decides no call of a known posture at all, not only
\* none of the witnesses, as long as no combination of roles was cut off: deleting it
\* changes no verdict on such a call.
UnreachableIsTrue ==
  RoleSets(bundle) = Combinations(bundle) => NeverAccused

\* The cases in which nothing limits the report: every pattern has a witness and no
\* combination of roles was cut off.
Covered(b) == b.built /\ Complete(b) /\ RoleSets(b) = Combinations(b)

\* No hole is missed: a rule or a default that allows some call nothing can undo is
\* in the report; and, as long as the registry has only exact names, a hole that the
\* bundle's own postures open is not reported as one that needs the control plane to
\* disagree with the bundle.
HolesAreReported ==
  Covered(bundle) =>
    LET open == {c \in Calls : Hole(bundle, c)}
    IN /\ {Deciding(bundle, c) : c \in open} \subseteq Holes(bundle)
       /\ bundle.globs = <<>> =>
            {Deciding(bundle, c) : c \in {d \in open : d.posture = ""}}
              \subseteq DirectHoles(bundle) \cup {"__default__"}

\* The evaluators agree, the caller's claims change nothing, and the enforcer takes
\* what the compiler wrote.
VerdictsAgree == SameVerdict /\ IdentityNeverSelects /\ CompiledIsAcceptable

\* The types, and the prover's report in both directions.
ReportIsRight == TypeOK /\ UnreachableIsTrue /\ HolesAreReported
=============================================================================
