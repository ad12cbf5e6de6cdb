--------------------------- MODULE EstateAnalysis ---------------------------
(***************************************************************************)
(* What recoup reads out of recorded traffic (src/recoup/recoup/analyse.py)*)
(* with the evaluator of PolicyDecision: the inventory, who depends on     *)
(* which tool, the consequence of each agent's calls, the suggested policy *)
(* and the replay of the traffic against it.                               *)
(*                                                                         *)
(* The enforcer's journal grows line by line; a line may be torn.  Each    *)
(* report is a function of the lines read so far, and the suggestion goes  *)
(* back into the policy language: the interest is in what the reports say  *)
(* of each other.  Recorded names are written into it as they are, and are *)
(* patterns there.  The lists of the reports are sets here, since their    *)
(* order is layout; percentages, dates and top-n cuts are left out.        *)
(***************************************************************************)
EXTENDS PolicyDecision, OnChainFinality, Sequences

Sets == INSTANCE FiniteSetsExt
Seqs == INSTANCE SequencesExt

CONSTANTS
  Lines,        \* observations a journal may hold, and Torn
  Torn,         \* a line that does not parse
  Nobody,       \* the empty agent id
  Unattributed, \* what a clause for the empty agent id is named after
  MaxLines

ASSUME EstateAssumption ==
  /\ MaxLines \in Nat /\ Torn \in Lines
  /\ Nobody \in Names \ {Unattributed}
  /\ \A o \in Lines \ {Torn} :
       /\ {o.tool, o.action} \subseteq Patterns \cap Names
       /\ o.agent \in (Patterns \cap Names) \cup {Nobody}
       /\ o.risk \in Nat /\ o.posture \in Kinds /\ o.effect \in Effects

VARIABLE traffic  \* the journal file

Record(line) ==
  /\ registered = <<>> /\ policy = <<>> /\ Len(traffic) < MaxLines
  /\ traffic' = Append(traffic, line)
  /\ UNCHANGED vars

ENext ==
  \/ \E line \in Lines : Record(line)
  \/ traffic = <<>> /\ Next /\ UNCHANGED traffic

EInit == Init /\ traffic = <<>>

ESpec == EInit /\ [][ENext]_<<vars, traffic>>

-----------------------------------------------------------------------------
(* The reports, over the observations obs.                                 *)

\* read skips what does not parse; an observation is known by its line.
Read(lines) == [i \in {j \in DOMAIN lines : lines[j] # Torn} |-> lines[i]]

\* The policy's answer, also where shadow mode let the call through.
WasAllowed(o) == o.effect = "allow"

ToolsIn(obs) == {obs[i].tool : i \in DOMAIN obs}
AgentsIn(obs) == {obs[i].agent : i \in DOMAIN obs}
Of(obs, agent) == {i \in DOMAIN obs : obs[i].agent = agent}

Highest(S) == CHOOSE n \in S : \A m \in S : m <= n

\* CONSEQUENCE_WEIGHT; a posture it does not list weighs as unknown.
Weight(kind) == CASE kind = "reversible" -> 1 [] kind = "compensable" -> 3 [] OTHER -> 8

TotalOf(f, S) == Sets!MapThenSumSet(LAMBDA x : f[x], S)

\* AgentProfile, and the agent's row in suggest.
Profile(obs, agent) ==
  LET calls == Of(obs, agent)
      oneWay == {i \in calls : IsOneWay(obs[i].posture)}
  IN [calls |-> Cardinality(calls),
      tools |-> {obs[i].tool : i \in calls},
      actions |-> {obs[i].action : i \in calls},
      maxRisk |-> Highest({obs[i].risk : i \in calls}),
      irreversible |-> {obs[i].tool : i \in oneWay}]

\* The agent's row in consequence_budget; the posture is read anew.
Exposure(obs, agent) ==
  LET calls == Of(obs, agent)
  IN [calls |-> Cardinality(calls),
      consequence |-> TotalOf([i \in calls |-> Weight(obs[i].posture)], calls),
      irreversibleCalls |->
        Cardinality({i \in calls : obs[i].posture \in {"irreversible", "unknown"}})]

\* inventory: a tool has the posture it was seen with last.
InventoryIrreversible(obs) ==
  {t \in ToolsIn(obs) :
     IsOneWay(obs[Highest({i \in DOMAIN obs : obs[i].tool = t})].posture)}

\* dependencies
UsersOf(obs, tool) == {obs[i].agent : i \in {j \in DOMAIN obs : obs[j].tool = tool}}
SingleAgentTools(obs) == {t \in ToolsIn(obs) : Cardinality(UsersOf(obs, t)) = 1}

\* The tools some agent was seen to use in a way that nothing can undo.
AllIrreversible(obs) == UNION {Profile(obs, a).irreversible : a \in AgentsIn(obs)}

Clause(id, effect, tools, actions, agents, maxRisk) ==
  [id |-> id, effect |-> effect, tools |-> tools, actions |-> actions, agents |-> agents,
   roles |-> {}, kinds |-> {}, floor |-> {}, minThreat |-> {}, minRisk |-> {},
   maxRisk |-> maxRisk, when |-> FALSE, budget |-> FALSE, redacts |-> FALSE]

Approval(obs) ==
  IF AllIrreversible(obs) = {} THEN <<>>
  ELSE << Clause(<<"irreversible-needs-a-human">>, "require_approval",
                 AllIrreversible(obs), {Star}, {Star}, {}) >>

\* One clause for each agent: the tools the agent itself was seen to use in a way that
\* can be undone each time, with every action it was seen to use on any tool.
Allowances(obs) ==
  LET mine(a) == Profile(obs, a).tools \ Profile(obs, a).irreversible
      ordered == Seqs!SetToSeq({a \in AgentsIn(obs) : mine(a) # {}})
  IN [i \in DOMAIN ordered |->
        LET a == ordered[i]
        IN Clause(<<"allow", IF a = Nobody THEN Unattributed ELSE a>>, "allow",
                  mine(a), Profile(obs, a).actions,
                  IF a = Nobody THEN {Star} ELSE {a}, {Profile(obs, a).maxRisk})]

\* Faults: the approval clause comes last; each agent's clause has all its tools.
ApprovalLast(obs) == Allowances(obs) \o Approval(obs)

\* suggest
Suggested(obs) == Approval(obs) \o Allowances(obs)

\* simulate asks with the recorded posture, and without a threat score.
Replayed(o) ==
  [tool |-> o.tool, action |-> o.action, agent |-> o.agent, roles |-> {}, risk |-> o.risk,
   threat |-> 0, posture |-> o.posture, meets |-> FALSE]

Candidate(rules) == [NoBundle EXCEPT !.rules = rules, !.built = TRUE]

\* simulate
Changed(obs, b) ==
  {i \in DOMAIN obs : (BundleVerdict(b, Replayed(obs[i])).effect = "allow") # WasAllowed(obs[i])}
NewlyBlocked(obs, b) == {i \in Changed(obs, b) : WasAllowed(obs[i])}
NewlyAllowed(obs, b) == Changed(obs, b) \ NewlyBlocked(obs, b)

\* The rows of a list of changes: one for each tool, action and agent, with the
\* verdicts of the first of its calls.
Rows(obs, changes, b) ==
  LET key(i) == <<obs[i].tool, obs[i].action, obs[i].agent>>
      first == {i \in changes : \A j \in changes : key(j) = key(i) => i <= j}
  IN {[key |-> key(i), was |-> obs[i].effect,
       now |-> BundleVerdict(b, Replayed(obs[i])).effect,
       calls |-> Cardinality({j \in changes : key(j) = key(i)})] : i \in first}

-----------------------------------------------------------------------------
(* Properties.                                                             *)

\* A suggested policy lets nothing through on a tool that anyone was seen to use in a
\* way nothing can undo, whoever calls and whatever the recorded postures were
\* elsewhere; and on the others no more than the actions and risks the caller, or
\* unattributed callers, were seen with: where a recorded name has a wildcard in it, no
\* more than that name takes in as a pattern.
SuggestionIsTight(obs) ==
  LET b == Candidate(Suggested(obs))
  IN \A c \in Calls, tool \in ToolsIn(obs) :
       LET effect == BundleVerdict(b, [c EXCEPT !.tool = tool]).effect
       IN /\ (\E t \in AllIrreversible(obs) : tool \in Matches[t]) => effect = "require_approval"
          /\ effect = "allow" =>
               \E a \in AgentsIn(obs) :
                 /\ a = Nobody \/ c.agent \in Matches[a]
                 /\ \E i \in Of(obs, a) : tool \in Matches[obs[i].tool]
                 /\ \E i \in Of(obs, a) : c.action \in Matches[obs[i].action]
                 /\ \E i \in Of(obs, a) : obs[i].risk >= c.risk

\* No recorded name has a wildcard in it.
Literal(obs) ==
  \A i \in DOMAIN obs : /\ {obs[i].tool, obs[i].action} \subseteq Patterns \ Globs
                        /\ obs[i].agent \in (Patterns \ Globs) \cup {Nobody}

\* Of names without wildcards: turning the suggestion on breaks only calls of tools that
\* are set to approval, and allows what was refused only on the others; each row of the
\* replay's lists has one verdict for all of its calls, and the rows account for every
\* change.
ReplayIsExact(obs) ==
  LET b == Candidate(Suggested(obs))
      blocked == NewlyBlocked(obs, b)
      opened == NewlyAllowed(obs, b)
      rows == Rows(obs, blocked, b) \cup Rows(obs, opened, b)
  IN /\ blocked = {i \in DOMAIN obs : WasAllowed(obs[i]) /\ obs[i].tool \in AllIrreversible(obs)}
     /\ opened = {i \in DOMAIN obs : ~WasAllowed(obs[i]) /\ obs[i].tool \notin AllIrreversible(obs)}
     /\ \A row \in Rows(obs, blocked, b) : row.was = "allow" /\ row.now = "require_approval"
     /\ \A row \in Rows(obs, opened, b) : row.was # "allow" /\ row.now = "allow"
     /\ Cardinality(blocked \cup opened) = TotalOf([row \in rows |-> row.calls], rows)

\* The reports concur: what the inventory lists as irreversible needs approval (the
\* converse fails where the posture of a tool changed); a tool of one agent is named by
\* exactly one clause; the clauses have different ids, so that the suggestion loads,
\* unless an agent has the name given to unattributed callers; and an agent's exposure
\* stands for its one-way calls.
ReportsConcur(obs) ==
  /\ InventoryIrreversible(obs) \subseteq AllIrreversible(obs)
  /\ \A t \in SingleAgentTools(obs) :
       Cardinality({i \in DOMAIN Suggested(obs) : t \in Suggested(obs)[i].tools}) = 1
  /\ ~({Nobody, Unattributed} \subseteq AgentsIn(obs)) =>
       \A i, j \in DOMAIN Suggested(obs) : Suggested(obs)[i].id = Suggested(obs)[j].id => i = j
  /\ \A a \in AgentsIn(obs) :
       LET e == Exposure(obs, a)
       IN /\ e.consequence >= e.calls + 7 * e.irreversibleCalls
          /\ e.irreversibleCalls = 0 <=> Profile(obs, a).irreversible = {}

\* What is read out of the traffic is consistent, and what is suggested is safe to try.
TrafficIsReadRight ==
  LET obs == Read(traffic)
  IN SuggestionIsTight(obs) /\ (Literal(obs) => ReplayIsExact(obs)) /\ ReportsConcur(obs)

\* The reports on recorded traffic, and those on transactions, which are the same in every
\* state and evaluated in one.
AnalysesAreRight ==
  TrafficIsReadRight /\ (traffic = <<>> /\ registered = <<>> /\ policy = <<>> => FinalityIsHonest)
=============================================================================
