--------------------------- MODULE PolicyDecisionMC ---------------------------
(* A policy of up to two rules over a registry of up to two specs, or a      *)
(* journal of up to three lines.                                             *)
EXTENDS EstateAnalysis

Text == {"*", "pay*", "p?[!b-d]", "p[az-b]y", "p[!z-a]y", "pay", "read", "write", "bot", "unattributed"}

CONSTANT torn

Named == {"", "*", "pay", "payroll", "payZq7", "read", "write", "bot", "unattributed",
          "Zq7-unmatched-by-anything"}

\* Letters by their place in the alphabet, and one number for a word of its own.
Lettered ==
  [n \in Named |-> CASE n = "" -> <<>> [] n = "pay" -> <<16, 1, 25>>
                     [] n = "payroll" -> <<16, 1, 25, 18, 15, 12, 12>>
                     [] n = "payZq7" -> <<16, 1, 25, 91>> [] n = "read" -> <<18, 5, 1, 4>>
                     [] n = "write" -> <<23, 18, 9, 20, 5>> [] n = "bot" -> <<2, 15, 20>>
                     [] n = "unattributed" -> <<92>> [] n = "*" -> <<42>>
                     [] OTHER -> <<91, 93>>]

Class(negated, ranges) == [kind |-> "class", negated |-> negated, ranges |-> ranges]
Exactly(char) == Class(FALSE, {<<char, char>>})
Run == [kind |-> "run", negated |-> FALSE, ranges |-> {}]
One == [Run EXCEPT !.kind = "one"]

Spelled ==
  [p \in Text |->
     CASE p = "*" -> <<Run>>
       [] p = "pay*" -> <<Exactly(16), Exactly(1), Exactly(25), Run>>
       [] p = "p?[!b-d]" -> <<Exactly(16), One, Class(TRUE, {<<2, 4>>})>>
       [] p = "p[az-b]y" -> <<Exactly(16), Class(FALSE, {<<1, 1>>, <<26, 2>>}), Exactly(25)>>
       [] p = "p[!z-a]y" -> <<Exactly(16), Class(TRUE, {<<26, 1>>}), Exactly(25)>>
       [] OTHER -> [i \in DOMAIN Lettered[p] |-> Exactly(Lettered[p][i])]]

Filled == [p \in {"pay*", "pay", "read", "write", "bot", "unattributed"} |-> IF p = "pay*" THEN "payZq7" ELSE p]

Any ==
  [id |-> "any", effect |-> "allow", tools |-> {}, actions |-> {"*"}, agents |-> {"*"},
   roles |-> {}, kinds |-> {}, floor |-> {}, minThreat |-> {}, minRisk |-> {},
   maxRisk |-> {}, when |-> FALSE, budget |-> FALSE, redacts |-> FALSE]

Written ==
  {Any,
   [Any EXCEPT !.id = "undoable", !.tools = {"pay*"}, !.floor = {"compensable"}],
   [Any EXCEPT !.id = "final", !.tools = {"pay*"}, !.kinds = {"irreversible"}, !.minRisk = {1}],
   [Any EXCEPT !.id = "known", !.effect = "require_approval", !.floor = {"unknown"}, !.maxRisk = {0}],
   [Any EXCEPT !.id = "spelt", !.tools = {"p?[!b-d]"}, !.actions = {"read"}],
   [Any EXCEPT !.id = "own", !.effect = "deny", !.agents = {"bot"}, !.minThreat = {1},
               !.roles = {2}],
   [Any EXCEPT !.id = "slip", !.effect = "deny", !.tools = {"p[az-b]y"}],
   [Any EXCEPT !.id = "if", !.when = TRUE],
   [Any EXCEPT !.id = "spend", !.budget = TRUE],
   [Any EXCEPT !.id = "mask", !.effect = "redact"],
   [Any EXCEPT !.id = "both", !.kinds = {"unknown"}, !.floor = {"reversible"}]}

Ids == {r.id : r \in Written}

Registrable ==
  {[tool |-> "pay", kind |-> "irreversible"], [tool |-> "pay*", kind |-> "compensable"],
   [tool |-> "pay*", kind |-> "reversible"], [tool |-> "p[!z-a]y", kind |-> "irreversible"]}

Made ==
  [tool : {"pay", "payroll", "Zq7-unmatched-by-anything"}, action : {"read", "write"},
   agent : {"bot", "pay"}, roles : {{}, {2}}, risk : 0 .. 1, threat : 0 .. 1,
   posture : Kinds \cup {"", "novel"}, meets : {FALSE}]

Call(agent, tool, action, posture, risk, effect) ==
  [agent |-> agent, tool |-> tool, action |-> action, posture |-> posture, risk |-> risk,
   effect |-> effect]

\* A tool seen both ways and by several agents, with and without an id, let through and
\* refused; an agent and an action that read as patterns, and one named as nobody is.
Journal ==
  {torn,
   Call("bot", "pay", "write", "irreversible", 1, "allow"),
   Call("bot", "pay", "read", "reversible", 0, "allow"),
   Call("bot", "read", "read", "idempotent", 0, "allow"),
   Call("bot", "read", "write", "compensable", 2, "deny"),
   Call("pay", "pay", "write", "compensable", 2, "allow"),
   Call("pay", "read", "read", "unknown", 0, "require_approval"),
   Call("", "read", "write", "reversible", 1, "allow"),
   Call("", "pay", "read", "reversible", 0, "deny"),
   Call("*", "pay", "*", "reversible", 0, "allow"),
   Call("unattributed", "read", "read", "reversible", 0, "allow")}
===============================================================================
