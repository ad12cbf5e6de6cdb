------------------------------ MODULE CallBook ------------------------------
(***************************************************************************)
(* What the proxy promises whoever reads its journal: a book in which each *)
(* call that was let through is settled at most once, as done only when it *)
(* took effect and as dropped only when it did not or was reported; where  *)
(* no answer is given out that the book does not know of; and which leaves *)
(* at most one effect out when it is closed.  How threads, queues and the  *)
(* server bring this about is McpProxy's matter.                           *)
(***************************************************************************)

CONSTANT Calls

VARIABLES
  book,      \* how each call stands
  effects,   \* calls that took effect
  reported,  \* calls whose fate was left open and said so
  answered,  \* calls whose answer was given out
  doubtful,  \* calls that cannot be told from requests of the server
  closed

bvars == <<book, effects, reported, answered, doubtful, closed>>

BInit ==
  /\ book = [c \in Calls |-> "none"]
  /\ effects = {} /\ reported = {} /\ answered = {} /\ doubtful = {}
  /\ ~closed

Enter(c, as) ==
  /\ book[c] = "none"
  /\ as \in {"refused", "planned"}
  /\ book' = [book EXCEPT ![c] = as]
  /\ UNCHANGED <<effects, reported, answered, doubtful, closed>>

\* A call that was dropped without a report has no effect later either.
TakeEffect(c) ==
  /\ book[c] \notin {"none", "refused"}
  /\ book[c] = "planned" \/ c \in reported \/ c \in doubtful
  /\ effects' = effects \cup {c}
  /\ UNCHANGED <<book, reported, answered, doubtful, closed>>

Settle(c, as) ==
  /\ book[c] = "planned"
  /\ \/ as = "committed" /\ c \in effects \cup doubtful
     \/ as = "abandoned" /\ (c \notin effects \/ c \in reported \cup doubtful)
  /\ book' = [book EXCEPT ![c] = as]
  /\ UNCHANGED <<effects, reported, answered, doubtful, closed>>

\* Once, at the end of a session.
Report(cs) ==
  /\ reported = {}
  /\ \A c \in cs : book[c] = "planned" /\ c \notin answered
  /\ reported' = cs
  /\ UNCHANGED <<book, effects, answered, doubtful, closed>>

Answer(c) ==
  /\ book[c] \in {"committed", "abandoned"} \/ c \in reported
  /\ answered' = answered \cup {c}
  /\ UNCHANGED <<book, effects, reported, doubtful, closed>>

Doubt(cs) ==
  /\ doubtful' = doubtful \cup cs
  /\ UNCHANGED <<book, effects, reported, answered, closed>>

Lost(c) == c \in effects /\ book[c] # "committed" /\ c \notin reported

Close ==
  /\ \A c, d \in Calls : Lost(c) /\ Lost(d) => c = d
  /\ closed'
  /\ UNCHANGED <<book, effects, reported, answered, doubtful>>

BNext ==
  /\ ~closed
  /\ \/ \E c \in Calls :
          \/ \E as \in {"refused", "planned"} : Enter(c, as)
          \/ \E as \in {"committed", "abandoned"} : Settle(c, as)
          \/ TakeEffect(c)
          \/ Answer(c)
     \/ \E cs \in SUBSET Calls : Report(cs) \/ Doubt(cs)
     \/ Close

BSpec == BInit /\ [][BNext]_bvars
=============================================================================
