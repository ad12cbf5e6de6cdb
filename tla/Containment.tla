---------------------------- MODULE Containment ----------------------------
(***************************************************************************)
(* Containment of a delegation subtree while agents work under it:         *)
(* src/src/revoco/controlplane.py (authorize, confirm, undo, undo_all,     *)
(* contain), the authority engine's revocation and chain walk, and         *)
(* ReversalEngine.reverse_cascade, over the journal of ReversalJournal.    *)
(*                                                                         *)
(* No lock spans an operation of the control plane.  authorize records the *)
(* action, then walks its chain; the agent acts between authorize and      *)
(* confirm; contain reads the subtree, revokes grant by grant, collects    *)
(* the actions, selects and sorts the committed ones, and reverses them    *)
(* one by one.  Each of these is an action, and they interleave.           *)
(***************************************************************************)
EXTENDS ReversalJournal, FiniteSets

Seqs == INSTANCE SequencesExt

CONSTANTS
  Delegations,  \* grants that exist or may be sub-delegated
  ParentOf,     \* the grant each is issued under; a root is its own parent
  Responders,   \* operators running contain or undo_all
  HookAnswers,  \* what the deployment's classify hooks answer
  MaxScope      \* bound: grants issued and operations of responders together

\* The chain from a grant to its root: the least set that holds the grant and, of
\* each grant in it, the parent.
ParentClosed(S) == \A x \in S : ParentOf[x] \in S

Chain ==
  [d \in Delegations |->
     {x \in Delegations : \A S \in SUBSET Delegations : d \in S /\ ParentClosed(S) => x \in S}]

ASSUME DelegationsAssumption ==
  /\ Delegations # {}
  /\ ParentOf \in [Delegations -> Delegations]
  /\ HookAnswers \subseteq Kinds

\* Needed for an end only: a subtree and a journal are finite, and the bound MaxRuns
\* has room for a run of each entry by every responder.
ASSUME FiniteAssumption ==
  /\ IsFiniteSet(Delegations) /\ IsFiniteSet(Entries) /\ IsFiniteSet(Responders)
  /\ Cardinality(Responders) <= MaxRuns

VARIABLES
  issued,      \* AuthorityEngine._delegations
  revoked,     \* RevocationRegistry._by_target
  recorded,    \* AuthorityEngine._actions, in order of recording
  under,       \* the delegation each action names
  phase,       \* where the agent is with each action
  responder,   \* the containment or undo_all each responder runs
  undoneAlone, \* history: entries a single undo reversed
  tainted      \* history: actions recorded under authority already revoked

control == <<issued, revoked, recorded, under, phase>>
cvars == <<vars, control, responder, undoneAlone, tainted>>

Phases == {"idle", "recorded", "refused", "allowed", "executed", "failed", "confirmed"}

Idle ==
  [pc |-> "idle", op |-> "undo_all", scope |-> {}, left |-> {}, wanted |-> <<>>,
   stopOnError |-> FALSE, selected |-> {}, escaping |-> {}, todo |-> <<>>,
   reversed |-> <<>>, failed |-> {}, skipped |-> {}, stopped |-> FALSE]

CInit ==
  /\ Init
  /\ issued = {d \in Delegations : ParentOf[d] = d}
  /\ revoked = {}
  /\ recorded = <<>>
  /\ under = [e \in Entries |-> CHOOSE d \in Delegations : TRUE]
  /\ phase = [e \in Entries |-> "idle"]
  /\ responder = [r \in Responders |-> Idle]
  /\ undoneAlone = {}
  /\ tainted = {}

Busy == {r \in Responders : responder[r].pc # "idle"}

\* Not in the code: the bound lets the tree grow or another responder begin.
WithinScope == Cardinality(issued) + Cardinality(Busy) < MaxScope

-----------------------------------------------------------------------------
(* Authority.                                                              *)

\* AuthorityEngine.sub_delegate: the parent must exist; revocation of the
\* parent is not looked at.
SubDelegate(d) ==
  /\ WithinScope
  /\ d \notin issued
  /\ ParentOf[d] \in issued
  /\ issued' = issued \cup {d}
  /\ UNCHANGED <<vars, revoked, recorded, under, phase, responder, undoneAlone, tainted>>

\* AuthorityEngine.descendant_delegations.  Its walk is not one critical section:
\* a grant issued behind the walk is missed, as one issued after it is.
Subtree(d) == {x \in issued : d \in Chain[x]}

\* Fault: only the grant the action names is looked up among the revocations.
LeafVerifies(d) == d \notin revoked

\* AuthorityEngine.reconstruct_chain: every grant from the action's to the root.
\* Revocation is irreversible, so looking at one grant after the other answers
\* what one look at the chain when the walk began would have answered.
ChainVerifies(d) == Chain[d] \cap revoked = {}

-----------------------------------------------------------------------------
(* Agents: ControlPlane.authorize, the forward action, confirm.            *)

\* authorize records the signed action, under an id not used before (any unused
\* one stands for all) ...
RecordAction(e, d) ==
  /\ phase[e] = "idle"
  /\ e = CHOOSE unused \in Entries : phase[unused] = "idle"
  /\ d \in issued
  /\ phase' = [phase EXCEPT ![e] = "recorded"]
  /\ under' = [under EXCEPT ![e] = d]
  /\ recorded' = Append(recorded, e)
  /\ tainted' = IF Chain[d] \cap revoked # {} THEN tainted \cup {e} ELSE tainted
  /\ UNCHANGED <<vars, issued, revoked, responder, undoneAlone>>

Classified(e) == Classifications(journal[e].tool) \cap HookAnswers

\* ... then walks its chain, opens the journal and answers.
Allow(e) ==
  /\ phase[e] = "recorded"
  /\ ChainVerifies(under[e])
  /\ phase' = [phase EXCEPT ![e] = "allowed"]
  /\ \E kind \in Classified(e) : OpenJournal(e, TRUE, kind)
  /\ UNCHANGED <<issued, revoked, recorded, under, responder, undoneAlone, tainted>>

\* The chain, or any detector, may refuse; the plan is opened and abandoned in
\* the same call.
Refuse(e) ==
  /\ phase[e] = "recorded"
  /\ phase' = [phase EXCEPT ![e] = "refused"]
  /\ \E kind \in Classified(e) :
       journal' = [journal EXCEPT ![e] =
                     [PlanFor(@.tool, TRUE, kind) EXCEPT !.state = "abandoned"]]
  /\ UNCHANGED <<now, openGates, history, issued, revoked, recorded, under, responder,
                 undoneAlone, tainted>>

Execute(e) ==
  /\ phase[e] = "allowed"
  /\ phase' = [phase EXCEPT ![e] = "executed"]
  /\ UNCHANGED <<vars, issued, revoked, recorded, under, responder, undoneAlone, tainted>>

\* The forward action errors and the caller abandons the plan.
ExecuteFails(e) ==
  /\ phase[e] = "allowed"
  /\ phase' = [phase EXCEPT ![e] = "failed"]
  /\ Abandon(e)
  /\ UNCHANGED <<issued, revoked, recorded, under, responder, undoneAlone, tainted>>

\* ControlPlane.confirm, called once, after the action succeeded.
Confirm(e) ==
  /\ phase[e] = "executed"
  /\ phase' = [phase EXCEPT ![e] = "confirmed"]
  /\ \E found \in BOOLEAN : Commit(e, found)
  /\ UNCHANGED <<issued, revoked, recorded, under, responder, undoneAlone, tainted>>

\* ControlPlane.undo of a single action, by anyone, at any time.  The bound MaxRuns
\* leaves one run of each entry to every responder.
UndoOne(e, done) ==
  /\ runs[e] + Cardinality(Responders) < MaxRuns
  /\ Reverse(e, FALSE, done)
  /\ undoneAlone' = IF journal'[e].state = "reversed" THEN undoneAlone \cup {e} ELSE undoneAlone
  /\ UNCHANGED <<control, responder, tainted>>

-----------------------------------------------------------------------------
(* Responders: ControlPlane.contain and undo_all.                          *)

Set(r, rec) == responder' = [responder EXCEPT ![r] = rec]

\* Both read the subtree of a grant; contain goes on to revoke it.  Both are called
\* with their defaults: undo_all stops at the first failure, contain does not.
Begin(r, op, d) ==
  /\ WithinScope
  /\ responder[r].pc = "idle"
  /\ r = CHOOSE free \in Responders : responder[free].pc = "idle"
  /\ d \in issued
  /\ Set(r, [Idle EXCEPT !.op = op, !.scope = Subtree(d), !.left = Subtree(d),
                         !.stopOnError = (op = "undo_all"),
                         !.pc = IF op = "contain" THEN "revoke" ELSE "collect"])
  /\ UNCHANGED <<vars, control, undoneAlone, tainted>>

\* A walk visits parents before children.
NextInWalk(x, d) == d \in x.left /\ Chain[d] \cap x.left = {d}

\* One grant after the other is revoked ...
Revoke(r, d) ==
  LET x == responder[r]
      last == x.left = {d}
  IN /\ x.pc = "revoke"
     /\ NextInWalk(x, d)
     /\ revoked' = revoked \cup {d}
     /\ Set(r, [x EXCEPT !.left = IF last THEN x.scope ELSE @ \ {d},
                         !.pc = IF last THEN "collect" ELSE "revoke"])
     /\ UNCHANGED <<vars, issued, recorded, under, phase, undoneAlone, tainted>>

Position(seq, e) == CHOOSE i \in DOMAIN seq : seq[i] = e
Orders(S) == [1 .. Cardinality(S) -> S]

\* The actions recorded under a grant, in order of recording.
RecordedUnder(d) ==
  {q \in Orders({e \in Seqs!ToSet(recorded) : under[e] = d}) :
     \A i, j \in DOMAIN q : i < j => Position(recorded, q[i]) < Position(recorded, q[j])}

\* ... and then asked for the actions recorded under it.
Collect(r, d) ==
  LET x == responder[r]
  IN /\ x.pc = "collect"
     /\ NextInWalk(x, d)
     /\ \E found \in RecordedUnder(d) :
          Set(r, [x EXCEPT !.left = @ \ {d}, !.wanted = @ \o found,
                           !.pc = IF x.left = {d} THEN "select" ELSE "collect"])
     /\ UNCHANGED <<vars, control, undoneAlone, tainted>>

\* The committed ones among the collected entries.
Live(wanted) == {e \in Seqs!ToSet(wanted) : journal[e].state = "committed"}

\* Of entries committed at the same instant a stable sort keeps the order they were
\* collected in.
TiesKept(wanted, a, b) ==
  /\ journal[a].committedAt = journal[b].committedAt
  /\ Position(wanted, a) < Position(wanted, b)

\* Fault: the sort keeps the oldest commit in front.
OldestFirst(wanted) ==
  {q \in Orders(Live(wanted)) :
     \A i, j \in DOMAIN q :
       i < j => \/ journal[q[i]].committedAt < journal[q[j]].committedAt
                \/ TiesKept(wanted, q[i], q[j])}

\* The one order with the newest commit first.
LiveNewestFirst(wanted) ==
  {q \in Orders(Live(wanted)) :
     \A i, j \in DOMAIN q :
       i < j => \/ journal[q[i]].committedAt > journal[q[j]].committedAt
                \/ TiesKept(wanted, q[i], q[j])}

\* reverse_cascade selects and sorts.
Select(r) ==
  LET x == responder[r]
  IN /\ x.pc = "select"
     /\ \E todo \in LiveNewestFirst(x.wanted) :
          Set(r, [x EXCEPT !.wanted = <<>>, !.todo = todo, !.selected = Seqs!ToSet(todo), !.pc = "cascade",
                           !.escaping = {e \in Entries : phase[e] \in {"allowed", "executed"}
                                                        \/ journal[e].state \in {"reversal_failed", "expired"}}])
     /\ UNCHANGED <<vars, control, undoneAlone, tainted>>

\* The loop of reverse_cascade is over.
CascadeOver(x) == x.todo = <<>> \/ x.stopped

\* The engine executed the inverse of the next entry.
CascadeReverse(r, done) ==
  LET x == responder[r]
      e == Head(x.todo)
      ok == Succeeded(PlannedSteps(journal[e]), done)
  IN /\ x.pc = "cascade"
     /\ ~CascadeOver(x)
     /\ Reverse(e, FALSE, done)
     /\ Set(r, [x EXCEPT !.todo = Tail(@),
                         !.reversed = IF ok THEN Append(@, e) ELSE @,
                         !.failed = IF ok THEN @ ELSE @ \cup {e},
                         !.stopped = ~ok /\ x.stopOnError])
     /\ UNCHANGED <<control, undoneAlone, tainted>>

\* Faults: a refusal is not counted, or the refused entry is tried again.
SkipUncounted(x) == [x EXCEPT !.todo = Tail(@)]
SkipLater(x) == [x EXCEPT !.todo = Append(Tail(@), Head(@))]

Skip(x) == [x EXCEPT !.todo = Tail(@), !.skipped = @ \cup {Head(x.todo)}]

\* Someone was faster, or a gate is closed.
Refuses(e) == ~HasLiveUndo(journal[e]) \/ (~IsExpired(journal[e]) /\ ~GatesOpen(journal[e]))

\* The engine refused, or it finds the window closed and marks the entry.
CascadeSkip(r) ==
  LET x == responder[r]
      e == Head(x.todo)
  IN /\ x.pc = "cascade"
     /\ ~CascadeOver(x)
     /\ \/ Refuses(e) /\ UNCHANGED vars
        \/ ReverseExpired(e)
     /\ Set(r, Skip(x))
     /\ UNCHANGED <<control, undoneAlone, tainted>>

Report(r) ==
  LET x == responder[r]
  IN /\ x.pc = "cascade"
     /\ CascadeOver(x)
     /\ Set(r, [x EXCEPT !.pc = "done"])
     /\ UNCHANGED <<vars, control, undoneAlone, tainted>>

\* Fault: what was skipped does not count against the report.
NothingFailed(x) == x.pc = "done" /\ x.failed = {} /\ ~x.stopped

\* CascadeReport.ok and skipped = 0: the report's "fully_contained".
FullyContained(x) ==
  x.pc = "done" /\ x.failed = {} /\ ~x.stopped /\ x.skipped = {}

Respond(r) ==
  \/ \E d \in Delegations : Revoke(r, d) \/ Collect(r, d)
  \/ Select(r)
  \/ \E done \in SUBSET StepNames : CascadeReverse(r, done)
  \/ CascadeSkip(r)
  \/ Report(r)

Environment ==
  /\ \/ Tick
     \/ \E g \in Gates : FlipGate(g)
     \/ ExpireStale
  /\ UNCHANGED <<control, responder, undoneAlone, tainted>>

CNext ==
  \/ \E d \in Delegations : SubDelegate(d)
  \/ \E e \in Entries :
       \/ \E d \in Delegations : RecordAction(e, d)
       \/ Allow(e) \/ Refuse(e)
       \/ Execute(e) \/ ExecuteFails(e) \/ Confirm(e)
       \/ \E done \in SUBSET StepNames : UndoOne(e, done)
  \/ \E r \in Responders :
       \/ \E op \in {"contain", "undo_all"}, d \in Delegations : Begin(r, op, d)
       \/ Respond(r)
  \/ Environment

CSpec == CInit /\ [][CNext]_cvars

-----------------------------------------------------------------------------
(* Properties.                                                             *)

Standing(e) == phase[e] \in {"executed", "confirmed"} /\ undone[e] = 0

CTypeOK ==
  /\ TypeOK
  /\ issued \subseteq Delegations
  /\ revoked \subseteq issued
  /\ recorded \in Seq(Entries)
  /\ under \in [Entries -> Delegations]
  /\ phase \in [Entries -> Phases]
  /\ undoneAlone \subseteq Entries
  /\ tainted \subseteq Entries
  /\ \A r \in Responders :
       LET x == responder[r]
       IN /\ DOMAIN x = DOMAIN Idle
          /\ x.pc \in {"idle", "revoke", "collect", "select", "cascade", "done"}
          /\ x.scope \subseteq issued
          /\ x.left \subseteq x.scope
          /\ Seqs!ToSet(x.todo) \subseteq x.selected
          /\ x.failed \cup x.skipped \cup Seqs!ToSet(x.reversed) \subseteq x.selected

\* However containments, cascades and single undos of overlapping scopes
\* interleave, an action is undone once and exactly one of them reports it: the
\* state is checked again under the engine's lock, not when the set was selected.
CreditedOnce ==
  \A e \in Entries :
    undone[e] \in {0, 1} /\
    undone[e] = Cardinality({r \in Responders : e \in Seqs!ToSet(responder[r].reversed)})
                + IF e \in undoneAlone THEN 1 ELSE 0

\* A report of full containment means that this very call undid everything it
\* selected; whatever was blocked by a gate, failed, or was taken by another
\* responder shows in the report.
ContainedMeansUndone ==
  \A r \in Responders :
    FullyContained(responder[r]) =>
      /\ Seqs!ToSet(responder[r].reversed) = responder[r].selected
      /\ \A e \in responder[r].selected : ~Standing(e)

\* No action recorded after a grant of its chain was revoked is ever allowed, and
\* this holds for grants sub-delegated from a revoked one later.
RevokedAuthorityNeverActs ==
  \A e \in tainted : phase[e] \in {"recorded", "refused"}

\* The inductive strengthening: once a grant of an action's chain is revoked, the
\* chain stays broken, whatever is issued or revoked later.
AuthorityInv ==
  /\ phase \in [Entries -> Phases]
  /\ under \in [Entries -> Delegations]
  /\ issued \subseteq Delegations
  /\ \A e \in tainted : Chain[under[e]] \cap revoked # {}
  /\ RevokedAuthorityNeverActs

\* What a report of full containment can miss under the grants it revoked: an
\* action in flight between authorize and confirm when the set was selected, one
\* whose undo had failed before, or one whose window had been found closed before.
\* Nothing else escapes.
OnlyInFlightEscapes ==
  \A r \in Responders :
    FullyContained(responder[r]) /\ responder[r].op = "contain" =>
      \A e \in Entries :
        Standing(e) /\ under[e] \in responder[r].scope => e \in responder[r].escaping

\* One responder never undoes an action before a later one it also selected and
\* still undoes: restoring snapshots in another order would not restore them.
NewestUndoneFirst ==
  \A r \in Responders :
    \A i, j \in DOMAIN responder[r].reversed :
      i < j => journal[responder[r].reversed[i]].committedAt
                 >= journal[responder[r].reversed[j]].committedAt

\* Three facts of the undos together: the types, one undo and one credit for each
\* action, and the newest first within a cascade.
UndoneOnceInOrder == CTypeOK /\ CreditedOnce /\ NewestUndoneFirst

\* What a cascade selected is still to do or in its report, in one place and once,
\* whatever gates and other responders do meanwhile.
CascadeIsAccounted ==
  \A r \in Responders :
    LET x == responder[r]
    IN /\ x.selected = Seqs!ToSet(x.todo) \cup Seqs!ToSet(x.reversed) \cup x.failed \cup x.skipped
       /\ Cardinality(x.selected) =
            Len(x.todo) + Len(x.reversed) + Cardinality(x.failed) + Cardinality(x.skipped)

Underway(r) == responder[r].pc \notin {"idle", "done"}

\* The guard of some step of the responder holds, and there is something to choose
\* where it chooses.
CanRespond(r) ==
  LET x == responder[r]
      e == Head(x.todo)
  IN \/ x.pc = "revoke" /\ \E d \in Delegations : NextInWalk(x, d)
     \/ x.pc = "collect" /\ \E d \in Delegations : NextInWalk(x, d) /\ RecordedUnder(d) # {}
     \/ x.pc = "select" /\ LiveNewestFirst(x.wanted) # {}
     \/ /\ x.pc = "cascade"
        /\ CascadeOver(x) \/ Refuses(e) \/ FindsExpired(e)
             \/ \E done \in SUBSET StepNames : CanReverse(e, FALSE, done)

\* How many steps a responder takes at most before its report.
StepsToGo(x) ==
  CASE x.pc = "revoke" -> Cardinality(x.left) + Cardinality(x.scope) + Cardinality(Entries) + 2
    [] x.pc = "collect" -> Cardinality(x.left) + Cardinality(Entries) + 2
    [] x.pc = "select" -> Cardinality(Entries) + 2
    [] x.pc = "cascade" -> Len(x.todo) + 1
    [] OTHER -> 0

\* Nobody else can hold a responder up, nor send it back: whatever others revoke,
\* undo, close or sub-delegate, it can take its next step, and only its own steps
\* move it, each towards its report, in which all it selected is counted once.
CascadesEnd ==
  /\ []CascadeIsAccounted
  /\ [](\A r \in Responders : Underway(r) => CanRespond(r))
  /\ [][\A r \in Responders :
          Underway(r) /\ responder'[r] # responder[r] =>
            StepsToGo(responder'[r]) < StepsToGo(responder[r])]_cvars

=============================================================================
