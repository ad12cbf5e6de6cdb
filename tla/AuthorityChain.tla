--------------------------- MODULE AuthorityChain ---------------------------
(***************************************************************************)
(* Delegated authority: src/src/revoco/authority/ (scope, delegation,      *)
(* principals, revocation, engine) and the detectors of                    *)
(* src/src/revoco/detect.py that read a chain's scopes.                    *)
(*                                                                         *)
(* A human issues a root grant, each holder hands a narrower one on, and   *)
(* an action names the grant it was taken under.  authorize records the    *)
(* signed action, then walks the chain and runs the detectors; grants are  *)
(* issued and revoked and time passes in between.                          *)
(*                                                                         *)
(* A signature either verifies against its maker's registered key or not.  *)
(***************************************************************************)
EXTENDS Reversibility, FiniteSets

CONSTANTS
  Humans, Agents,     \* registered principals
  Grants, NoGrant,    \* delegation ids; NoGrant is a root's parent_id None
  Actions,            \* action ids
  Wildcard,           \* the wildcard "*" of tool and action sets
  Keys,               \* arguments a constraint "max:<path>" may cap
  Absent, Text, NaN,  \* a value not given, not a number, or not comparable
  Scopes,             \* scopes a caller may ask for
  Calls,              \* tool calls
  Ttls,               \* lifetimes a caller may ask for
  MaxTime,            \* bound of the clock
  MaxRevocations,     \* bound of the revocations
  MaxRoots,           \* bound of the root grants
  MaxChainDepth       \* _MAX_CHAIN_DEPTH

Principals == Humans \cup Agents

ASSUME AuthorityAssumption ==
  /\ Humans \cap Agents = {}
  /\ NoGrant \notin Grants
  /\ {Absent, Text, NaN} \cap Nat = {} /\ Absent # Text
  /\ \A s \in Scopes :
       s.risk \in Nat /\ s.floor \in Kinds /\ s.caps \in [Keys -> Nat \cup {Absent, Text}]
  /\ \A c \in Calls :
       c.risk \in Nat /\ c.kind \in Kinds /\ c.args \in [Keys -> Nat \cup {Absent, Text, NaN}]
  /\ Ttls \subseteq Nat \ {0}
  /\ MaxTime \in Nat

VARIABLES
  now,         \* time.time
  issued,      \* the keys of AuthorityEngine._delegations
  delegation,  \* and its values
  revoked,     \* RevocationRegistry._by_target: grants and principals
  action,      \* AuthorityEngine._actions, with the verdict authorize reached
  tainted      \* history: actions recorded when their authority was revoked already

avars == <<now, issued, delegation, revoked, action, tainted>>

-----------------------------------------------------------------------------
(* Scopes.                                                                 *)

Allows(set, item) == Wildcard \in set \/ item \in set

\* Scope.permits_action
PermitsAction(s, c) ==
  Allows(s.tools, c.tool) /\ Allows(s.actions, c.action) /\ c.risk <= s.risk

\* Scope.permits_reversibility; UNKNOWN states no requirement.
PermitsReversibility(s, kind) ==
  s.floor = "unknown" \/ Rank[kind] >= Rank[s.floor]

\* Every child item is permitted by the parent's set.
Covers(set, child) == Wildcard \in set \/ (Wildcard \notin child /\ child \subseteq set)

\* A floor may be kept or made stricter.
FloorKept(s, child) ==
  \/ s.floor = "unknown"
  \/ child.floor # "unknown" /\ Rank[child.floor] >= Rank[s.floor]

\* A cap that the child states is no looser; one it omits is inherited.
CapsTightened(s, child) ==
  \A k \in Keys :
    s.caps[k] \in Nat /\ child.caps[k] # Absent =>
      child.caps[k] \in Nat /\ child.caps[k] <= s.caps[k]

\* Scope.contains
Contains(s, child) ==
  /\ Covers(s.tools, child.tools)
  /\ Covers(s.actions, child.actions)
  /\ child.risk <= s.risk
  /\ FloorKept(s, child)
  /\ CapsTightened(s, child)

-----------------------------------------------------------------------------
(* Grants.                                                                 *)

IsRoot(g) == delegation[g].parent = NoGrant

ScopeOf(g) == delegation[g].scope

\* Delegation.expired
Expired(g, at) == at >= delegation[g].expires

ParentClosed(S) == \A x \in S : ~IsRoot(x) => delegation[x].parent \in S

\* The grants the walk from g visits: the least set with g and each one's parent.
OnChain(g) ==
  {x \in issued : \A S \in SUBSET issued : g \in S /\ ParentClosed(S) => x \in S}

NoDelegation ==
  [issuer |-> NoGrant, subject |-> NoGrant, scope |-> NoGrant, parent |-> NoGrant, expires |-> 0]

NoAction ==
  [state |-> "idle", actor |-> NoGrant, signed |-> FALSE, grant |-> NoGrant,
   call |-> NoGrant, at |-> 0]

Init ==
  /\ now = 0
  /\ issued = {}
  /\ delegation = [g \in Grants |-> NoDelegation]
  /\ revoked = {}
  /\ action = [a \in Actions |-> NoAction]
  /\ tainted = {}

\* ids.new_id: an id no grant has.
FreshId == CHOOSE g \in Grants : g \notin issued

\* _store_delegation
Store(d) ==
  /\ issued' = issued \cup {FreshId}
  /\ delegation' = [delegation EXCEPT ![FreshId] = d]
  /\ UNCHANGED <<now, revoked, action, tainted>>

\* Delegation.__post_init__
NotSelf(issuer, subject) == issuer # subject

\* AuthorityEngine.issue_root_delegation: only by a human, to anyone else.
IssueRoot(human, subject, s, ttl) ==
  /\ human \in Humans
  /\ NotSelf(human, subject)
  /\ Cardinality({x \in issued : IsRoot(x)}) < MaxRoots
  /\ Store([issuer |-> human, subject |-> subject, scope |-> s, parent |-> NoGrant,
            expires |-> now + ttl])

\* Fault: anyone may hand a grant on.
AnyHolder(p, issuer) == TRUE

\* A child can never outlive its parent.
ExpiryUnder(p, ttl) ==
  IF now + ttl <= delegation[p].expires THEN now + ttl ELSE delegation[p].expires

\* An issuer hands on what was granted to it.
Holds(p, issuer) == delegation[p].subject = issuer

\* AuthorityEngine.sub_delegate.  A revoked parent is not refused.
SubDelegate(p, issuer, subject, s, ttl) ==
  /\ Holds(p, issuer)
  /\ ~Expired(p, now)
  /\ Contains(ScopeOf(p), s)
  /\ NotSelf(issuer, subject)
  /\ Store([issuer |-> issuer, subject |-> subject, scope |-> s, parent |-> p,
            expires |-> ExpiryUnder(p, ttl)])

\* RevocationRegistry.revoke, for a grant or a principal; there is no way back.
Revoke(x) ==
  /\ x \in issued \cup Principals
  /\ Cardinality(revoked) < MaxRevocations
  /\ revoked' = revoked \cup {x}
  /\ UNCHANGED <<now, issued, delegation, action, tainted>>

-----------------------------------------------------------------------------
(* Actions.                                                                *)

\* Who and what an action's authority rests on.
Supports(actor, g) ==
  {actor} \cup OnChain(g) \cup {delegation[x].issuer : x \in OnChain(g)}

\* AuthorityEngine.record_action: whatever names a known grant.
RecordAction(a, actor, signed, g, c) ==
  /\ action[a].state = "idle"
  /\ g \in issued
  /\ action' = [action EXCEPT ![a] =
                  [state |-> "recorded", actor |-> actor, signed |-> signed, grant |-> g,
                   call |-> c, at |-> now]]
  /\ tainted' = IF Supports(actor, g) \cap revoked # {} THEN tainted \cup {a} ELSE tainted
  /\ UNCHANGED <<now, issued, delegation, revoked>>

\* What a walk checks of one grant, apart from revocations: a root comes from a
\* human; another grant from the one its parent was given to, and no wider.
HopVerifies(x) ==
  LET d == delegation[x]
  IN IF IsRoot(x) THEN d.issuer \in Humans
     ELSE /\ d.parent \in issued
          /\ delegation[d.parent].subject = d.issuer
          /\ Contains(ScopeOf(d.parent), d.scope)

\* Fault: issuers' revocations are not looked at.
GrantsUnrevoked(actor, g) == ({actor} \cup OnChain(g)) \cap revoked = {}

NothingRevoked(actor, g) == Supports(actor, g) \cap revoked = {}

\* AuthorityEngine.reconstruct_chain.  Revocations only grow and parents do not
\* change, so one look answers what looking hop by hop would have answered at the
\* walk's begin.
ChainVerifies(x) ==
  /\ x.signed
  /\ NothingRevoked(x.actor, x.grant)
  /\ Cardinality(OnChain(x.grant)) <= MaxChainDepth
  /\ \A y \in OnChain(x.grant) : HopVerifies(y)

\* Fault: a cap the leaf leaves out does not bind.
LeafCaps(g, k) == {ScopeOf(g).caps[k]} \cap Nat

Caps(g, k) == {ScopeOf(x).caps[k] : x \in OnChain(g)} \cap Nat

\* Scope.effective_constraints and DetectionEngine.evaluate_constraints: the tightest
\* cap of the chain binds an argument that is given, as far as it compares.
OverCap(x, k) ==
  LET arg == x.call.args[k]
  IN Caps(x.grant, k) # {} /\ arg # Absent
     /\ (arg = Text \/ (arg \in Nat /\ \E cap \in Caps(x.grant, k) : arg > cap))

\* Scope.effective_reversibility_floor and the floor in evaluate_reversibility.
BelowFloor(x) ==
  \E y \in OnChain(x.grant) : ~PermitsReversibility(ScopeOf(y), x.call.kind)

\* DetectionEngine.evaluate_action, constraints and floor: HIGH or CRITICAL findings.
Blocked(x) ==
  \/ x.actor # delegation[x.grant].subject
  \/ ~PermitsAction(ScopeOf(x.grant), x.call)
  \/ Expired(x.grant, x.at)
  \/ \E k \in Keys : OverCap(x, k)
  \/ BelowFloor(x)

\* The verdict on a recorded action.
Judge(a) ==
  /\ action[a].state = "recorded"
  /\ action' = [action EXCEPT ![a].state =
                  IF ChainVerifies(action[a]) /\ ~Blocked(action[a])
                  THEN "allowed" ELSE "refused"]
  /\ UNCHANGED <<now, issued, delegation, revoked, tainted>>

Tick ==
  /\ now < MaxTime
  /\ now' = now + 1
  /\ UNCHANGED <<issued, delegation, revoked, action, tainted>>

Next ==
  \/ /\ issued # Grants  \* an id is left
     /\ \E subject \in Principals, s \in Scopes, ttl \in Ttls :
          \/ \E human \in Principals : IssueRoot(human, subject, s, ttl)
          \/ \E p \in issued, issuer \in Principals : SubDelegate(p, issuer, subject, s, ttl)
  \/ \E x \in Grants \cup Principals : Revoke(x)
  \/ \E a \in Actions :
       \/ \E actor \in Principals, signed \in BOOLEAN, g \in Grants, c \in Calls :
            RecordAction(a, actor, signed, g, c)
       \/ Judge(a)
  \/ Tick

Spec == Init /\ [][Next]_avars

-----------------------------------------------------------------------------
(* Properties.                                                             *)

Delegated ==
  [issuer : Principals, subject : Principals, scope : Scopes,
   parent : Grants \cup {NoGrant}, expires : Nat]

Recorded ==
  [state : {"recorded", "allowed", "refused"}, actor : Principals, signed : BOOLEAN,
   grant : Grants, call : Calls, at : Nat]

TypeOK ==
  /\ now \in Nat
  /\ issued \subseteq Grants
  /\ DOMAIN delegation = Grants
  /\ \A g \in issued :
       delegation[g] \in Delegated /\ delegation[g].issuer # delegation[g].subject
  /\ revoked \subseteq issued \cup Principals
  /\ action \in [Actions -> Recorded \cup {NoAction}]
  /\ \A a \in Actions : action[a] # NoAction => action[a].grant \in issued
  /\ tainted \subseteq Actions

Allowed == {a \in Actions : action[a].state = "allowed"}

\* What a grant permits, every grant above it permits: an allowed action is within
\* the tools, actions, risk, floor and caps of each human and agent on its chain,
\* although only the leaf's scope is compared with the call, caps may be left out
\* on the way down, and grants are issued one at a time by different holders.
AncestorsPermit ==
  \A a \in Allowed : \A x \in OnChain(action[a].grant) :
    LET s == ScopeOf(x)
        c == action[a].call
    IN /\ PermitsAction(s, c)
       /\ PermitsReversibility(s, c.kind)
       /\ \A k \in Keys :
            s.caps[k] \in Nat /\ c.args[k] \in Nat => c.args[k] <= s.caps[k]

\* No authority outlives the one it came from: an allowed action happened before
\* the end of every grant above it, although only the leaf's expiry is looked at.
NotOutlived ==
  \A a \in Allowed : \A x \in OnChain(action[a].grant) : ~Expired(x, action[a].at)

\* An action recorded when a grant of its chain, an issuer on it or the actor was
\* revoked is never allowed, whatever is issued or revoked before its verdict.
RevokedNeverActs == tainted \cap Allowed = {}

\* What the engine issues, its walk accepts: a grant is refused for a revocation or
\* for its depth, and never because issuing and walking disagree about custody,
\* containment or the human root.
IssuedGrantsVerify == \A g \in issued : \A x \in OnChain(g) : HopVerifies(x)

\* The types, and that authority only narrows downwards, in scope and in time.
AuthorityNarrows == TypeOK /\ AncestorsPermit /\ NotOutlived
=============================================================================
