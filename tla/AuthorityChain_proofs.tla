----------------------- MODULE AuthorityChain_proofs -----------------------
(***************************************************************************)
(* Proofs about AuthorityChain: delegated authority only narrows, a        *)
(* revoked one never acts, and what is issued verifies.                    *)
(*                                                                         *)
(* A chain is the least set of grants closed under parents.  So a set of   *)
(* grants that has the leaf and each one's parent has the whole chain,     *)
(* and what a child's scope or lifetime inherits from one hop holds for    *)
(* every hop.                                                              *)
(***************************************************************************)
EXTENDS AuthorityChain, TLAPS

\* Every grant was checked against its parent, and ends no later.
Chained ==
  \A g \in issued :
    /\ HopVerifies(g)
    /\ ~IsRoot(g) => delegation[g].expires <= delegation[delegation[g].parent].expires

\* The findings that refuse an action are stable: they do not arise later.
AllowedUnblocked == \A a \in Allowed : ~Blocked(action[a])

\* Once revoked, the support of a recorded action stays so.
TaintedStays ==
  \A a \in tainted :
    action[a] # NoAction /\ Supports(action[a].actor, action[a].grant) \cap revoked # {}

AuthorityInv ==
  TypeOK /\ Chained /\ AllowedUnblocked /\ TaintedStays /\ RevokedNeverActs

-----------------------------------------------------------------------------
(* Chains.                                                                 *)

\* The induction over a chain: what the leaf has and every parent inherits,
\* all grants of the chain have.
LEMMA ChainInduction ==
  ASSUME NEW g \in issued, NEW S \in SUBSET issued, g \in S, ParentClosed(S)
  PROVE  OnChain(g) \subseteq S
BY DEF OnChain

\* Parents of issued grants are issued.
LEMMA IssuedClosed ==
  ASSUME Chained
  PROVE  ParentClosed(issued)
BY DEF Chained, ParentClosed, HopVerifies, IsRoot

LEMMA LeafOnChain ==
  ASSUME NEW g \in issued
  PROVE  g \in OnChain(g)
BY DEF OnChain

\* Containment passes a permission up.
LEMMA ContainsPermits ==
  ASSUME NEW s \in Scopes, NEW child \in Scopes, NEW c \in Calls,
         Contains(s, child), PermitsAction(child, c)
  PROVE  PermitsAction(s, c)
<1>1. s.risk \in Nat /\ child.risk \in Nat /\ c.risk \in Nat
  BY AuthorityAssumption
<1>2. c.risk <= s.risk
  BY <1>1 DEF Contains, PermitsAction
<1>3. Allows(s.tools, c.tool)
  BY DEF Contains, PermitsAction, Covers, Allows
<1>4. Allows(s.actions, c.action)
  BY DEF Contains, PermitsAction, Covers, Allows
<1> QED
  BY <1>2, <1>3, <1>4 DEF PermitsAction

\* Issuing a grant leaves the chains of the others as they are.
LEMMA ChainFixed ==
  ASSUME Chained, issued \subseteq issued',
         \A x \in issued : delegation'[x] = delegation[x],
         NEW g \in issued
  PROVE  OnChain(g)' = OnChain(g)
<1>1. ASSUME NEW S \in SUBSET issued
      PROVE  ParentClosed(S)' <=> ParentClosed(S)
  BY <1>1 DEF ParentClosed, IsRoot
<1>2. ASSUME NEW x \in OnChain(g)'
      PROVE  x \in OnChain(g)
  <2>4. x \in issued
    <3>1. \A y \in issued : ~(delegation'[y].parent = NoGrant) => delegation'[y].parent \in issued
      BY IssuedClosed DEF ParentClosed, IsRoot
    <3> QED
      BY <1>2, <3>1 DEF OnChain, ParentClosed, IsRoot
  <2>5. ASSUME NEW S \in SUBSET issued, g \in S, ParentClosed(S)
        PROVE  x \in S
    <3>1. \A y \in S : ~(delegation'[y].parent = NoGrant) => delegation'[y].parent \in S
      BY <2>5 DEF ParentClosed, IsRoot
    <3>2. S \in SUBSET issued'
      OBVIOUS
    <3> QED
      BY <1>2, <2>5, <3>1, <3>2 DEF OnChain, ParentClosed, IsRoot
  <2> QED
    BY <2>4, <2>5 DEF OnChain
<1>3. ASSUME NEW x \in OnChain(g)
      PROVE  x \in OnChain(g)'
  <2>1. x \in issued'
    BY <1>3 DEF OnChain
  <2>2. ASSUME NEW S \in SUBSET issued', g \in S,
               \A y \in S : ~(delegation'[y].parent = NoGrant) => delegation'[y].parent \in S
        PROVE  x \in S
    <3> DEFINE R == S \cap issued
    <3>1. R \in SUBSET issued /\ g \in R
      BY <2>2
    <3>2. ParentClosed(R)
      <4>1. \A y \in R : ~IsRoot(y) => delegation[y].parent \in S
        BY <2>2 DEF IsRoot
      <4>2. \A y \in R : ~IsRoot(y) => delegation[y].parent \in issued
        BY IssuedClosed DEF ParentClosed
      <4> QED
        BY <4>1, <4>2 DEF ParentClosed
    <3> QED
      BY <1>3, <3>1, <3>2 DEF OnChain
  <2> QED
    BY <2>1, <2>2 DEF OnChain, ParentClosed, IsRoot
<1> QED
  BY <1>2, <1>3

-----------------------------------------------------------------------------
(* What an allowed action's chain permits.                                 *)

\* An action that is not blocked is within every scope above it.
LEMMA UnblockedWithin ==
  ASSUME TypeOK, Chained, NEW a \in Allowed, ~Blocked(action[a]),
         NEW x \in OnChain(action[a].grant)
  PROVE  /\ PermitsAction(ScopeOf(x), action[a].call)
         /\ PermitsReversibility(ScopeOf(x), action[a].call.kind)
         /\ \A k \in Keys :
              ScopeOf(x).caps[k] \in Nat /\ action[a].call.args[k] \in Nat =>
                action[a].call.args[k] <= ScopeOf(x).caps[k]
         /\ ~Expired(x, action[a].at)
<1> DEFINE g == action[a].grant
           c == action[a].call
<1>1. action[a] \in Recorded /\ g \in issued /\ c \in Calls /\ action[a].at \in Nat
  BY DEF TypeOK, Allowed, Recorded, NoAction
<1>2. \A y \in issued :
        ScopeOf(y) \in Scopes /\ delegation[y].expires \in Nat
  BY DEF TypeOK, Delegated, ScopeOf
<1>3. PermitsAction(ScopeOf(x), c)
  <2> DEFINE S == {y \in issued : PermitsAction(ScopeOf(y), c)}
  <2>1. g \in S
    BY <1>1 DEF Blocked
  <2>2. ASSUME NEW y \in S, ~IsRoot(y)
        PROVE  delegation[y].parent \in S
    <3>0. HopVerifies(y)
      BY DEF Chained
    <3>1. delegation[y].parent \in issued /\ Contains(ScopeOf(delegation[y].parent), ScopeOf(y))
      BY <2>2, <3>0 DEF HopVerifies, ScopeOf
    <3> QED
      BY <1>1, <1>2, <2>2, <3>1, ContainsPermits
  <2>3. ParentClosed(S)
    BY <2>2 DEF ParentClosed
  <2> QED
    BY <1>1, <2>1, <2>3, ChainInduction
<1>4. PermitsReversibility(ScopeOf(x), c.kind)
  BY DEF Blocked, BelowFloor
<1>5. ASSUME NEW k \in Keys, ScopeOf(x).caps[k] \in Nat, c.args[k] \in Nat
      PROVE  c.args[k] <= ScopeOf(x).caps[k]
  <2>1. ScopeOf(x).caps[k] \in Caps(g, k)
    BY <1>5 DEF Caps
  <2>2. c.args[k] # Absent
    BY <1>5, AuthorityAssumption
  <2>3. ~OverCap(action[a], k)
    BY DEF Blocked
  <2>4. ~(c.args[k] > ScopeOf(x).caps[k])
    BY <1>5, <2>1, <2>2, <2>3 DEF OverCap
  <2> QED
    BY <1>5, <2>4
<1>6. ~Expired(x, action[a].at)
  <2> DEFINE S == {y \in issued : action[a].at < delegation[y].expires}
  <2>1. g \in S
    BY <1>1, <1>2 DEF Blocked, Expired
  <2>2. ASSUME NEW y \in S, ~IsRoot(y)
        PROVE  delegation[y].parent \in S
    <3>1. /\ delegation[y].parent \in issued
          /\ delegation[y].expires <= delegation[delegation[y].parent].expires
      BY <2>2 DEF Chained, HopVerifies
    <3> QED
      BY <1>1, <1>2, <2>2, <3>1
  <2>3. ParentClosed(S)
    BY <2>2 DEF ParentClosed
  <2>4. x \in S
    BY <1>1, <2>1, <2>3, ChainInduction
  <2> QED
    BY <1>1, <1>2, <2>4 DEF Expired
<1> QED
  BY <1>3, <1>4, <1>5, <1>6

-----------------------------------------------------------------------------
(* The steps.                                                              *)

LEMMA AuthorityInit == Init => AuthorityInv
<1> SUFFICES ASSUME Init PROVE AuthorityInv
  OBVIOUS
<1>1. Allowed = {}
  BY DEF Init, Allowed, NoAction
<1>2. TypeOK
  BY AuthorityAssumption DEF Init, TypeOK
<1> QED
  BY <1>1, <1>2 DEF Init, AuthorityInv, Chained, AllowedUnblocked, TaintedStays, RevokedNeverActs

\* A grant that was checked against its parent when it is issued keeps everything.
LEMMA StoreKeeps ==
  ASSUME AuthorityInv, issued # Grants, NEW d \in Delegated, d.issuer # d.subject, Store(d),
         d.parent = NoGrant => d.issuer \in Humans,
         d.parent # NoGrant =>
           /\ d.parent \in issued
           /\ delegation[d.parent].subject = d.issuer
           /\ Contains(ScopeOf(d.parent), d.scope)
           /\ d.expires <= delegation[d.parent].expires
  PROVE  AuthorityInv'
<1>0. TypeOK /\ Chained /\ AllowedUnblocked /\ TaintedStays /\ RevokedNeverActs
  BY DEF AuthorityInv
<1> DEFINE f == FreshId
<1>1. PICK n \in Grants \ issued : n = f
  BY <1>0 DEF Store, FreshId, TypeOK
<1>2. /\ issued' = issued \cup {n}
      /\ delegation' = [delegation EXCEPT ![n] = d]
      /\ UNCHANGED <<now, revoked, action, tainted>>
  BY <1>1 DEF Store
<1>3. \A x \in issued : delegation'[x] = delegation[x]
  BY <1>1, <1>2 DEF TypeOK
<1>4. delegation'[n] = d /\ DOMAIN delegation' = Grants
  BY <1>0, <1>1, <1>2 DEF TypeOK
<1>5. \A g \in issued : OnChain(g)' = OnChain(g)
  BY <1>0, <1>2, <1>3, ChainFixed
<1>6. \A g \in issued : OnChain(g) \subseteq issued
  BY DEF OnChain
<1>7. TypeOK'
  BY <1>0, <1>1, <1>2, <1>3, <1>4 DEF TypeOK
<1>8. Chained'
  <2>1. ASSUME NEW g \in issued
        PROVE  /\ HopVerifies(g)'
               /\ ~IsRoot(g)' => delegation'[g].expires <= delegation'[delegation'[g].parent].expires
    <3>1. ~IsRoot(g) => delegation[g].parent \in issued
      BY <1>0 DEF Chained, HopVerifies
    <3> QED
      BY <1>0, <1>2, <1>3, <3>1 DEF Chained, HopVerifies, IsRoot, ScopeOf
  <2>2. /\ HopVerifies(n)'
        /\ ~IsRoot(n)' => delegation'[n].expires <= delegation'[delegation'[n].parent].expires
    BY <1>2, <1>3, <1>4 DEF HopVerifies, IsRoot, ScopeOf
  <2> QED
    BY <1>2, <2>1, <2>2 DEF Chained, IsRoot
<1>9. \A a \in Allowed : action[a].grant \in issued
  BY <1>0 DEF TypeOK, Allowed, NoAction
<1>10. AllowedUnblocked'
  <2>1. Allowed' = Allowed
    BY <1>2 DEF Allowed
  <2>2. ASSUME NEW a \in Allowed
        PROVE  ~Blocked(action[a])'
    <3>1. action[a].grant \in issued /\ ~Blocked(action[a]) /\ action'[a] = action[a]
      BY <1>0, <1>2, <1>9, <2>2 DEF AllowedUnblocked
    <3>2. PICK g \in issued : g = action[a].grant
      BY <3>1
    <3>3. OnChain(g)' = OnChain(g) /\ OnChain(g) \subseteq issued /\ delegation'[g] = delegation[g]
      BY <1>3, <1>5, <1>6
    <3>4. \A x \in OnChain(g) : ScopeOf(x)' = ScopeOf(x)
      BY <1>3, <3>3 DEF ScopeOf
    <3>5. \A k \in Keys : Caps(g, k)' = Caps(g, k)
      BY <3>3, <3>4 DEF Caps
    <3>6. \A k \in Keys : ~OverCap(action[a], k)'
      BY <3>1, <3>2, <3>5 DEF OverCap, Blocked
    <3>7. ~BelowFloor(action[a])'
      BY <3>1, <3>2, <3>3, <3>4 DEF BelowFloor, Blocked
    <3> QED
      BY <3>1, <3>2, <3>3, <3>6, <3>7 DEF Blocked, Expired, ScopeOf
  <2> QED
    BY <1>2, <2>1, <2>2 DEF AllowedUnblocked
<1>11. TaintedStays'
  <2>1. ASSUME NEW a \in tainted
        PROVE  Supports(action[a].actor, action[a].grant)' \cap revoked # {}
    <3>1. action[a] # NoAction /\ Supports(action[a].actor, action[a].grant) \cap revoked # {}
      BY <1>0, <2>1 DEF TaintedStays
    <3>2. PICK g \in issued : g = action[a].grant
      BY <1>0, <3>1, <2>1 DEF TypeOK
    <3>3. OnChain(g)' = OnChain(g) /\ OnChain(g) \subseteq issued
      BY <1>5, <1>6
    <3>4. \A x \in OnChain(g) : delegation'[x] = delegation[x]
      BY <1>3, <3>3
    <3>5. {delegation'[x].issuer : x \in OnChain(g)} = {delegation[x].issuer : x \in OnChain(g)}
      BY <3>4
    <3> QED
      BY <1>2, <3>1, <3>2, <3>3, <3>5 DEF Supports
  <2> QED
    BY <1>0, <1>2, <2>1 DEF TaintedStays
<1>12. RevokedNeverActs'
  BY <1>0, <1>2 DEF RevokedNeverActs, Allowed
<1> QED
  BY <1>7, <1>8, <1>10, <1>11, <1>12 DEF AuthorityInv

LEMMA IssueRootKeeps ==
  ASSUME AuthorityInv, issued # Grants,
         NEW human \in Principals, NEW subject \in Principals, NEW s \in Scopes,
         NEW ttl \in Ttls, IssueRoot(human, subject, s, ttl)
  PROVE  AuthorityInv'
<1>1. now \in Nat /\ ttl \in Nat
  BY AuthorityAssumption DEF AuthorityInv, TypeOK
<1>2. PICK t \in Nat : t = now + ttl
  BY <1>1
<1> DEFINE d == [issuer |-> human, subject |-> subject, scope |-> s, parent |-> NoGrant,
                 expires |-> t]
<1>3. d \in Delegated
  BY DEF Delegated
<1>4. human \in Humans /\ human # subject /\ Store(d)
  BY <1>2 DEF IssueRoot, NotSelf
<1> QED
  BY <1>3, <1>4, StoreKeeps

LEMMA SubDelegateKeeps ==
  ASSUME AuthorityInv, issued # Grants,
         NEW p \in issued, NEW issuer \in Principals, NEW subject \in Principals,
         NEW s \in Scopes, NEW ttl \in Ttls, SubDelegate(p, issuer, subject, s, ttl)
  PROVE  AuthorityInv'
<1>1. /\ p \in issued /\ delegation[p].subject = issuer /\ issuer # subject
      /\ Contains(ScopeOf(p), s) /\ p \in Grants
  BY DEF SubDelegate, Holds, NotSelf, AuthorityInv, TypeOK
<1>2. now \in Nat /\ ttl \in Nat /\ delegation[p].expires \in Nat
  BY <1>1, AuthorityAssumption DEF AuthorityInv, TypeOK, Delegated
<1>3. PICK t \in Nat : t = ExpiryUnder(p, ttl)
  BY <1>2 DEF ExpiryUnder
<1>4. t <= delegation[p].expires
  BY <1>2, <1>3 DEF ExpiryUnder
<1> DEFINE d == [issuer |-> issuer, subject |-> subject, scope |-> s, parent |-> p,
                 expires |-> t]
<1>5. d \in Delegated /\ d.parent # NoGrant
  BY <1>1, AuthorityAssumption DEF Delegated
<1>6. Store(d)
  BY <1>3 DEF SubDelegate
<1> QED
  BY <1>1, <1>4, <1>5, <1>6, StoreKeeps

\* A revocation touches no verdict, and only adds to what taints an action.
LEMMA RevokeKeeps ==
  ASSUME AuthorityInv, NEW x \in Grants \cup Principals, Revoke(x)
  PROVE  AuthorityInv'
<1>0. TypeOK /\ Chained /\ AllowedUnblocked /\ TaintedStays /\ RevokedNeverActs
  BY DEF AuthorityInv
<1>1. /\ x \in issued \cup Principals
      /\ revoked' = revoked \cup {x}
      /\ UNCHANGED <<now, issued, delegation, action, tainted>>
  BY DEF Revoke
<1>2. TypeOK'
  BY <1>0, <1>1 DEF TypeOK
<1>3. Chained'
  BY <1>0, <1>1 DEF Chained, HopVerifies, IsRoot, ScopeOf
<1>4. \A g \in issued : OnChain(g)' = OnChain(g)
  BY <1>0, <1>1, ChainFixed
<1>5. AllowedUnblocked'
  BY <1>0, <1>1 DEF AllowedUnblocked, Allowed, Blocked, OverCap, Caps, BelowFloor, Expired,
     ScopeOf, OnChain, ParentClosed, IsRoot
<1>6. TaintedStays'
  BY <1>0, <1>1 DEF TaintedStays, Supports, OnChain, ParentClosed, IsRoot
<1>7. RevokedNeverActs'
  BY <1>0, <1>1 DEF RevokedNeverActs, Allowed
<1> QED
  BY <1>2, <1>3, <1>5, <1>6, <1>7 DEF AuthorityInv

\* What depends on the grants only is not disturbed by a step that leaves them alone.
LEMMA GrantsFrame ==
  ASSUME UNCHANGED <<issued, delegation>>, NEW r
  PROVE  /\ Blocked(r)' = Blocked(r)
         /\ Supports(r.actor, r.grant)' = Supports(r.actor, r.grant)
         /\ Chained' = Chained
<1>1. OnChain(r.grant)' = OnChain(r.grant)
  BY DEF OnChain, ParentClosed, IsRoot
<1>2. \A k \in Keys : OverCap(r, k)' = OverCap(r, k)
  BY <1>1 DEF OverCap, Caps, ScopeOf
<1>3. BelowFloor(r)' = BelowFloor(r)
  BY <1>1 DEF BelowFloor, ScopeOf
<1>4. Blocked(r)' = Blocked(r)
  BY <1>2, <1>3 DEF Blocked, ScopeOf, Expired
<1>5. Supports(r.actor, r.grant)' = Supports(r.actor, r.grant)
  BY <1>1 DEF Supports
<1>6. Chained' = Chained
  BY DEF Chained, HopVerifies, IsRoot, ScopeOf
<1> QED
  BY <1>4, <1>5, <1>6

LEMMA RecordKeeps ==
  ASSUME AuthorityInv, NEW a \in Actions, NEW actor \in Principals, NEW signed \in BOOLEAN,
         NEW g \in Grants, NEW c \in Calls, RecordAction(a, actor, signed, g, c)
  PROVE  AuthorityInv'
<1>0. TypeOK /\ Chained /\ AllowedUnblocked /\ TaintedStays /\ RevokedNeverActs
  BY DEF AuthorityInv
<1>1. PICK t \in Nat : t = now
  BY <1>0 DEF TypeOK
<1> DEFINE r == [state |-> "recorded", actor |-> actor, signed |-> signed, grant |-> g,
                 call |-> c, at |-> t]
<1>2. /\ action[a].state = "idle" /\ g \in issued
      /\ action' = [action EXCEPT ![a] = r]
      /\ UNCHANGED <<now, issued, delegation, revoked>>
      /\ tainted' = IF Supports(actor, g) \cap revoked # {} THEN tainted \cup {a} ELSE tainted
  BY <1>1 DEF RecordAction
<1>3. r \in Recorded
  BY DEF Recorded
<1>4. action' \in [Actions -> Recorded \cup {NoAction}] /\ action'[a] = r
      /\ \A b \in Actions \ {a} : action'[b] = action[b]
  BY <1>0, <1>2, <1>3 DEF TypeOK
<1>5. TypeOK'
  <2>1. \A b \in Actions : action'[b] # NoAction => action'[b].grant \in issued
    BY <1>0, <1>2, <1>4 DEF TypeOK
  <2> QED
    BY <1>0, <1>2, <1>4, <2>1 DEF TypeOK
<1>6. Allowed' = Allowed
  BY <1>2, <1>4 DEF Allowed
<1>7. a \notin tainted
  BY <1>0, <1>2 DEF TaintedStays, TypeOK, Recorded, NoAction
<1>8. AllowedUnblocked'
  <2>1. ASSUME NEW b \in Allowed
        PROVE  action'[b] = action[b] /\ ~Blocked(action[b])'
    <3>1. PICK y : y = action[b]
      OBVIOUS
    <3>2. ~Blocked(y) /\ action'[b] = y
      BY <1>0, <1>2, <1>4, <2>1, <3>1 DEF AllowedUnblocked, Allowed
    <3> QED
      BY <1>2, <3>1, <3>2, GrantsFrame
  <2> QED
    BY <1>6, <2>1 DEF AllowedUnblocked
<1>9. TaintedStays'
  <2>1. ASSUME NEW b \in tainted
        PROVE  action'[b] # NoAction
               /\ Supports(action[b].actor, action[b].grant)' \cap revoked # {}
    <3>1. PICK y : y = action[b]
      OBVIOUS
    <3>2. y # NoAction /\ Supports(y.actor, y.grant) \cap revoked # {} /\ action'[b] = y
      BY <1>0, <1>4, <1>7, <2>1, <3>1 DEF TaintedStays, TypeOK
    <3> QED
      BY <1>2, <3>1, <3>2, GrantsFrame
  <2>2. a \in tainted' => action'[a] # NoAction /\ Supports(action[a].actor, action[a].grant)' \cap revoked # {}
    <3>1. Supports(r.actor, r.grant)' = Supports(r.actor, r.grant)
      BY <1>2, GrantsFrame
    <3>2. r.actor = actor /\ r.grant = g /\ r # NoAction /\ action'[a] = r
      BY <1>4 DEF NoAction
    <3>3. a \in tainted' => Supports(actor, g) \cap revoked # {}
      BY <1>2, <1>7
    <3> QED
      BY <3>1, <3>2, <3>3
  <2>3. \A b \in tainted' : b \in tainted \/ b = a
    BY <1>2
  <2> QED
    BY <1>2, <2>1, <2>2, <2>3 DEF TaintedStays
<1>10. RevokedNeverActs'
  <2>1. a \notin Allowed
    BY <1>2 DEF Allowed
  <2> QED
    BY <1>0, <1>2, <1>6, <2>1 DEF RevokedNeverActs
<1> QED
  BY <1>0, <1>2, <1>5, <1>8, <1>9, <1>10 DEF AuthorityInv, Chained, HopVerifies, IsRoot, ScopeOf

\* The verdict: an action is allowed only if nothing blocks it and nothing below it
\* is revoked, and a tainted one has something revoked below it.
LEMMA JudgeKeeps ==
  ASSUME AuthorityInv, NEW a \in Actions, Judge(a)
  PROVE  AuthorityInv'
<1>0. TypeOK /\ Chained /\ AllowedUnblocked /\ TaintedStays /\ RevokedNeverActs
  BY DEF AuthorityInv
<1>1. PICK x : x = action[a]
  OBVIOUS
<1>2. PICK v \in {"allowed", "refused"} :
        v = IF ChainVerifies(action[a]) /\ ~Blocked(action[a]) THEN "allowed" ELSE "refused"
  OBVIOUS
<1> DEFINE r == [x EXCEPT !.state = v]
<1>3. /\ x.state = "recorded"
      /\ action' = [action EXCEPT ![a] = r]
      /\ UNCHANGED <<now, issued, delegation, revoked, tainted>>
  BY <1>1, <1>2 DEF Judge
<1>4. x \in Recorded /\ x.grant \in issued
  BY <1>0, <1>1, <1>3 DEF TypeOK, NoAction
<1>5. r \in Recorded /\ r.actor = x.actor /\ r.grant = x.grant /\ r.state = v
  BY <1>4 DEF Recorded
<1>6. /\ action' \in [Actions -> Recorded \cup {NoAction}]
      /\ action'[a] = r
      /\ \A b \in Actions \ {a} : action'[b] = action[b]
  BY <1>0, <1>3, <1>5 DEF TypeOK
<1>7. TypeOK'
  <2>1. \A b \in Actions : action'[b] # NoAction => action'[b].grant \in issued
    BY <1>0, <1>4, <1>5, <1>6 DEF TypeOK
  <2> QED
    BY <1>0, <1>3, <1>6, <2>1 DEF TypeOK
<1>8. Allowed' \subseteq Allowed \cup {a}
      /\ (a \in Allowed' => ChainVerifies(x) /\ ~Blocked(x))
  BY <1>1, <1>2, <1>5, <1>6 DEF Allowed
<1>9. AllowedUnblocked'
  <2>1. ASSUME NEW b \in Allowed, b # a
        PROVE  ~Blocked(action[b])' /\ action'[b] = action[b]
    <3>1. PICK y : y = action[b]
      OBVIOUS
    <3>2. ~Blocked(y) /\ action'[b] = y
      BY <1>0, <1>6, <2>1, <3>1 DEF AllowedUnblocked, Allowed
    <3> QED
      BY <1>3, <3>1, <3>2, GrantsFrame
  <2>2. a \in Allowed' => ~Blocked(action[a])'
    <3>1. Blocked(x)' = Blocked(x)
      BY <1>3, GrantsFrame
    <3>2. Blocked(r)' = Blocked(x)'
      BY <1>4 DEF Blocked, OverCap, BelowFloor, Recorded
    <3> QED
      BY <1>6, <1>8, <3>1, <3>2
  <2> QED
    BY <1>8, <2>1, <2>2 DEF AllowedUnblocked
<1>10. TaintedStays'
  <2>1. ASSUME NEW b \in tainted
        PROVE  action'[b] # NoAction
               /\ Supports(action[b].actor, action[b].grant)' \cap revoked # {}
    <3>1. PICK y : y = action[b]
      OBVIOUS
    <3>2. y # NoAction /\ Supports(y.actor, y.grant) \cap revoked # {} /\ b \in Actions
      BY <1>0, <2>1, <3>1 DEF TaintedStays, TypeOK
    <3>3. PICK z : z = action'[b]
      OBVIOUS
    <3>4. z # NoAction /\ z.actor = y.actor /\ z.grant = y.grant
      <4>1. CASE b = a
        <5>1. r # NoAction
          BY <1>5 DEF NoAction
        <5> HIDE DEF r
        <5>2. z = r /\ y = x
          BY <1>1, <1>6, <3>1, <3>3, <4>1
        <5> QED
          BY <1>5, <5>1, <5>2
      <4>2. CASE b # a
        BY <1>6, <3>1, <3>2, <3>3, <4>2
      <4> QED
        BY <4>1, <4>2
    <3>5. Supports(z.actor, z.grant)' \cap revoked # {}
      BY <1>3, <3>2, <3>4, GrantsFrame
    <3>6. Supports(action[b].actor, action[b].grant)' = Supports(z.actor, z.grant)'
      BY <3>3 DEF Supports
    <3> QED
      BY <3>3, <3>4, <3>5, <3>6
  <2> QED
    BY <1>3, <2>1 DEF TaintedStays
<1>11. RevokedNeverActs'
  <2>1. a \in tainted => Supports(x.actor, x.grant) \cap revoked # {}
    BY <1>0, <1>1 DEF TaintedStays
  <2>2. a \in tainted => a \notin Allowed'
    BY <1>8, <2>1 DEF ChainVerifies, NothingRevoked
  <2> QED
    BY <1>0, <1>3, <1>8, <2>2 DEF RevokedNeverActs
<1>12. Chained'
  BY <1>0, <1>3, GrantsFrame
<1> QED
  BY <1>7, <1>9, <1>10, <1>11, <1>12 DEF AuthorityInv

LEMMA FrameKeeps ==
  ASSUME AuthorityInv, Tick \/ UNCHANGED avars
  PROVE  AuthorityInv'
<1>0. TypeOK /\ Chained /\ AllowedUnblocked /\ TaintedStays /\ RevokedNeverActs
  BY DEF AuthorityInv
<1>1. now' \in Nat /\ UNCHANGED <<issued, delegation, revoked, action, tainted>>
  BY <1>0 DEF Tick, avars, TypeOK
<1>2. TypeOK'
  BY <1>0, <1>1 DEF TypeOK
<1>3. Chained'
  BY <1>0, <1>1 DEF Chained, HopVerifies, IsRoot, ScopeOf
<1>4. AllowedUnblocked' /\ TaintedStays' /\ RevokedNeverActs'
  BY <1>0, <1>1 DEF AllowedUnblocked, TaintedStays, RevokedNeverActs, Allowed, Blocked, OverCap,
     Caps, BelowFloor, Expired, Supports, ScopeOf, OnChain, ParentClosed, IsRoot
<1> QED
  BY <1>2, <1>3, <1>4 DEF AuthorityInv

\* Every step of the specification keeps the invariant.
THEOREM AuthorityInvariant == Spec => []AuthorityInv
<1>1. Init => AuthorityInv
  BY AuthorityInit
<1>2. AuthorityInv /\ [Next]_avars => AuthorityInv'
  <2> SUFFICES ASSUME AuthorityInv, [Next]_avars
               PROVE  AuthorityInv'
    OBVIOUS
  <2>1. ASSUME issued # Grants, NEW human \in Principals, NEW subject \in Principals, NEW s \in Scopes,
               NEW ttl \in Ttls, IssueRoot(human, subject, s, ttl)
        PROVE  AuthorityInv'
    BY <2>1, IssueRootKeeps
  <2>2. ASSUME issued # Grants, NEW p \in issued, NEW issuer \in Principals, NEW subject \in Principals,
               NEW s \in Scopes, NEW ttl \in Ttls, SubDelegate(p, issuer, subject, s, ttl)
        PROVE  AuthorityInv'
    BY <2>2, SubDelegateKeeps
  <2>3. ASSUME NEW x \in Grants \cup Principals, Revoke(x)
        PROVE  AuthorityInv'
    BY <2>3, RevokeKeeps
  <2>4. ASSUME NEW a \in Actions, NEW actor \in Principals, NEW signed \in BOOLEAN,
               NEW g \in Grants, NEW c \in Calls, RecordAction(a, actor, signed, g, c)
        PROVE  AuthorityInv'
    BY <2>4, RecordKeeps
  <2>5. ASSUME NEW a \in Actions, Judge(a)
        PROVE  AuthorityInv'
    BY <2>5, JudgeKeeps
  <2>6. CASE Tick \/ UNCHANGED avars
    BY <2>6, FrameKeeps
  <2> QED
    BY <2>1, <2>2, <2>3, <2>4, <2>5, <2>6 DEF Next
<1> QED
  BY <1>1, <1>2, PTL DEF Spec

\* Whatever is issued, revoked and decided, in any order: an allowed action is within
\* the scope, the caps, the floor and the lifetime of every grant its authority comes from.
THEOREM AuthorityOnlyNarrows == Spec => []AuthorityNarrows
<1>1. ASSUME AuthorityInv
      PROVE  AuthorityNarrows
  <2>1. TypeOK /\ Chained /\ AllowedUnblocked
    BY <1>1 DEF AuthorityInv
  <2>2. \A a \in Allowed : ~Blocked(action[a])
    BY <2>1 DEF AllowedUnblocked
  <2>3. AncestorsPermit
    BY <2>1, <2>2, UnblockedWithin DEF AncestorsPermit
  <2>4. NotOutlived
    BY <2>1, <2>2, UnblockedWithin DEF NotOutlived
  <2> QED
    BY <2>1, <2>3, <2>4 DEF AuthorityNarrows
<1> QED
  BY <1>1, AuthorityInvariant, PTL

\* Authority that was revoked when an action was recorded does not let it through.
THEOREM RevokedStaysPowerless == Spec => []RevokedNeverActs
<1>1. AuthorityInv => RevokedNeverActs
  BY DEF AuthorityInv
<1> QED
  BY <1>1, AuthorityInvariant, PTL

\* What the engine issues, its own walk accepts.
THEOREM IssuedGrantsStayValid == Spec => []IssuedGrantsVerify
<1>1. ASSUME AuthorityInv
      PROVE  IssuedGrantsVerify
  BY <1>1 DEF AuthorityInv, Chained, IssuedGrantsVerify, OnChain
<1> QED
  BY <1>1, AuthorityInvariant, PTL
=============================================================================
