--------------------------- MODULE McpProxy_proofs ---------------------------
(***************************************************************************)
(* Proofs about McpProxy: the main thread and the pump never resolve the   *)
(* same call, every call is accounted for, and together they keep a        *)
(* CallBook.                                                               *)
(*                                                                         *)
(* The reason for the first is ownership: a planned call is named in one   *)
(* place only, the hand of the main thread, the pending map, the hand of   *)
(* the pump or the list of the shutdown, and each step moves it from one   *)
(* to another.  For the second, a call is followed on its way: to the      *)
(* server, into its queue, to the pump and to the client, with what must   *)
(* be true of the journal at each place.  What a step of the book asks for *)
(* is what these say before the step or after it.                          *)
(***************************************************************************)
EXTENDS McpProxy, TLAPS

MainStates ==
  [at : {"reading", "registering", "writing", "closing", "abandoning", "exited"},
   call : Calls \cup {NoCall}, left : SUBSET Calls]

PumpStates ==
  [at : {"reading", "resolving", "forwarding", "dead"}, call : Calls \cup {NoCall},
   kind : {"result", "error", "request"}, answers : Calls \cup {NoCall}]

\* The types of what the ownership argument reads.
HandsOK ==
  /\ main \in MainStates
  /\ pump \in PumpStates
  /\ pending \in [Ids -> Calls \cup {NoCall}]
  /\ journal \in [Calls -> {"none", "refused", "planned", "committed", "abandoned"}]
  /\ outbox \in Seq(Messages)
  /\ inbox \subseteq {c \in Calls : IdOf[c] \in Ids}
  /\ main.at \in {"registering", "writing"} =>
       main.call \in Calls /\ IdOf[main.call] \in Ids

\* A pending call is under its own id.
KeyedById == \A i \in Ids : pending[i] # NoCall => IdOf[pending[i]] = i

Registering(c) == main.at = "registering" /\ main.call = c
Registered(c) == \E i \in Ids : pending[i] = c
Resolving(c) == pump.at = "resolving" /\ pump.call = c
Left(c) == main.at = "abandoning" /\ c \in main.left

\* Whoever holds a call holds it alone, and the call is unresolved.
Ownership(c) ==
  /\ Registering(c) \/ Registered(c) \/ Resolving(c) \/ Left(c) => journal[c] = "planned"
  /\ Registering(c) => ~Registered(c) /\ ~Resolving(c)
  /\ Registered(c) => ~Resolving(c) /\ ~Left(c)
  /\ Resolving(c) => ~Left(c)

OwnInv ==
  /\ HandsOK
  /\ KeyedById
  /\ pump.at = "resolving" => pump.call \in Calls
  /\ \A c \in Calls : Ownership(c)

-----------------------------------------------------------------------------

\* The first message of a queue is a message, and the rest is a queue.
LEMMA HeadIsMessage ==
  ASSUME outbox \in Seq(Messages), outbox # <<>>
  PROVE  /\ Head(outbox) \in Messages
         /\ Head(outbox).id \in Ids
         /\ Tail(outbox) \in Seq(Messages)
<1>1. Head(outbox) \in Messages /\ Tail(outbox) \in Seq(Messages)
  OBVIOUS
<1> QED
  BY <1>1 DEF Messages

\* The main thread takes a call that nobody holds, hands it to the map, and at
\* the end takes from the map what is left there.
LEMMA MainKeepsOwnership ==
  ASSUME OwnInv,
         \/ \E c \in Calls : Refuse(c) \/ Authorize(c) \/ AbandonStranded(c)
         \/ Leave \/ Register \/ Write \/ WriteFails \/ Strand \/ Exit
  PROVE  OwnInv'
<1> USE CallsAssumption
<1>1. /\ HandsOK /\ KeyedById
      /\ pump.at = "resolving" => pump.call \in Calls
      /\ \A c \in Calls : Ownership(c)
  BY DEF OwnInv
<1>2. ASSUME NEW d \in Calls, Refuse(d)
      PROVE  OwnInv'
  <2>1. HandsOK' /\ KeyedById' /\ (pump'.at = "resolving" => pump'.call \in Calls)
    BY <1>1, <1>2 DEF HandsOK, MainStates, KeyedById, Refuse, Sends
  <2>2. ASSUME NEW c \in Calls PROVE Ownership(c)'
    BY <1>1, <1>2 DEF HandsOK, Ownership, Registering, Registered, Resolving, Left,
                      Refuse, Sends
  <2> QED
    BY <2>1, <2>2 DEF OwnInv
<1>3. ASSUME NEW d \in Calls, Authorize(d)
      PROVE  OwnInv'
  <2>1. main' = [main EXCEPT !.at = "registering", !.call = d]
        /\ main'.at = "registering" /\ main'.call = d /\ main'.left = main.left
    BY <1>1, <1>3 DEF Authorize, HandsOK, MainStates
  <2>2. HandsOK' /\ KeyedById' /\ (pump'.at = "resolving" => pump'.call \in Calls)
    BY <1>1, <1>3, <2>1 DEF HandsOK, MainStates, KeyedById, Authorize, Sends
  <2>3. ASSUME NEW c \in Calls PROVE Ownership(c)'
    BY <1>1, <1>3, <2>1 DEF HandsOK, Ownership, Registering, Registered, Resolving,
                            Left, Authorize, Sends
  <2> QED
    BY <2>2, <2>3 DEF OwnInv
<1>4. ASSUME Register
      PROVE  OwnInv'
  <2>1. main'.at = "writing" /\ main'.call = main.call /\ main'.left = main.left
    BY <1>1, <1>4 DEF Register, HandsOK, MainStates
  <2>2. /\ main.call \in Calls /\ IdOf[main.call] \in Ids
        /\ pending' = [pending EXCEPT ![IdOf[main.call]] = main.call]
    BY <1>1, <1>4 DEF HandsOK, Register
  <2>3. HandsOK' /\ KeyedById' /\ (pump'.at = "resolving" => pump'.call \in Calls)
    BY <1>1, <1>4, <2>1, <2>2 DEF HandsOK, MainStates, KeyedById, Register
  <2>4. ASSUME NEW c \in Calls PROVE Ownership(c)'
    <3>1. Registered(c)' => Registered(c) \/ Registering(c)
      BY <1>1, <1>4, <2>2 DEF HandsOK, Registered, Registering, Register
    <3> QED
      BY <3>1, <1>1, <1>4, <2>1 DEF Ownership, Registering, Registered, Resolving, Left, Register
  <2> QED
    BY <2>3, <2>4 DEF OwnInv
<1>5. ASSUME Write \/ WriteFails \/ Leave \/ Exit
      PROVE  OwnInv'
  <2>1. /\ main'.at \in {"reading", "closing", "exited"} /\ main'.left = main.left
        /\ UNCHANGED <<pump, pending, journal, outbox>>
    BY <1>1, <1>5 DEF HandsOK, MainStates, Write, WriteFails, Leave, Exit
  <2>2. HandsOK' /\ KeyedById' /\ (pump'.at = "resolving" => pump'.call \in Calls)
    BY <1>1, <1>5, <2>1 DEF HandsOK, MainStates, KeyedById, Write, WriteFails, Leave, Exit
  <2>3. ASSUME NEW c \in Calls PROVE Ownership(c)'
    BY <1>1, <2>1 DEF Ownership, Registering, Registered, Resolving, Left
  <2> QED
    BY <2>2, <2>3 DEF OwnInv
<1>6. ASSUME Strand
      PROVE  OwnInv'
  <2>1. /\ main'.at = "abandoning" /\ main'.left = Waiting
        /\ \A i \in Ids : pending'[i] = NoCall
        /\ UNCHANGED <<pump, journal, outbox, inbox>>
    BY <1>1, <1>6 DEF HandsOK, MainStates, Strand
  <2>2. Waiting \subseteq Calls /\ \A c \in Waiting : Registered(c)
    BY <1>1 DEF HandsOK, Waiting, Registered
  <2>3. HandsOK' /\ KeyedById' /\ (pump'.at = "resolving" => pump'.call \in Calls)
    BY <1>1, <1>6, <2>1, <2>2 DEF HandsOK, MainStates, KeyedById, Strand
  <2>4. ASSUME NEW c \in Calls PROVE Ownership(c)'
    <3>1. ~Registered(c)' /\ ~Registering(c)'
      BY <2>1 DEF Registered, Registering
    <3>2. Left(c)' => Registered(c)
      BY <2>1, <2>2 DEF Left
    <3> QED
      BY <3>1, <3>2, <1>1, <2>1 DEF Ownership, Resolving
  <2> QED
    BY <2>3, <2>4 DEF OwnInv
<1>7. ASSUME NEW d \in Calls, AbandonStranded(d)
      PROVE  OwnInv'
  <2>1. /\ main.at = "abandoning" /\ d \in main.left
        /\ main'.at = "abandoning" /\ main'.left = main.left \ {d} /\ main' \in MainStates
        /\ UNCHANGED <<pump, pending, outbox, inbox>>
        /\ journal' = [journal EXCEPT ![d] = "abandoned"]
    BY <1>1, <1>7 DEF HandsOK, AbandonStranded, MainStates
  <2>2. HandsOK' /\ KeyedById' /\ (pump'.at = "resolving" => pump'.call \in Calls)
    BY <1>1, <2>1 DEF HandsOK, KeyedById
  <2>3. Left(d) /\ ~Registered(d) /\ ~Resolving(d)
    BY <1>1, <2>1 DEF Left, Ownership
  <2>4. ASSUME NEW c \in Calls PROVE Ownership(c)'
    BY <1>1, <2>1, <2>3 DEF HandsOK, Ownership, Registering, Registered, Resolving, Left
  <2> QED
    BY <2>2, <2>4 DEF OwnInv
<1> QED
  BY <1>2, <1>3, <1>4, <1>5, <1>6, <1>7

\* The pump takes a call out of the map, and resolves only what it took.
LEMMA PumpKeepsOwnership ==
  ASSUME OwnInv,
         PumpReads \/ Resolve \/ Forward \/ \E committed \in BOOLEAN : PumpDies(committed)
  PROVE  OwnInv'
<1> USE CallsAssumption
<1>1. /\ HandsOK /\ KeyedById
      /\ pump.at = "resolving" => pump.call \in Calls
      /\ \A c \in Calls : Ownership(c)
  BY DEF OwnInv
<1>2. ASSUME PumpReads, Match(Head(outbox)) = NoCall
      PROVE  OwnInv'
  <2>1. /\ pump'.at = "forwarding" /\ pump' \in PumpStates
        /\ UNCHANGED <<main, pending, journal, inbox>>
        /\ outbox' \in Seq(Messages)
    BY <1>1, <1>2, HeadIsMessage DEF PumpReads, HandsOK, PumpStates, Messages
  <2>2. HandsOK' /\ KeyedById'
    BY <1>1, <2>1 DEF HandsOK, KeyedById
  <2>3. ASSUME NEW c \in Calls PROVE Ownership(c)'
    BY <1>1, <2>1 DEF Ownership, Registering, Registered, Resolving, Left
  <2> QED
    BY <2>1, <2>2, <2>3 DEF OwnInv
<1>3. ASSUME PumpReads, Match(Head(outbox)) # NoCall
      PROVE  OwnInv'
  <2>0. Head(outbox).id \in Ids /\ outbox' \in Seq(Messages)
    BY <1>1, <1>3, HeadIsMessage DEF PumpReads, HandsOK
  <2>1. PICK i \in Ids : i = Head(outbox).id
    BY <2>0
  <2>2. PICK d \in Calls : d = pending[i] /\ IdOf[d] = i /\ Registered(d)
    BY <1>1, <1>3, <2>1 DEF Match, HandsOK, KeyedById, Registered
  <2>3. /\ pump'.at = "resolving" /\ pump'.call = d /\ pump' \in PumpStates
        /\ pending' = [pending EXCEPT ![i] = NoCall]
        /\ UNCHANGED <<main, journal, inbox>>
    <3>1. Head(outbox) \in Messages
      BY <1>1, <1>3, HeadIsMessage DEF PumpReads, HandsOK
    <3> QED
      BY <1>3, <2>1, <2>2, <3>1 DEF PumpReads, Match, PumpStates, Messages
  <2>4. /\ pending \in [Ids -> Calls \cup {NoCall}]
        /\ \A j \in Ids : pending[j] # NoCall => IdOf[pending[j]] = j
    BY <1>1 DEF HandsOK, KeyedById
  <2>5. HandsOK' /\ KeyedById'
    BY <1>1, <2>0, <2>3 DEF HandsOK, KeyedById
  <2>6. ~Registered(d)'
    <3>1. pending'[i] # d
      BY <2>1, <2>2, <2>3, <2>4
    <3>2. ASSUME NEW j \in Ids, j # i PROVE pending'[j] # d
      <4>1. pending'[j] = pending[j]
        BY <3>2, <2>3, <2>4
      <4>2. SUFFICES ASSUME pending[j] = d PROVE FALSE
        BY <4>1
      <4>3. IdOf[pending[j]] = j
        BY <4>2, <3>2, <2>4, <2>2
      <4> QED
        BY <4>2, <4>3, <3>2, <2>2
    <3>3. \A j \in Ids : pending'[j] # d
      BY <3>1, <3>2
    <3> QED
      BY <3>3 DEF Registered
  <2>7. ASSUME NEW c \in Calls PROVE Registered(c)' => Registered(c)
    BY <2>1, <2>3, <2>4 DEF Registered
  <2>8. ASSUME NEW c \in Calls PROVE Ownership(c)'
    <3>1. /\ Registering(c)' = Registering(c) /\ Left(c)' = Left(c)
          /\ Resolving(c)' => c = d
      BY <2>3 DEF Registering, Left, Resolving
    <3>2. Ownership(c) /\ Ownership(d)
      BY <1>1, <2>2
    <3>3. CASE c = d
      <4>1. journal[d] = "planned" /\ ~Registering(d) /\ ~Left(d)
        BY <3>2, <2>2 DEF Ownership
      <4>2. journal'[d] = "planned" /\ ~Registering(d)' /\ ~Left(d)'
        BY <4>1, <3>1, <3>3, <2>3
      <4>3. Ownership(d)'
        BY <4>2, <2>6 DEF Ownership
      <4> QED
        BY <4>3, <3>3
    <3>4. CASE c # d
      BY <3>1, <3>2, <3>4, <2>3, <2>7 DEF Ownership
    <3> QED
      BY <3>3, <3>4
  <2> QED
    BY <2>2, <2>3, <2>5, <2>8 DEF OwnInv
<1>4. ASSUME Resolve \/ \E committed \in BOOLEAN : PumpDies(committed)
      PROVE  OwnInv'
  <2>1. /\ pump.at = "resolving" /\ pump.call \in Calls
        /\ pump'.at \in {"forwarding", "dead"} /\ pump' \in PumpStates
        /\ UNCHANGED <<main, pending, outbox, inbox>>
        /\ \/ journal' = journal
           \/ journal' = [journal EXCEPT ![pump.call] = "committed"]
           \/ journal' = [journal EXCEPT ![pump.call] = "abandoned"]
    <3>1. pump.at = "resolving" /\ pump.call \in Calls /\ pump \in PumpStates
      BY <1>1, <1>4 DEF Resolve, PumpDies, PumpRuns, HandsOK
    <3>2. CASE Resolve
      BY <3>1, <3>2 DEF Resolve, Outcome, PumpStates
    <3>3. CASE \E committed \in BOOLEAN : PumpDies(committed)
      BY <3>1, <3>3 DEF PumpDies, PumpStates
    <3> QED
      BY <1>4, <3>1, <3>2, <3>3
  <2>2. HandsOK' /\ KeyedById'
    BY <1>1, <2>1 DEF HandsOK, KeyedById
  <2>3. ASSUME NEW c \in Calls PROVE Ownership(c)'
    <3>1. Registering(c)' = Registering(c) /\ Registered(c)' = Registered(c)
          /\ Left(c)' = Left(c) /\ ~Resolving(c)'
      BY <2>1 DEF Registering, Registered, Left, Resolving
    <3>2. CASE c = pump.call
      BY <3>1, <3>2, <1>1, <2>1 DEF Ownership, Resolving
    <3>3. CASE c # pump.call
      BY <3>1, <3>3, <1>1, <2>1 DEF Ownership, HandsOK
    <3> QED
      BY <3>2, <3>3
  <2> QED
    BY <2>1, <2>2, <2>3 DEF OwnInv
<1>5. ASSUME Forward
      PROVE  OwnInv'
  <2>1. /\ pump'.at = "reading" /\ pump' \in PumpStates
        /\ UNCHANGED <<main, pending, journal, outbox, inbox>>
    BY <1>5 DEF Forward, Reading, PumpStates
  <2>2. HandsOK' /\ KeyedById'
    BY <1>1, <2>1 DEF HandsOK, KeyedById
  <2>3. ASSUME NEW c \in Calls PROVE Ownership(c)'
    BY <1>1, <2>1 DEF Ownership, Registering, Registered, Resolving, Left
  <2> QED
    BY <2>1, <2>2, <2>3 DEF OwnInv
<1> QED
  BY <1>2, <1>3, <1>4, <1>5

\* What the server does, and stuttering, moves no call between hands.
LEMMA ServerKeepsOwnership ==
  ASSUME OwnInv,
         \/ \E c \in Calls, answer \in {"result", "error", "none"} : Serve(c, answer)
         \/ \E i \in ServerIds : Ask(i)
         \/ ServerExits
         \/ UNCHANGED vars
  PROVE  OwnInv'
<1> USE CallsAssumption
<1>1. /\ HandsOK /\ KeyedById
      /\ pump.at = "resolving" => pump.call \in Calls
      /\ \A c \in Calls : Ownership(c)
  BY DEF OwnInv
<1>2. UNCHANGED <<main, pump, pending, journal>>
  BY DEF Serve, Ask, ServerExits, vars
<1>3. inbox' \subseteq inbox
  BY DEF Serve, Ask, ServerExits, vars
<1>4. outbox' \in Seq(Messages)
  <2>1. ASSUME NEW c \in Calls, NEW answer \in {"result", "error", "none"}, Serve(c, answer)
        PROVE  outbox' \in Seq(Messages)
    <3>1. answer # "none" => [id |-> IdOf[c], kind |-> answer, call |-> c] \in Messages
      BY <1>1, <2>1 DEF HandsOK, Serve, Messages
    <3> QED
      BY <1>1, <2>1, <3>1 DEF HandsOK, Serve
  <2>2. ASSUME NEW i \in ServerIds, Ask(i)
        PROVE  outbox' \in Seq(Messages)
    <3>1. [id |-> i, kind |-> "request", call |-> NoCall] \in Messages
      BY DEF Messages
    <3> QED
      BY <1>1, <2>2, <3>1 DEF HandsOK, Ask
  <2>3. CASE ServerExits \/ UNCHANGED vars
    BY <1>1, <2>3 DEF HandsOK, ServerExits, vars
  <2> QED
    BY <2>1, <2>2, <2>3
<1>5. HandsOK' /\ KeyedById'
  BY <1>1, <1>2, <1>3, <1>4 DEF HandsOK, KeyedById
<1>6. ASSUME NEW c \in Calls PROVE Ownership(c)'
  BY <1>1, <1>2 DEF Ownership, Registering, Registered, Resolving, Left
<1> QED
  BY <1>1, <1>2, <1>5, <1>6 DEF OwnInv

-----------------------------------------------------------------------------

\* A planned call has one holder in every reachable state.
THEOREM CallsAreOwned == Spec => []OwnInv
<1>1. Init => OwnInv
  <2> SUFFICES ASSUME Init PROVE OwnInv
    OBVIOUS
  <2>1. HandsOK /\ KeyedById
    BY DEF Init, Reading, HandsOK, MainStates, PumpStates, KeyedById
  <2>2. ASSUME NEW c \in Calls PROVE Ownership(c)
    BY CallsAssumption DEF Init, Reading, Ownership, Registering, Registered, Resolving, Left
  <2> QED
    BY <2>1, <2>2 DEF OwnInv, Init, Reading
<1>2. OwnInv /\ [Next]_vars => OwnInv'
  <2> SUFFICES ASSUME OwnInv, [Next]_vars PROVE OwnInv'
    OBVIOUS
  <2>1. CASE \/ \E c \in Calls : Refuse(c) \/ Authorize(c) \/ AbandonStranded(c)
             \/ Leave \/ Register \/ Write \/ WriteFails \/ Strand \/ Exit
    BY <2>1, MainKeepsOwnership
  <2>2. CASE PumpReads \/ Resolve \/ Forward \/ \E committed \in BOOLEAN : PumpDies(committed)
    BY <2>2, PumpKeepsOwnership
  <2>3. CASE \/ \E c \in Calls, answer \in {"result", "error", "none"} : Serve(c, answer)
             \/ \E i \in ServerIds : Ask(i)
             \/ ServerExits
             \/ UNCHANGED vars
    BY <2>3, ServerKeepsOwnership
  <2> QED
    BY <2>1, <2>2, <2>3 DEF Next, MainStep, PumpStep
<1> QED
  BY <1>1, <1>2, PTL DEF Spec

\* A call is resolved once: what the pump confirmed, or the shutdown abandoned,
\* the other thread does not resolve again.
ResolvedOnce ==
  [][\A c \in Calls : journal[c] \in {"committed", "abandoned"} => journal'[c] = journal[c]]_vars

\* For any calls and ids, and any server: what one thread resolved, neither
\* thread resolves again.
THEOREM ResolvedForGood == Spec => ResolvedOnce
<1>1. OwnInv /\ [Next]_vars =>
        [\A c \in Calls : journal[c] \in {"committed", "abandoned"} => journal'[c] = journal[c]]_vars
  <2> SUFFICES ASSUME OwnInv, Next, NEW c \in Calls, journal[c] \in {"committed", "abandoned"}
               PROVE  journal'[c] = journal[c]
    OBVIOUS
  <2>1. ~Resolving(c) /\ ~Left(c) /\ journal[c] # "none" /\ HandsOK
    BY DEF OwnInv, Ownership
  <2>2. CASE \E d \in Calls : Refuse(d) \/ Authorize(d)
    BY <2>1, <2>2 DEF HandsOK, Refuse, Authorize, Sends
  <2>3. CASE \E d \in Calls : AbandonStranded(d)
    BY <2>1, <2>3 DEF HandsOK, AbandonStranded, Left
  <2>4. CASE Resolve \/ \E committed \in BOOLEAN : PumpDies(committed)
    BY <2>1, <2>4 DEF HandsOK, Resolve, PumpDies, PumpRuns, Resolving
  <2>5. CASE \/ Leave \/ Register \/ Write \/ WriteFails \/ Strand \/ Exit
             \/ PumpReads \/ Forward \/ ServerExits
             \/ \E d \in Calls, answer \in {"result", "error", "none"} : Serve(d, answer)
             \/ \E i \in ServerIds : Ask(i)
    BY <2>5 DEF Leave, Register, Write, WriteFails, Strand, Exit, PumpReads, Forward,
                ServerExits, Serve, Ask
  <2> QED
    BY <2>2, <2>3, <2>4, <2>5 DEF Next, MainStep, PumpStep
<1> QED
  BY <1>1, CallsAreOwned, PTL DEF Spec, ResolvedOnce

-----------------------------------------------------------------------------

\* An answer to the call waits to be read.
Waits(c) == \E k \in DOMAIN outbox : outbox[k].call = c

\* The call was written to the server.
Sent(c) == c \in inbox \/ Waits(c) \/ pump.answers = c \/ c \in told \/ c \in landed

\* The main thread has authorized the call and not written it.
AtHand(c) == main.at \in {"registering", "writing"} /\ main.call = c

Started(c) == journal[c] \notin {"none", "refused"}

Settled(c) == journal[c] \in {"committed", "abandoned"} \/ c \in stranded

\* A call on its way to the server and back is in one place at a time.
InOnePlace(c) ==
  /\ c \in inbox => ~Waits(c) /\ pump.answers # c /\ c \notin told /\ c \notin landed
  /\ Waits(c) => pump.answers # c /\ c \notin told
  /\ pump.answers = c => c \notin told
  /\ Sent(c) => Started(c) /\ ~AtHand(c)
  /\ AtHand(c) => Started(c)

\* Of two calls with one id that were let through, one was answered before.
OneOpenById ==
  \A c, d \in Calls :
    c # d /\ IdOf[c] = IdOf[d] /\ Started(c) /\ Started(d) => c \in told \/ d \in told

\* What the server wrote: answers that say what happened, and requests.
MessageTrue(m) ==
  /\ m.call # NoCall =>
       m.id = IdOf[m.call] /\ m.kind # "request" /\ (m.kind = "result" <=> m.call \in landed)
  /\ m.call = NoCall => m.kind = "request" /\ m.id \in asked

OutboxTrue ==
  /\ \A k \in DOMAIN outbox : MessageTrue(outbox[k])
  /\ \A k, l \in DOMAIN outbox :
       outbox[k].call = outbox[l].call /\ outbox[k].call # NoCall => k = l

\* The shutdown takes all that is pending, and nothing gets pending after it.
ShutdownInv ==
  IF main.at \in {"abandoning", "exited"}
  THEN /\ \A i \in Ids : pending[i] = NoCall
       /\ main.at = "abandoning" => main.left \subseteq stranded
  ELSE stranded = {}

\* The pump resolves a call on its own answer, or on a request under its id.
ResolvesRightly(c) ==
  Resolving(c) =>
    \/ pump.kind = "request" /\ IdOf[c] \in asked
    \/ /\ pump.answers = c /\ pump.kind # "request"
       /\ pump.kind = "result" <=> c \in landed

\* A call that was registered stays with someone until it is settled.
Kept(c) ==
  c \in inbox \/ Waits(c) \/ c \in landed \/ (main.at = "writing" /\ main.call = c) =>
    Registered(c) \/ Settled(c) \/ pump.call = c

Answered(c) ==
  /\ c \in told => Settled(c)
  /\ pump.at \in {"resolving", "forwarding"} /\ pump.answers = c => Settled(c) \/ pump.call = c

SettledTruly(c) ==
  /\ journal[c] = "committed" => c \in landed \/ IdOf[c] \in asked
  /\ journal[c] = "abandoned" /\ c \notin stranded =>
       c \notin landed /\ c \notin inbox /\ ~AtHand(c)

Course(c) ==
  /\ InOnePlace(c)
  /\ ResolvesRightly(c)
  /\ Kept(c)
  /\ Answered(c)
  /\ SettledTruly(c)

AccountInv ==
  /\ OwnInv
  /\ TypeOK
  /\ OneOpenById
  /\ OutboxTrue
  /\ ShutdownInv
  /\ pump.at \in {"reading", "forwarding"} => pump.call = NoCall
  /\ \A c \in Calls : Course(c)

\* A pending call is unsettled, nobody has read its answer, and the shutdown has not begun.
LEMMA RegisteredIsOpen ==
  ASSUME AccountInv, NEW c \in Calls, Registered(c)
  PROVE  /\ journal[c] = "planned" /\ c \notin told /\ c \notin stranded
         /\ main.at \notin {"abandoning", "exited"} /\ IdOf[c] \in Ids /\ pending[IdOf[c]] = c
<1>1. journal[c] = "planned"
  BY DEF AccountInv, OwnInv, Ownership
<1>2. PICK i \in Ids : pending[i] = c
  BY DEF Registered
<1>3. IdOf[c] = i /\ main.at \notin {"abandoning", "exited"} /\ stranded = {}
  BY <1>2, CallsAssumption DEF AccountInv, OwnInv, KeyedById, ShutdownInv
<1> QED
  BY <1>1, <1>2, <1>3 DEF AccountInv, Course, Answered, Settled

\* The client sends a call: it is refused, or comes into the hand of the main thread.
LEMMA SendKeepsAccounts ==
  ASSUME AccountInv, NEW d \in Calls, Refuse(d) \/ Authorize(d)
  PROVE  AccountInv'
<1> USE CallsAssumption
<1>1. OwnInv'
  BY MainKeepsOwnership DEF AccountInv
<1>2. /\ main.at = "reading" /\ main'.at \in {"reading", "registering"}
      /\ main'.at = "registering" => main'.call = d
      /\ UNCHANGED <<pump, pending, stranded, inbox, outbox, alive, landed, told, asked>>
      /\ journal[d] = "none" /\ journal'[d] \in {"refused", "planned"}
      /\ main'.at = "registering" => journal'[d] = "planned"
      /\ \A c \in Calls : c # d => journal'[c] = journal[c]
      /\ \A c \in Calls \ {d} : IdOf[c] = IdOf[d] => ~Started(c) \/ c \in told
  BY DEF AccountInv, TypeOK, Refuse, Authorize, Sends, Started
<1>3. TypeOK'
  BY <1>1, <1>2 DEF AccountInv, OwnInv, HandsOK, MainStates, PumpStates, TypeOK
<1>4. OneOpenById'
  BY <1>2 DEF AccountInv, OneOpenById, Started
<1>5. OutboxTrue' /\ ShutdownInv' /\ (pump'.at \in {"reading", "forwarding"} => pump'.call = NoCall)
  BY <1>2 DEF AccountInv, OutboxTrue, MessageTrue, ShutdownInv
<1>6. ASSUME NEW c \in Calls PROVE Course(c)'
  <2>1. Course(c) /\ Ownership(c)
    BY DEF AccountInv, OwnInv
  <2>2. /\ Waits(c)' = Waits(c) /\ Registered(c)' = Registered(c) /\ Resolving(c)' = Resolving(c)
        /\ AtHand(c)' => c = d /\ journal'[d] = "planned"
        /\ ~AtHand(c)
    BY <1>2 DEF Waits, Registered, Resolving, AtHand
  <2>3. InOnePlace(c)'
    BY <1>2, <2>1, <2>2 DEF Course, InOnePlace, Sent, Started
  <2>4. ResolvesRightly(c)'
    BY <1>2, <2>1, <2>2 DEF Course, ResolvesRightly
  <2>5. Kept(c)' /\ Answered(c)'
    BY <1>2, <2>1, <2>2 DEF Course, InOnePlace, Sent, Started, Kept, Answered, Settled
  <2>6. SettledTruly(c)'
    BY <1>2, <2>1, <2>2 DEF Course, SettledTruly
  <2> QED
    BY <2>3, <2>4, <2>5, <2>6 DEF Course
<1> QED
  BY <1>1, <1>3, <1>4, <1>5, <1>6 DEF AccountInv

\* The call at hand is put under its id, where nothing was.
LEMMA RegisterKeepsAccounts ==
  ASSUME AccountInv, Register
  PROVE  AccountInv'
<1> USE CallsAssumption
<1>1. OwnInv'
  BY MainKeepsOwnership DEF AccountInv
<1>2. PICK d \in Calls : d = main.call /\ IdOf[d] \in Ids
  BY DEF AccountInv, OwnInv, HandsOK, Register
<1>3. /\ main.at = "registering" /\ main'.at = "writing" /\ main'.call = d
      /\ pending' = [pending EXCEPT ![IdOf[d]] = d]
      /\ UNCHANGED <<pump, stranded, journal, inbox, outbox, alive, landed, told, asked>>
  BY <1>2 DEF AccountInv, TypeOK, Register
<1>4. TypeOK'
  BY <1>1, <1>3 DEF AccountInv, OwnInv, HandsOK, MainStates, PumpStates, TypeOK
<1>5. OneOpenById' /\ OutboxTrue' /\ ShutdownInv'
      /\ (pump'.at \in {"reading", "forwarding"} => pump'.call = NoCall)
  BY <1>3 DEF AccountInv, OneOpenById, Started, OutboxTrue, MessageTrue, ShutdownInv
<1>6. ASSUME NEW c \in Calls, Registered(c), c # d PROVE Registered(c)'
  <2>1. /\ pending[IdOf[c]] = c /\ IdOf[c] \in Ids /\ c \notin told /\ Started(c)
    BY <1>6, RegisteredIsOpen DEF Started
  <2>2. Started(d) /\ d \notin told
    BY <1>2, <1>3 DEF AccountInv, Course, InOnePlace, Sent, AtHand
  <2>3. IdOf[c] # IdOf[d]
    BY <1>6, <2>1, <2>2 DEF AccountInv, OneOpenById
  <2> QED
    BY <1>2, <1>3, <2>1, <2>3 DEF AccountInv, TypeOK, Registered
<1>7. Registered(d)'
  BY <1>2, <1>3 DEF AccountInv, TypeOK, Registered
<1>8. ASSUME NEW c \in Calls PROVE Course(c)'
  <2>1. Course(c)
    BY DEF AccountInv
  <2>2. /\ Waits(c)' = Waits(c) /\ Resolving(c)' = Resolving(c) /\ AtHand(c)' = AtHand(c)
        /\ Settled(c)' = Settled(c) /\ Started(c)' = Started(c) /\ Sent(c)' = Sent(c)
    BY <1>2, <1>3 DEF Waits, Resolving, AtHand, Settled, Started, Sent
  <2>3. InOnePlace(c)' /\ ResolvesRightly(c)' /\ Answered(c)' /\ SettledTruly(c)'
    BY <1>3, <2>1, <2>2 DEF Course, InOnePlace, ResolvesRightly, Answered, SettledTruly
  <2>4. Kept(c)'
    BY <1>3, <1>6, <1>7, <2>1, <2>2 DEF Course, Kept
  <2> QED
    BY <2>3, <2>4 DEF Course
<1> QED
  BY <1>1, <1>4, <1>5, <1>8 DEF AccountInv

\* The call at hand is written, or the main thread leaves it.
LEMMA WriteKeepsAccounts ==
  ASSUME AccountInv, Write \/ WriteFails \/ Leave
  PROVE  AccountInv'
<1> USE CallsAssumption
<1>1. OwnInv'
  BY MainKeepsOwnership DEF AccountInv
<1>2. /\ main.at \in {"reading", "registering", "writing"} /\ main'.at \in {"reading", "closing"}
      /\ UNCHANGED <<pump, pending, stranded, journal, outbox, alive, landed, told, asked>>
      /\ \/ inbox' = inbox
         \/ main.at = "writing" /\ main.call \in Calls /\ inbox' = inbox \cup {main.call}
  BY DEF AccountInv, TypeOK, OwnInv, HandsOK, Write, WriteFails, Leave
<1>3. TypeOK'
  BY <1>1, <1>2 DEF AccountInv, OwnInv, HandsOK, MainStates, PumpStates, TypeOK
<1>4. OneOpenById' /\ OutboxTrue' /\ ShutdownInv'
      /\ (pump'.at \in {"reading", "forwarding"} => pump'.call = NoCall)
  BY <1>2 DEF AccountInv, OneOpenById, Started, OutboxTrue, MessageTrue, ShutdownInv
<1>5. ASSUME NEW c \in Calls PROVE Course(c)'
  <2>1. Course(c)
    BY DEF AccountInv
  <2>2. /\ Waits(c)' = Waits(c) /\ Resolving(c)' = Resolving(c) /\ ~AtHand(c)'
        /\ Settled(c)' = Settled(c) /\ Started(c)' = Started(c) /\ Registered(c)' = Registered(c)
        /\ c \in inbox' => c \in inbox \/ (AtHand(c) /\ main.at = "writing" /\ main.call = c)
    BY <1>2 DEF Waits, Resolving, AtHand, Settled, Started, Registered
  <2>3. InOnePlace(c)'
    BY <1>2, <2>1, <2>2 DEF Course, InOnePlace, Sent
  <2>4. ResolvesRightly(c)' /\ Answered(c)' /\ SettledTruly(c)' /\ Kept(c)'
    BY <1>2, <2>1, <2>2 DEF Course, ResolvesRightly, Answered, SettledTruly, Kept
  <2> QED
    BY <2>3, <2>4 DEF Course
<1> QED
  BY <1>1, <1>3, <1>4, <1>5 DEF AccountInv

\* The shutdown reports what is pending, abandons it, and ends.
LEMMA ShutdownKeepsAccounts ==
  ASSUME AccountInv, Strand \/ Exit \/ \E d \in Calls : AbandonStranded(d)
  PROVE  AccountInv'
<1> USE CallsAssumption
<1>1. OwnInv'
  BY MainKeepsOwnership DEF AccountInv
<1>2. UNCHANGED <<pump, inbox, outbox, landed, told, asked>>
  BY DEF Strand, Exit, AbandonStranded
<1>3. /\ main' \in MainStates /\ main'.at \in {"abandoning", "exited"}
      /\ \A i \in Ids : pending'[i] = NoCall
      /\ main'.at = "abandoning" => main'.left \subseteq stranded'
  <2>1. main \in MainStates /\ ShutdownInv
    BY DEF AccountInv, TypeOK, MainStates
  <2>2. CASE Strand
    <3>1. Waiting \subseteq Calls
      BY DEF AccountInv, TypeOK, Waiting
    <3> QED
      BY <2>1, <2>2, <3>1 DEF MainStates, Strand
  <2>3. CASE Exit
    BY <2>1, <2>3 DEF MainStates, ShutdownInv, Exit
  <2>4. CASE \E d \in Calls : AbandonStranded(d)
    BY <2>1, <2>4 DEF MainStates, ShutdownInv, AbandonStranded
  <2> QED
    BY <2>2, <2>3, <2>4
<1>4. stranded \subseteq stranded' /\ stranded' \subseteq Calls
  BY DEF AccountInv, TypeOK, ShutdownInv, Waiting, Strand, Exit, AbandonStranded
<1>5. ASSUME NEW c \in Calls
      PROVE  \/ journal'[c] = journal[c]
             \/ journal[c] = "planned" /\ journal'[c] = "abandoned" /\ c \in stranded'
  <2>1. CASE Strand \/ Exit
    BY <2>1 DEF Strand, Exit
  <2>2. ASSUME NEW d \in Calls, AbandonStranded(d)
        PROVE  \/ journal'[c] = journal[c]
               \/ journal[c] = "planned" /\ journal'[c] = "abandoned" /\ c \in stranded'
    <3>1. journal[d] = "planned" /\ d \in stranded'
      BY <2>2 DEF AccountInv, OwnInv, Ownership, Left, ShutdownInv, AbandonStranded
    <3> QED
      BY <2>2, <3>1 DEF AccountInv, TypeOK, AbandonStranded
  <2> QED
    BY <2>1, <2>2
<1>6. ASSUME NEW c \in Calls, Registered(c) PROVE Settled(c)'
  <2>1. main.at \notin {"abandoning", "exited"} /\ c \in Waiting
    BY <1>6, RegisteredIsOpen DEF Waiting, Registered
  <2> QED
    BY <2>1 DEF Strand, Exit, AbandonStranded, Settled
<1>7. TypeOK'
  <2>1. alive' \in BOOLEAN
    BY DEF AccountInv, TypeOK, Strand, Exit, AbandonStranded
  <2> QED
    BY <1>1, <1>2, <1>4, <2>1 DEF AccountInv, OwnInv, HandsOK, MainStates, PumpStates, TypeOK
<1>8. OneOpenById' /\ OutboxTrue' /\ ShutdownInv'
      /\ (pump'.at \in {"reading", "forwarding"} => pump'.call = NoCall)
  <2>1. \A c \in Calls : Started(c)' = Started(c)
    BY <1>5 DEF Started
  <2> QED
    BY <1>2, <1>3, <2>1 DEF AccountInv, OneOpenById, OutboxTrue, MessageTrue, ShutdownInv
<1>9. ASSUME NEW c \in Calls PROVE Course(c)'
  <2>1. Course(c)
    BY DEF AccountInv
  <2>2. /\ Waits(c)' = Waits(c) /\ Resolving(c)' = Resolving(c) /\ ~AtHand(c)'
        /\ Started(c)' = Started(c) /\ Sent(c)' = Sent(c)
        /\ Settled(c) => Settled(c)'
    BY <1>2, <1>3, <1>4, <1>5 DEF Waits, Resolving, AtHand, Settled, Started, Sent
  <2>3. InOnePlace(c)' /\ ResolvesRightly(c)' /\ Answered(c)'
    BY <1>2, <2>1, <2>2 DEF Course, InOnePlace, ResolvesRightly, Answered
  <2>4. SettledTruly(c)'
    BY <1>2, <1>4, <1>5, <2>1, <2>2 DEF Course, SettledTruly
  <2>5. Kept(c)'
    BY <1>2, <1>3, <1>6, <2>1, <2>2 DEF Course, Kept
  <2> QED
    BY <2>3, <2>4, <2>5 DEF Course
<1> QED
  BY <1>1, <1>2, <1>7, <1>8, <1>9 DEF AccountInv

\* The pump reads a message: it takes the call out of the map that the message answers.
LEMMA ReadKeepsAccounts ==
  ASSUME AccountInv, PumpReads
  PROVE  AccountInv'
<1> USE CallsAssumption
<1>1. OwnInv'
  BY PumpKeepsOwnership DEF AccountInv
<1>2. PICK m \in Messages : m = Head(outbox)
  BY HeadIsMessage DEF AccountInv, TypeOK, PumpReads
<1>3. /\ pump.at = "reading" /\ pump.call = NoCall
      /\ pump' = [at |-> IF pending[m.id] = NoCall THEN "forwarding" ELSE "resolving",
                  call |-> pending[m.id], kind |-> m.kind, answers |-> m.call]
      /\ pending' = IF pending[m.id] = NoCall THEN pending ELSE [pending EXCEPT ![m.id] = NoCall]
      /\ outbox' = Tail(outbox)
      /\ UNCHANGED <<main, stranded, journal, inbox, alive, landed, told, asked>>
  BY <1>2 DEF AccountInv, PumpReads, PumpRuns, Match
<1>4. /\ m.id \in Ids /\ m.call \in Calls \cup {NoCall} /\ m.kind \in {"result", "error", "request"}
      /\ pending[m.id] \in Calls \cup {NoCall}
  BY DEF AccountInv, TypeOK, Messages
<1>5. /\ outbox \in Seq(Messages) /\ 1 \in DOMAIN outbox /\ outbox[1] = m
      /\ \A k \in DOMAIN outbox' : k + 1 \in DOMAIN outbox /\ outbox'[k] = outbox[k + 1] /\ k + 1 # 1
      /\ \A k \in DOMAIN outbox : k = 1 \/ (k - 1 \in DOMAIN outbox' /\ outbox'[k - 1] = outbox[k])
  BY <1>2, <1>3 DEF AccountInv, TypeOK, PumpReads
<1>6. MessageTrue(m)
  BY <1>5 DEF AccountInv, OutboxTrue
<1>7. TypeOK'
  BY <1>1, <1>3 DEF AccountInv, OwnInv, HandsOK, MainStates, PumpStates, TypeOK
<1>8. OutboxTrue'
  <2>1. \A k \in DOMAIN outbox' : MessageTrue(outbox'[k])
    BY <1>5 DEF AccountInv, OutboxTrue
  <2>2. ASSUME NEW k \in DOMAIN outbox', NEW l \in DOMAIN outbox',
               outbox'[k].call = outbox'[l].call, outbox'[k].call # NoCall
        PROVE  k = l
    <3>1. k + 1 = l + 1
      BY <1>5, <2>2 DEF AccountInv, OutboxTrue
    <3>2. k \in Nat /\ l \in Nat
      BY <1>1 DEF OwnInv, HandsOK
    <3> QED
      BY <3>1, <3>2
  <2> QED
    BY <1>3, <2>1, <2>2 DEF OutboxTrue, MessageTrue
<1>9. OneOpenById' /\ ShutdownInv' /\ (pump'.at \in {"reading", "forwarding"} => pump'.call = NoCall)
  <2>1. \A i \in Ids : pending[i] = NoCall => pending'[i] = NoCall
    BY <1>3, <1>4 DEF AccountInv, TypeOK
  <2> QED
    BY <1>3, <2>1 DEF AccountInv, OneOpenById, Started, ShutdownInv
<1>10. ASSUME NEW c \in Calls
       PROVE  /\ Waits(c)' => Waits(c) /\ m.call # c
              /\ m.call = c => Waits(c)
  <2>1. m.call = c => Waits(c)
    BY <1>5 DEF Waits
  <2>2. ASSUME NEW k \in DOMAIN outbox', outbox'[k].call = c
        PROVE  Waits(c) /\ m.call # c
    <3>1. k + 1 \in DOMAIN outbox /\ outbox[k + 1].call = c /\ k + 1 # 1
      BY <1>5, <2>2
    <3> QED
      BY <1>5, <3>1 DEF AccountInv, OutboxTrue, Waits
  <2> QED
    BY <2>1, <2>2 DEF Waits
<1>11. ASSUME NEW c \in Calls, pending[m.id] = c
       PROVE  (m.call # NoCall => m.call = c) /\ IdOf[c] = m.id /\ pump'.call = c
  <2>1. Registered(c) /\ IdOf[c] = m.id
    BY <1>4, <1>11 DEF Registered, AccountInv, OwnInv, KeyedById
  <2>2. Started(c) /\ c \notin told
    BY <2>1, RegisteredIsOpen DEF Started
  <2>3. ASSUME m.call # NoCall PROVE Started(m.call) /\ m.call \notin told /\ IdOf[m.call] = m.id
    BY <1>4, <1>6, <1>10, <2>3 DEF AccountInv, Course, InOnePlace, Sent, MessageTrue
  <2> QED
    BY <1>3, <1>4, <1>11, <2>1, <2>2, <2>3 DEF AccountInv, OneOpenById
<1>12. ASSUME NEW c \in Calls, Registered(c)
       PROVE  (Registered(c)' \/ pump'.call = c) /\ (m.call = c => pump'.call = c)
  <2>1. IdOf[c] \in Ids /\ pending[IdOf[c]] = c
    BY <1>12, RegisteredIsOpen
  <2>2. CASE IdOf[c] = m.id
    BY <1>3, <2>1, <2>2
  <2>3. CASE IdOf[c] # m.id
    BY <1>3, <1>4, <1>6, <2>1, <2>3 DEF AccountInv, TypeOK, Registered, MessageTrue
  <2> QED
    BY <2>2, <2>3
<1>13. ASSUME NEW c \in Calls PROVE Course(c)'
  <2>1. Course(c)
    BY DEF AccountInv
  <2>2. AtHand(c)' = AtHand(c) /\ Settled(c)' = Settled(c) /\ Started(c)' = Started(c)
    BY <1>3 DEF AtHand, Settled, Started
  <2>3. (Sent(c)' => Sent(c)) /\ pump'.answers = m.call
    BY <1>3, <1>10 DEF Sent
  <2>4. InOnePlace(c)'
    BY <1>3, <1>10, <2>1, <2>2, <2>3 DEF Course, InOnePlace
  <2>5. ResolvesRightly(c)'
    <3> SUFFICES ASSUME pending[m.id] = c PROVE ResolvesRightly(c)'
      BY <1>3 DEF ResolvesRightly, Resolving
    <3> QED
      BY <1>3, <1>4, <1>6, <1>11 DEF ResolvesRightly, MessageTrue
  <2>6. Kept(c)'
    BY <1>3, <1>10, <1>12, <2>1, <2>2 DEF Course, Kept
  <2>7. Answered(c)'
    BY <1>3, <1>10, <1>12, <2>1, <2>2 DEF Course, Kept, Answered
  <2>8. SettledTruly(c)'
    BY <1>3, <2>1, <2>2 DEF Course, SettledTruly
  <2> QED
    BY <2>4, <2>5, <2>6, <2>7, <2>8 DEF Course
<1> QED
  BY <1>1, <1>7, <1>8, <1>9, <1>13 DEF AccountInv

\* The pump resolves the call in its hand, or ends with it.
LEMMA ResolveKeepsAccounts ==
  ASSUME AccountInv, Resolve \/ \E committed \in BOOLEAN : PumpDies(committed)
  PROVE  AccountInv'
<1> USE CallsAssumption
<1>1. OwnInv'
  BY PumpKeepsOwnership DEF AccountInv
<1>2. UNCHANGED <<main, pending, stranded, inbox, outbox, alive, landed, told, asked>>
  BY DEF Resolve, PumpDies
<1>3. PICK d \in Calls : d = pump.call /\ Resolving(d) /\ journal[d] = "planned"
  <2>1. pump.at = "resolving" /\ pump.call \in Calls
    BY DEF AccountInv, OwnInv, Resolve, PumpDies, PumpRuns
  <2> QED
    BY <2>1 DEF AccountInv, OwnInv, Ownership, Resolving
<1>4. /\ pump'.kind = pump.kind /\ pump'.answers = pump.answers
      /\ \/ pump'.at = "forwarding" /\ pump'.call = NoCall /\ journal'[d] # "planned"
         \/ pump'.at = "dead" /\ pump'.call = d
      /\ \A c \in Calls : c # d => journal'[c] = journal[c]
      /\ journal'[d] \in {"planned", "committed", "abandoned"}
      /\ journal'[d] = "committed" => pump.kind # "error"
      /\ journal'[d] = "abandoned" => pump.kind = "error"
  <2>1. pump \in PumpStates /\ journal \in [Calls -> {"none", "refused", "planned", "committed", "abandoned"}]
    BY DEF AccountInv, TypeOK, PumpStates
  <2>2. CASE Resolve
    BY <1>3, <2>1, <2>2 DEF PumpStates, Resolve, Outcome
  <2>3. ASSUME NEW committed \in BOOLEAN, PumpDies(committed)
        PROVE  /\ pump'.kind = pump.kind /\ pump'.answers = pump.answers
               /\ pump'.at = "dead" /\ pump'.call = d
               /\ \A c \in Calls : c # d => journal'[c] = journal[c]
               /\ journal'[d] \in {"planned", "committed"} /\ pump.kind # "error"
    BY <1>3, <2>1, <2>3 DEF PumpStates, PumpDies
  <2> QED
    BY <2>2, <2>3
<1>5. TypeOK'
  BY <1>1, <1>2 DEF AccountInv, OwnInv, HandsOK, MainStates, PumpStates, TypeOK
<1>6. \A c \in Calls : Started(c)' = Started(c)
  BY <1>3, <1>4 DEF Started
<1>7. OneOpenById' /\ OutboxTrue' /\ ShutdownInv'
      /\ (pump'.at \in {"reading", "forwarding"} => pump'.call = NoCall)
  BY <1>2, <1>4, <1>6 DEF AccountInv, OneOpenById, OutboxTrue, MessageTrue, ShutdownInv
<1>8. ASSUME NEW c \in Calls PROVE Course(c)'
  <2>1. Course(c)
    BY DEF AccountInv
  <2>2. /\ Waits(c)' = Waits(c) /\ ~Resolving(c)' /\ AtHand(c)' = AtHand(c)
        /\ Started(c)' = Started(c) /\ Sent(c)' = Sent(c) /\ Registered(c)' = Registered(c)
        /\ Settled(c) => Settled(c)'
    BY <1>2, <1>3, <1>4, <1>6 DEF Waits, Resolving, AtHand, Settled, Sent, Registered
  <2>3. pump.call = c => Settled(c)' \/ (pump'.call = c /\ pump'.at = "dead")
    BY <1>3, <1>4 DEF Settled
  <2>4. InOnePlace(c)' /\ ResolvesRightly(c)'
    BY <1>2, <1>4, <2>1, <2>2 DEF Course, InOnePlace, ResolvesRightly
  <2>5. Kept(c)' /\ Answered(c)'
    BY <1>2, <1>3, <1>4, <2>1, <2>2, <2>3 DEF Course, Kept, Answered, Resolving
  <2>6. SettledTruly(c)'
    <3>1. CASE c = d
      <4>1. /\ journal'[c] = "committed" => c \in landed \/ IdOf[c] \in asked
            /\ journal'[c] = "abandoned" => pump.answers = c /\ c \notin landed
        BY <1>3, <1>4, <2>1, <3>1 DEF AccountInv, TypeOK, Course, ResolvesRightly
      <4> QED
        BY <1>2, <2>1, <2>2, <4>1 DEF Course, InOnePlace, Sent, SettledTruly
    <3>2. CASE c # d
      BY <1>2, <1>4, <2>1, <2>2, <3>2 DEF Course, SettledTruly
    <3> QED
      BY <3>1, <3>2
  <2> QED
    BY <2>4, <2>5, <2>6 DEF Course
<1> QED
  BY <1>1, <1>5, <1>7, <1>8 DEF AccountInv

\* The client reads the answer of a call that is settled.
LEMMA ForwardKeepsAccounts ==
  ASSUME AccountInv, Forward
  PROVE  AccountInv'
<1> USE CallsAssumption
<1>1. OwnInv'
  BY PumpKeepsOwnership DEF AccountInv
<1>2. /\ pump.at = "forwarding" /\ pump.call = NoCall
      /\ told' = told \cup ({pump.answers} \ {NoCall}) /\ pump' = Reading
      /\ UNCHANGED <<main, pending, stranded, journal, inbox, outbox, alive, landed, asked>>
  BY DEF AccountInv, Forward, PumpRuns
<1>3. TypeOK'
  BY <1>1, <1>2 DEF AccountInv, OwnInv, HandsOK, MainStates, PumpStates, TypeOK
<1>4. OneOpenById' /\ OutboxTrue' /\ ShutdownInv'
      /\ (pump'.at \in {"reading", "forwarding"} => pump'.call = NoCall)
  BY <1>2 DEF AccountInv, OneOpenById, Started, OutboxTrue, MessageTrue, ShutdownInv, Reading
<1>5. ASSUME NEW c \in Calls PROVE Course(c)'
  <2>1. Course(c)
    BY DEF AccountInv
  <2>2. /\ Waits(c)' = Waits(c) /\ AtHand(c)' = AtHand(c) /\ Registered(c)' = Registered(c)
        /\ Settled(c)' = Settled(c) /\ Started(c)' = Started(c)
        /\ ~Resolving(c)' /\ pump'.answers # c /\ pump'.call # c /\ pump'.at = "reading"
        /\ c \in told' <=> c \in told \/ pump.answers = c
    BY <1>2 DEF Waits, AtHand, Registered, Settled, Started, Resolving, Reading
  <2>3. InOnePlace(c)'
    BY <1>2, <2>1, <2>2 DEF Course, InOnePlace, Sent
  <2>4. ResolvesRightly(c)' /\ Kept(c)' /\ Answered(c)' /\ SettledTruly(c)'
    BY <1>2, <2>1, <2>2 DEF Course, ResolvesRightly, Kept, Answered, SettledTruly
  <2> QED
    BY <2>3, <2>4 DEF Course
<1> QED
  BY <1>1, <1>3, <1>4, <1>5 DEF AccountInv

\* A message joins the queue, and nothing else in the queue changes.
LEMMA AppendIsLast ==
  ASSUME outbox \in Seq(Messages), NEW m \in Messages, outbox' = Append(outbox, m)
  PROVE  \A k \in DOMAIN outbox' :
           \/ k \in DOMAIN outbox /\ outbox'[k] = outbox[k]
           \/ k = Len(outbox) + 1 /\ outbox'[k] = m
OBVIOUS

\* The server takes up a call, which takes effect or fails, and answers or does not.
LEMMA ServeKeepsAccounts ==
  ASSUME AccountInv, NEW e \in Calls, NEW answer \in {"result", "error", "none"}, Serve(e, answer)
  PROVE  AccountInv'
<1> USE CallsAssumption
<1> DEFINE m == [id |-> IdOf[e], kind |-> answer, call |-> e]
<1>1. OwnInv'
  BY ServerKeepsOwnership DEF AccountInv
<1>2. /\ e \in inbox /\ inbox' = inbox \ {e}
      /\ landed' = IF answer = "error" THEN landed ELSE landed \cup {e}
      /\ outbox' = IF answer = "none" THEN outbox ELSE Append(outbox, m)
      /\ UNCHANGED <<main, pump, pending, stranded, journal, alive, told, asked>>
  BY DEF Serve
<1>3. TypeOK'
  BY <1>1, <1>2 DEF AccountInv, OwnInv, HandsOK, MainStates, PumpStates, TypeOK
<1>4. ~Waits(e) /\ pump.answers # e /\ e \notin told /\ e \notin landed /\ Started(e) /\ ~AtHand(e)
  BY <1>2 DEF AccountInv, Course, InOnePlace, Sent
<1>5. \A k \in DOMAIN outbox' :
        \/ k \in DOMAIN outbox /\ outbox'[k] = outbox[k]
        \/ k = Len(outbox) + 1 /\ outbox'[k] = m /\ answer # "none"
  <2>1. CASE answer = "none"
    BY <1>2, <2>1
  <2>2. CASE answer # "none"
    <3>1. IdOf[e] \in Ids
      BY <1>2 DEF AccountInv, OwnInv, HandsOK
    <3>2. m \in Messages
      BY <2>2, <3>1 DEF Messages
    <3>3. outbox \in Seq(Messages) /\ outbox' = Append(outbox, m)
      BY <1>2, <2>2 DEF AccountInv, TypeOK
    <3> HIDE DEF m
    <3> QED
      BY <2>2, <3>2, <3>3, AppendIsLast
  <2> QED
    BY <2>1, <2>2
<1>6. \A k \in DOMAIN outbox : outbox[k].call # e
  BY <1>4 DEF Waits
<1>7. OutboxTrue'
  <2>1. ASSUME NEW k \in DOMAIN outbox'
        PROVE  /\ outbox'[k].call # NoCall =>
                    /\ outbox'[k].id = IdOf[outbox'[k].call] /\ outbox'[k].kind # "request"
                    /\ outbox'[k].kind = "result" <=> outbox'[k].call \in landed'
               /\ outbox'[k].call = NoCall => outbox'[k].kind = "request" /\ outbox'[k].id \in asked
    <3>1. CASE k \in DOMAIN outbox /\ outbox'[k] = outbox[k]
      <4>1. MessageTrue(outbox[k]) /\ outbox[k].call # e
        BY <1>6, <3>1 DEF AccountInv, OutboxTrue
      <4> QED
        BY <1>2, <3>1, <4>1 DEF MessageTrue
    <3>2. CASE outbox'[k] = m /\ answer # "none"
      BY <1>2, <1>4, <3>2
    <3> QED
      BY <1>5, <3>1, <3>2
  <2>2. ASSUME NEW k \in DOMAIN outbox', NEW l \in DOMAIN outbox',
               outbox'[k].call = outbox'[l].call, outbox'[k].call # NoCall
        PROVE  k = l
    BY <1>5, <1>6, <2>2 DEF AccountInv, OutboxTrue
  <2> QED
    BY <1>2, <2>1, <2>2 DEF OutboxTrue, MessageTrue
<1>8. OneOpenById' /\ ShutdownInv' /\ (pump'.at \in {"reading", "forwarding"} => pump'.call = NoCall)
  BY <1>2 DEF AccountInv, OneOpenById, Started, ShutdownInv
<1>9. ASSUME NEW c \in Calls PROVE Course(c)'
  <2>1. Course(c)
    BY DEF AccountInv
  <2>2. /\ AtHand(c)' = AtHand(c) /\ Registered(c)' = Registered(c) /\ Resolving(c)' = Resolving(c)
        /\ Settled(c)' = Settled(c) /\ Started(c)' = Started(c)
        /\ Waits(c)' => Waits(c) \/ c = e
        /\ c \in inbox' <=> c \in inbox /\ c # e
        /\ c \in landed => c \in landed'
        /\ c \in landed' => c \in landed \/ c = e
    BY <1>2, <1>5 DEF AtHand, Registered, Resolving, Settled, Started, Waits
  <2>3. CASE c = e
    <3>1. InOnePlace(c)'
      BY <1>2, <1>4, <2>2, <2>3 DEF InOnePlace
    <3>2. ResolvesRightly(c)' /\ Kept(c)' /\ Answered(c)' /\ SettledTruly(c)'
      BY <1>2, <1>4, <2>1, <2>2, <2>3
         DEF Course, ResolvesRightly, Kept, Answered, SettledTruly
    <3> QED
      BY <3>1, <3>2 DEF Course
  <2>4. CASE c # e
    <3>1. InOnePlace(c)'
      BY <1>2, <2>1, <2>2, <2>4 DEF Course, InOnePlace, Sent
    <3>2. ResolvesRightly(c)' /\ Kept(c)' /\ Answered(c)' /\ SettledTruly(c)'
      BY <1>2, <2>1, <2>2, <2>4 DEF Course, ResolvesRightly, Kept, Answered, SettledTruly
    <3> QED
      BY <3>1, <3>2 DEF Course
  <2> QED
    BY <2>3, <2>4
<1> QED
  BY <1>1, <1>3, <1>7, <1>8, <1>9 DEF AccountInv

\* The server sends a request of its own, exits, or nothing happens.
LEMMA IdleKeepsAccounts ==
  ASSUME AccountInv, (\E i \in ServerIds : Ask(i)) \/ ServerExits \/ UNCHANGED vars
  PROVE  AccountInv'
<1> USE CallsAssumption
<1>1. OwnInv'
  BY ServerKeepsOwnership DEF AccountInv
<1>2. /\ UNCHANGED <<main, pump, pending, stranded, journal, inbox, landed, told>>
      /\ asked \subseteq asked' /\ asked' \subseteq ServerIds /\ alive' \in BOOLEAN
  BY DEF AccountInv, TypeOK, Ask, ServerExits, vars
<1>3. TypeOK'
  BY <1>1, <1>2 DEF AccountInv, OwnInv, HandsOK, MainStates, PumpStates, TypeOK
<1>4. \A k \in DOMAIN outbox' :
        \/ k \in DOMAIN outbox /\ outbox'[k] = outbox[k]
        \/ outbox'[k].call = NoCall /\ outbox'[k].kind = "request" /\ outbox'[k].id \in asked'
  <2>1. ASSUME NEW i \in ServerIds, Ask(i)
        PROVE  \A k \in DOMAIN outbox' :
                 \/ k \in DOMAIN outbox /\ outbox'[k] = outbox[k]
                 \/ outbox'[k] = [id |-> i, kind |-> "request", call |-> NoCall]
    <3>1. [id |-> i, kind |-> "request", call |-> NoCall] \in Messages
      BY DEF Messages
    <3>2. outbox \in Seq(Messages)
          /\ outbox' = Append(outbox, [id |-> i, kind |-> "request", call |-> NoCall])
      BY <2>1 DEF AccountInv, TypeOK, Ask
    <3> QED
      BY <3>1, <3>2, AppendIsLast
  <2>2. CASE \E i \in ServerIds : Ask(i)
    BY <2>1, <2>2 DEF Ask
  <2>3. CASE ServerExits \/ UNCHANGED vars
    BY <2>3 DEF ServerExits, vars
  <2> QED
    BY <2>2, <2>3
<1>5. OutboxTrue'
  BY <1>2, <1>4 DEF AccountInv, OutboxTrue, MessageTrue
<1>6. OneOpenById' /\ ShutdownInv' /\ (pump'.at \in {"reading", "forwarding"} => pump'.call = NoCall)
  BY <1>2 DEF AccountInv, OneOpenById, Started, ShutdownInv
<1>7. ASSUME NEW c \in Calls PROVE Course(c)'
  <2>1. Course(c)
    BY DEF AccountInv
  <2>2. /\ AtHand(c)' = AtHand(c) /\ Registered(c)' = Registered(c) /\ Resolving(c)' = Resolving(c)
        /\ Settled(c)' = Settled(c) /\ Started(c)' = Started(c)
        /\ Waits(c)' => Waits(c)
    BY <1>2, <1>4 DEF AtHand, Registered, Resolving, Settled, Started, Waits
  <2>3. InOnePlace(c)'
    BY <1>2, <2>1, <2>2 DEF Course, InOnePlace, Sent
  <2>4. ResolvesRightly(c)' /\ Kept(c)' /\ Answered(c)' /\ SettledTruly(c)'
    BY <1>2, <2>1, <2>2 DEF Course, ResolvesRightly, Kept, Answered, SettledTruly
  <2> QED
    BY <2>3, <2>4 DEF Course
<1> QED
  BY <1>1, <1>3, <1>5, <1>6, <1>7 DEF AccountInv

\* The inductive invariant implies the accounts.
LEMMA AccountsHold == AccountInv => CallsAreAccounted
<1> SUFFICES ASSUME AccountInv PROVE CallsAreAccounted
  OBVIOUS
<1>1. JournalTellsTruth
  BY DEF AccountInv, Course, SettledTruly, JournalTellsTruth, Unmistaken
<1>2. AnswersAreJournaled
  BY DEF AccountInv, TypeOK, Course, Answered, Settled, AnswersAreJournaled
<1>3. ASSUME main.at = "exited", NEW c \in landed
      PROVE  journal[c] = "committed" \/ c \in stranded \/ c = pump.call
  <2>1. c \in Calls
    BY DEF AccountInv, TypeOK
  <2>2. ~Registered(c)
    BY <1>3, <2>1, CallsAssumption DEF AccountInv, ShutdownInv, Registered
  <2> QED
    BY <1>3, <2>1, <2>2 DEF AccountInv, Course, Kept, Settled, SettledTruly
<1> QED
  BY <1>1, <1>2, <1>3 DEF AccountInv, CallsAreAccounted, NothingForgotten

\* Where every call is on its way, in every reachable state.
THEOREM AccountInvariant == Spec => []AccountInv
<1> USE CallsAssumption
<1>1. Init => AccountInv
  <2> SUFFICES ASSUME Init PROVE AccountInv
    OBVIOUS
  <2>1. HandsOK /\ KeyedById
    BY DEF Init, Reading, HandsOK, MainStates, PumpStates, KeyedById
  <2>2. ASSUME NEW c \in Calls PROVE Ownership(c)
    BY DEF Init, Reading, Ownership, Registering, Registered, Resolving, Left
  <2>3. TypeOK
    BY DEF Init, Reading, TypeOK
  <2>4. OneOpenById /\ OutboxTrue /\ ShutdownInv
    BY DEF Init, OneOpenById, Started, OutboxTrue, ShutdownInv
  <2>5. ASSUME NEW c \in Calls PROVE Course(c)
    BY DEF Init, Reading, Course, InOnePlace, Sent, Waits, AtHand, Started, ResolvesRightly,
           Resolving, Kept, Answered, SettledTruly
  <2> QED
    BY <2>1, <2>2, <2>3, <2>4, <2>5 DEF AccountInv, OwnInv, Init, Reading
<1>2. AccountInv /\ [Next]_vars => AccountInv'
  <2> SUFFICES ASSUME AccountInv, [Next]_vars PROVE AccountInv'
    OBVIOUS
  <2>1. CASE \E d \in Calls : Refuse(d) \/ Authorize(d)
    BY <2>1, SendKeepsAccounts
  <2>2. CASE Register
    BY <2>2, RegisterKeepsAccounts
  <2>3. CASE Write \/ WriteFails \/ Leave
    BY <2>3, WriteKeepsAccounts
  <2>4. CASE Strand \/ Exit \/ \E d \in Calls : AbandonStranded(d)
    BY <2>4, ShutdownKeepsAccounts
  <2>5. CASE PumpReads
    BY <2>5, ReadKeepsAccounts
  <2>6. CASE Resolve \/ \E committed \in BOOLEAN : PumpDies(committed)
    BY <2>6, ResolveKeepsAccounts
  <2>7. CASE Forward
    BY <2>7, ForwardKeepsAccounts
  <2>8. CASE \E c \in Calls, answer \in {"result", "error", "none"} : Serve(c, answer)
    BY <2>8, ServeKeepsAccounts
  <2>9. CASE (\E i \in ServerIds : Ask(i)) \/ ServerExits \/ UNCHANGED vars
    BY <2>9, IdleKeepsAccounts
  <2> QED
    BY <2>1, <2>2, <2>3, <2>4, <2>5, <2>6, <2>7, <2>8, <2>9 DEF Next, MainStep, PumpStep
<1> QED
  BY <1>1, <1>2, PTL DEF Spec

\* For any calls and ids, and any server: the journal says what happened to each
\* call, the client reads no answer the journal does not know of, and a session
\* that ends forgets no call that took effect, unless the pump had it in hand.
THEOREM CallsStayAccounted == Spec => []CallsAreAccounted
BY AccountsHold, AccountInvariant, PTL

-----------------------------------------------------------------------------
(* The call book.                                                          *)

ServerGone == main.at = "exited" => ~alive

\* What the book sees, unchanged.
Unseen == UNCHANGED <<journal, landed, stranded, told, asked>> /\ (main'.at = "exited" <=> main.at = "exited")

LEMMA UnseenStutters == Unseen => UNCHANGED Book!bvars
BY DEF Unseen, Unmistaken, Book!bvars

\* The main thread, up to the shutdown.
LEMMA SendIsBooked ==
  ASSUME AccountInv, \/ \E c \in Calls : Refuse(c) \/ Authorize(c)
                     \/ Register \/ Write \/ WriteFails \/ Leave
  PROVE  [Book!BNext]_(Book!bvars)
<1>1. ASSUME NEW c \in Calls, Refuse(c) \/ Authorize(c)
      PROVE  Book!BNext
  <2>1. main.at # "exited" /\ main'.at # "exited"
    BY <1>1 DEF Refuse, Authorize, Sends, AccountInv, TypeOK
  <2>2. \E as \in {"refused", "planned"} : Book!Enter(c, as)
    BY <1>1, <2>1 DEF Refuse, Authorize, Sends, Book!Enter, Unmistaken
  <2> QED
    BY <2>1, <2>2 DEF Book!BNext
<1>2. CASE Register \/ Write \/ WriteFails \/ Leave
  <2>1. Unseen
    BY <1>2 DEF Register, Write, WriteFails, Leave, Unseen, AccountInv, TypeOK
  <2> QED
    BY <2>1, UnseenStutters
<1> QED
  BY <1>1, <1>2

\* The shutdown reports calls that are open, and drops none that it did not report; the
\* process ends with nothing lost but what the pump holds.
LEMMA ShutdownIsBooked ==
  ASSUME AccountInv, AccountInv', Strand \/ Exit \/ \E c \in Calls : AbandonStranded(c)
  PROVE  Book!BNext
<1>1. CASE Strand
  <2>1. main.at # "exited" /\ main'.at # "exited" /\ stranded = {}
    BY <1>1 DEF Strand, AccountInv, TypeOK, ShutdownInv
  <2>2. \A c \in Waiting : c \in Calls /\ journal[c] = "planned" /\ c \notin told
    BY RegisteredIsOpen DEF Waiting, Registered, AccountInv, TypeOK
  <2>3. Book!Report(Waiting)
    BY <1>1, <2>1, <2>2 DEF Strand, Book!Report, Unmistaken
  <2> QED
    BY <2>1, <2>2, <2>3 DEF Book!BNext
<1>2. ASSUME NEW c \in Calls, AbandonStranded(c)
      PROVE  Book!BNext
  <2>1. main.at # "exited" /\ main'.at # "exited"
    BY <1>2 DEF AbandonStranded, AccountInv, TypeOK
  <2>2. journal[c] = "planned" /\ c \in stranded
    BY <1>2 DEF AbandonStranded, AccountInv, OwnInv, Ownership, Left, ShutdownInv
  <2>3. Book!Settle(c, "abandoned")
    BY <1>2, <2>1, <2>2 DEF AbandonStranded, Book!Settle, Unmistaken
  <2> QED
    BY <2>1, <2>3 DEF Book!BNext
<1>3. CASE Exit
  <2>1. main.at # "exited" /\ main'.at = "exited"
    BY <1>3 DEF Exit, AccountInv, TypeOK
  <2>2. NothingForgotten'
    BY AccountsHold, PTL DEF CallsAreAccounted
  <2>3. ASSUME NEW c \in Calls, Book!Lost(c)
        PROVE  c = pump.call
    BY <1>3, <2>1, <2>2, <2>3 DEF Exit, NothingForgotten, Book!Lost
  <2>4. Book!Close
    BY <1>3, <2>1, <2>3 DEF Exit, Book!Close, Unmistaken
  <2> QED
    BY <2>1, <2>4 DEF Book!BNext
<1> QED
  BY <1>1, <1>2, <1>3

\* The pump settles what is open, as what it turned out to be, and passes on answers
\* to what is settled.
LEMMA PumpIsBooked ==
  ASSUME AccountInv, AccountInv',
         PumpReads \/ Resolve \/ Forward \/ \E committed \in BOOLEAN : PumpDies(committed)
  PROVE  [Book!BNext]_(Book!bvars)
<1>1. CASE PumpReads
  <2>1. Unseen
    BY <1>1 DEF PumpReads, Unseen
  <2> QED
    BY <2>1, UnseenStutters
<1>2. ASSUME NEW as \in {"committed", "abandoned"}, PumpRuns("resolving"),
             journal' = [journal EXCEPT ![pump.call] = as],
             UNCHANGED <<main, stranded, landed, told, asked>>
      PROVE  Book!BNext
  <2>1. PICK c \in Calls : c = pump.call /\ journal[c] = "planned"
    BY <1>2 DEF PumpRuns, AccountInv, OwnInv, Ownership, Resolving
  <2>2. journal'[c] = as
    BY <1>2, <2>1 DEF AccountInv, TypeOK
  <2>3. SettledTruly(c)'
    BY DEF AccountInv, Course
  <2>4. Book!Settle(c, as)
    BY <1>2, <2>1, <2>2, <2>3 DEF SettledTruly, Book!Settle, Unmistaken
  <2> QED
    BY <1>2, <2>1, <2>4 DEF Book!BNext, PumpRuns
<1>3. CASE Resolve
  <2>1. Outcome(pump.kind) \in {"committed", "abandoned"}
    BY DEF Outcome
  <2> QED
    BY <1>2, <1>3, <2>1 DEF Resolve
<1>4. ASSUME NEW committed \in BOOLEAN, PumpDies(committed)
      PROVE  [Book!BNext]_(Book!bvars)
  <2>1. CASE committed
    BY <1>2, <1>4, <2>1 DEF PumpDies
  <2>2. CASE ~committed
    <3>1. Unseen
      BY <1>4, <2>2 DEF PumpDies, Unseen
    <3> QED
      BY <3>1, UnseenStutters
  <2> QED
    BY <2>1, <2>2
<1>5. CASE Forward
  <2>1. main.at # "exited"
    BY <1>5 DEF Forward, PumpRuns
  <2>2. CASE pump.answers = NoCall
    <3>1. Unseen
      BY <1>5, <2>2 DEF Forward, Unseen
    <3> QED
      BY <3>1, UnseenStutters
  <2>3. CASE pump.answers # NoCall
    <3>1. pump.answers \in Calls /\ told' = told \cup {pump.answers} /\ pump.answers \in told'
      BY <1>5, <2>3 DEF Forward, AccountInv, TypeOK
    <3>2. Settled(pump.answers)
      BY <1>5, <3>1 DEF Forward, AccountInv, Course, Answered, Settled
    <3>3. Book!Answer(pump.answers)
      BY <1>5, <3>1, <3>2 DEF Forward, Settled, Book!Answer, Unmistaken
    <3> QED
      BY <2>1, <3>1, <3>3 DEF Book!BNext
  <2> QED
    BY <2>2, <2>3
<1> QED
  BY <1>1, <1>3, <1>4, <1>5

\* The server makes effects, and doubts.
LEMMA ServerIsBooked ==
  ASSUME AccountInv, AccountInv', ServerGone,
         \/ \E c \in Calls, answer \in {"result", "error", "none"} : Serve(c, answer)
         \/ \E i \in ServerIds : Ask(i)
         \/ ServerExits
  PROVE  [Book!BNext]_(Book!bvars)
<1>1. ASSUME NEW c \in Calls, NEW answer \in {"result", "error", "none"}, Serve(c, answer)
      PROVE  [Book!BNext]_(Book!bvars)
  <2>1. main.at # "exited"
    BY <1>1 DEF Serve, ServerGone
  <2>2. CASE answer = "error"
    <3>1. Unseen
      BY <1>1, <2>2 DEF Serve, Unseen
    <3> QED
      BY <3>1, UnseenStutters
  <2>3. CASE answer # "error"
    <3>1. landed' = landed \cup {c} /\ c \in inbox /\ UNCHANGED <<main, journal, stranded, told, asked>>
      BY <1>1, <2>3 DEF Serve
    <3>2. Course(c)
      BY DEF AccountInv
    <3>3. journal[c] \in {"planned", "committed", "abandoned"} /\ c \notin landed
      BY <3>1, <3>2 DEF Course, InOnePlace, Sent, Started, AccountInv, TypeOK
    <3>4. journal[c] = "planned" \/ c \in stranded \/ IdOf[c] \in asked
      BY <3>1, <3>2, <3>3 DEF Course, SettledTruly
    <3>5. Book!TakeEffect(c)
      BY <3>1, <3>3, <3>4 DEF Book!TakeEffect, Unmistaken
    <3> QED
      BY <2>1, <3>5 DEF Book!BNext
  <2> QED
    BY <2>2, <2>3
<1>2. ASSUME NEW i \in ServerIds, Ask(i)
      PROVE  Book!BNext
  <2>. DEFINE cs == {c \in Calls : IdOf[c] = i}
  <2>1. main.at # "exited" /\ UNCHANGED <<main, journal, stranded, told, landed>> /\ asked' = asked \cup {i}
    BY <1>2 DEF Ask, ServerGone
  <2>2. {c \in Calls : ~Unmistaken(c)}' = {c \in Calls : ~Unmistaken(c)} \cup cs
    BY <2>1 DEF Unmistaken
  <2>3. Book!Doubt(cs)
    BY <2>1, <2>2 DEF Book!Doubt
  <2>4. cs \in SUBSET Calls
    OBVIOUS
  <2> QED
    BY <2>1, <2>3, <2>4 DEF Book!BNext
<1>3. CASE ServerExits
  <2>1. Unseen
    BY <1>3 DEF ServerExits, Unseen
  <2> QED
    BY <2>1, UnseenStutters
<1> QED
  BY <1>1, <1>2, <1>3

\* For any calls and ids, and any server, the proxy implements the call book: whatever
\* the threads interleave, each step enters, settles, reports or answers a call when
\* the book allows it, or is none of its business.
THEOREM ProxyKeepsCallBook == Spec => ImplementsCallBook
<1>1. Init => Book!BInit
  BY DEF Init, Book!BInit, Unmistaken
<1>2. Init => ServerGone
  BY DEF Init, ServerGone
<1>3. AccountInv /\ ServerGone /\ [Next]_vars => ServerGone'
  <2> SUFFICES ASSUME AccountInv, ServerGone, [Next]_vars PROVE ServerGone'
    OBVIOUS
  <2>1. CASE \/ \E c \in Calls : Refuse(c) \/ Authorize(c) \/ AbandonStranded(c)
             \/ Leave \/ Register \/ Write \/ WriteFails \/ Strand
    <3>1. main'.at # "exited"
      BY <2>1 DEF AccountInv, TypeOK, Refuse, Authorize, Sends, AbandonStranded, Leave, Register,
                  Write, WriteFails, Strand
    <3> QED
      BY <3>1 DEF ServerGone
  <2>2. CASE Exit \/ ServerExits
    BY <2>2 DEF ServerGone, Exit, ServerExits
  <2>3. CASE \/ UNCHANGED vars
             \/ PumpReads \/ Resolve \/ Forward \/ \E committed \in BOOLEAN : PumpDies(committed)
             \/ \E c \in Calls, answer \in {"result", "error", "none"} : Serve(c, answer)
             \/ \E i \in ServerIds : Ask(i)
    BY <2>3 DEF ServerGone, vars, PumpReads, Resolve, Forward, PumpDies, Serve, Ask
  <2> QED
    BY <2>1, <2>2, <2>3 DEF Next, MainStep, PumpStep
<1>4. AccountInv /\ AccountInv' /\ ServerGone /\ [Next]_vars => [Book!BNext]_(Book!bvars)
  <2> SUFFICES ASSUME AccountInv, AccountInv', ServerGone, [Next]_vars
               PROVE  [Book!BNext]_(Book!bvars)
    OBVIOUS
  <2>1. CASE UNCHANGED vars
    <3>1. Unseen
      BY <2>1 DEF vars, Unseen
    <3> QED
      BY <3>1, UnseenStutters
  <2> QED
    BY <2>1, SendIsBooked, ShutdownIsBooked, PumpIsBooked, ServerIsBooked DEF Next, MainStep, PumpStep
<1> QED
  BY <1>1, <1>2, <1>3, <1>4, AccountInvariant, PTL DEF Spec, ImplementsCallBook, Book!BSpec
=============================================================================
