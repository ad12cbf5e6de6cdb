------------------------------ MODULE McpProxy ------------------------------
(***************************************************************************)
(* The stdio proxy between an agent host and an MCP server:                *)
(* src/src/revoco/mcp/proxy.py.                                            *)
(*                                                                         *)
(* Two threads share the map of pending calls: the main thread authorizes  *)
(* what the client sends, registers it and forwards it; a daemon thread    *)
(* pumps what the upstream server sends, and confirms or abandons the call *)
(* whose id a message carries.  The map's lock covers one look-up or one   *)
(* update, so those are the steps that interleave.  The client and the     *)
(* server are external.                                                    *)
(***************************************************************************)
EXTENDS Naturals, Sequences, FiniteSets

CONSTANTS
  Calls,       \* the tools/call messages the client may send
  Ids,         \* JSON-RPC ids
  IdOf,        \* the id each call carries, or NoId
  NoId, NoCall,
  ServerIds    \* ids the server gives to requests of its own

ASSUME CallsAssumption ==
  /\ IdOf \in [Calls -> Ids \cup {NoId}]
  /\ NoId \notin Ids /\ NoCall \notin Calls
  /\ ServerIds \subseteq Ids

VARIABLES
  main,      \* the main thread: what it does, with which call or calls
  pump,      \* the pump thread: what it does, with which call
  pending,   \* McpProxy._pending
  stranded,  \* McpProxy.stranded
  journal,   \* the journal entry of each call
  inbox,     \* calls written to the server and not served yet
  outbox,    \* what the server wrote and the pump has not read
  alive,     \* the server process runs
  landed,    \* history: calls that took effect
  told,      \* history: calls whose answer the client has read
  asked      \* history: ids the server used for requests of its own

vars == <<main, pump, pending, stranded, journal, inbox, outbox, alive, landed, told, asked>>

Messages == [id : Ids, kind : {"result", "error", "request"}, call : Calls \cup {NoCall}]

TypeOK ==
  /\ main \in [at : {"reading", "registering", "writing", "closing", "abandoning", "exited"},
               call : Calls \cup {NoCall}, left : SUBSET Calls]
  /\ pump \in [at : {"reading", "resolving", "forwarding", "dead"},
               call : Calls \cup {NoCall}, kind : {"result", "error", "request"},
               answers : Calls \cup {NoCall}]
  /\ pending \in [Ids -> Calls \cup {NoCall}]
  /\ journal \in [Calls -> {"none", "refused", "planned", "committed", "abandoned"}]
  /\ stranded \subseteq Calls /\ inbox \subseteq Calls
  /\ outbox \in Seq(Messages)
  /\ alive \in BOOLEAN
  /\ landed \subseteq Calls /\ told \subseteq Calls /\ asked \subseteq ServerIds

Reading == [at |-> "reading", call |-> NoCall, kind |-> "result", answers |-> NoCall]

Init ==
  /\ main = [at |-> "reading", call |-> NoCall, left |-> {}]
  /\ pump = Reading
  /\ pending = [i \in Ids |-> NoCall]
  /\ journal = [c \in Calls |-> "none"]
  /\ stranded = {} /\ inbox = {} /\ outbox = <<>>
  /\ alive = TRUE
  /\ landed = {} /\ told = {} /\ asked = {}

-----------------------------------------------------------------------------
(* The main thread: McpProxy._on_client_line.                              *)

\* The client does not use an id again before its call is answered.
Sends(c) ==
  /\ main.at = "reading"
  /\ journal[c] = "none"
  /\ \A d \in Calls \ {c} :
       IdOf[d] = IdOf[c] => journal[d] \in {"none", "refused"} \/ d \in told

\* The call has no id, or ControlPlane.authorize says no; the client is told.
Refuse(c) ==
  /\ Sends(c)
  /\ journal' = [journal EXCEPT ![c] = "refused"]
  /\ UNCHANGED <<main, pump, pending, stranded, inbox, outbox, alive, landed, told, asked>>

Authorize(c) ==
  /\ Sends(c)
  /\ IdOf[c] # NoId
  /\ journal' = [journal EXCEPT ![c] = "planned"]
  /\ main' = [main EXCEPT !.at = "registering", !.call = c]
  /\ UNCHANGED <<pump, pending, stranded, inbox, outbox, alive, landed, told, asked>>

Register ==
  /\ main.at = "registering"
  /\ pending' = [pending EXCEPT ![IdOf[main.call]] = main.call]
  /\ main' = [main EXCEPT !.at = "writing"]
  /\ UNCHANGED <<pump, stranded, journal, inbox, outbox, alive, landed, told, asked>>

Write ==
  /\ main.at = "writing"
  /\ alive
  /\ inbox' = inbox \cup {main.call}
  /\ main' = [main EXCEPT !.at = "reading", !.call = NoCall]
  /\ UNCHANGED <<pump, pending, stranded, journal, outbox, alive, landed, told, asked>>

\* The client closes its end or interrupts, or authorize or the write raises:
\* McpProxy.run goes to its finally clause and closes the server's stdin.
Leave ==
  /\ main.at \in {"reading", "registering", "writing"}
  /\ main' = [main EXCEPT !.at = "closing"]
  /\ UNCHANGED <<pump, pending, stranded, journal, inbox, outbox, alive, landed, told, asked>>

\* The pipe to a server that has exited is broken.
WriteFails ==
  /\ main.at = "writing"
  /\ ~alive
  /\ main' = [main EXCEPT !.at = "closing"]
  /\ UNCHANGED <<pump, pending, stranded, journal, inbox, outbox, alive, landed, told, asked>>

-----------------------------------------------------------------------------
(* The main thread: McpProxy._shutdown.                                    *)

Waiting == {pending[i] : i \in Ids} \ {NoCall}

\* Fault: the pending calls are read and not taken out of the map.
StrandAndKeep ==
  /\ main.at = "closing"
  /\ main' = [main EXCEPT !.at = "abandoning", !.left = Waiting]
  /\ stranded' = Waiting
  /\ UNCHANGED <<pump, pending, journal, inbox, outbox, alive, landed, told, asked>>

\* Fault: the pending calls are abandoned and not reported.
StrandQuietly ==
  /\ main.at = "closing"
  /\ main' = [main EXCEPT !.at = "abandoning", !.left = Waiting]
  /\ pending' = [i \in Ids |-> NoCall]
  /\ UNCHANGED <<pump, stranded, journal, inbox, outbox, alive, landed, told, asked>>

Strand ==
  /\ main.at = "closing"
  /\ main' = [main EXCEPT !.at = "abandoning", !.left = Waiting]
  /\ pending' = [i \in Ids |-> NoCall]
  /\ stranded' = Waiting
  /\ UNCHANGED <<pump, journal, inbox, outbox, alive, landed, told, asked>>

AbandonStranded(c) ==
  /\ main.at = "abandoning"
  /\ c \in main.left
  /\ main' = [main EXCEPT !.left = @ \ {c}]
  /\ journal' = [journal EXCEPT ![c] = "abandoned"]
  /\ UNCHANGED <<pump, pending, stranded, inbox, outbox, alive, landed, told, asked>>

\* The server exits within the timeout, or is killed; the process ends and takes
\* the daemon thread with it.
Exit ==
  /\ main.at = "abandoning"
  /\ main.left = {}
  /\ main' = [main EXCEPT !.at = "exited"]
  /\ alive' = FALSE
  /\ UNCHANGED <<pump, pending, stranded, journal, inbox, outbox, landed, told, asked>>

-----------------------------------------------------------------------------
(* The pump thread: McpProxy._pump_upstream and _on_upstream_line.         *)

PumpRuns(at) == pump.at = at /\ main.at # "exited"

\* Fault: only results are correlated.
MatchResult(m) == IF m.kind = "result" THEN pending[m.id] ELSE NoCall

\* A message is correlated by its id alone.
Match(m) == pending[m.id]

PumpReads ==
  /\ PumpRuns("reading")
  /\ outbox # <<>>
  /\ LET m == Head(outbox)
         c == Match(m)
     IN /\ pump' = [at |-> IF c = NoCall THEN "forwarding" ELSE "resolving",
                    call |-> c, kind |-> m.kind, answers |-> m.call]
        /\ pending' = IF c = NoCall THEN pending ELSE [pending EXCEPT ![m.id] = NoCall]
  /\ outbox' = Tail(outbox)
  /\ UNCHANGED <<main, stranded, journal, inbox, alive, landed, told, asked>>

Outcome(kind) == IF kind = "error" THEN "abandoned" ELSE "committed"

Resolve ==
  /\ PumpRuns("resolving")
  /\ journal' = [journal EXCEPT ![pump.call] = Outcome(pump.kind)]
  /\ pump' = [pump EXCEPT !.at = "forwarding", !.call = NoCall]
  /\ UNCHANGED <<main, pending, stranded, inbox, outbox, alive, landed, told, asked>>

\* ControlPlane.confirm raises, before or after it committed the entry, and the
\* thread ends; an exception of abandon is caught.
PumpDies(committed) ==
  /\ PumpRuns("resolving")
  /\ pump.kind # "error"
  /\ journal' = IF committed THEN [journal EXCEPT ![pump.call] = "committed"] ELSE journal
  /\ pump' = [pump EXCEPT !.at = "dead"]
  /\ UNCHANGED <<main, pending, stranded, inbox, outbox, alive, landed, told, asked>>

Forward ==
  /\ PumpRuns("forwarding")
  /\ told' = told \cup ({pump.answers} \ {NoCall})
  /\ pump' = Reading
  /\ UNCHANGED <<main, pending, stranded, journal, inbox, outbox, alive, landed, asked>>

-----------------------------------------------------------------------------
(* The server: it answers in any order, or never.                          *)

Serve(c, answer) ==
  /\ alive
  /\ c \in inbox
  /\ inbox' = inbox \ {c}
  /\ landed' = IF answer = "error" THEN landed ELSE landed \cup {c}
  /\ outbox' = IF answer = "none" THEN outbox
               ELSE Append(outbox, [id |-> IdOf[c], kind |-> answer, call |-> c])
  /\ UNCHANGED <<main, pump, pending, stranded, journal, alive, told, asked>>

\* The server asks the client something under an id of its own choosing.
Ask(i) ==
  /\ alive
  /\ i \in ServerIds \ asked
  /\ asked' = asked \cup {i}
  /\ outbox' = Append(outbox, [id |-> i, kind |-> "request", call |-> NoCall])
  /\ UNCHANGED <<main, pump, pending, stranded, journal, inbox, alive, landed, told>>

ServerExits ==
  /\ alive
  /\ alive' = FALSE
  /\ UNCHANGED <<main, pump, pending, stranded, journal, inbox, outbox, landed, told, asked>>

MainStep ==
  \/ Register
  \/ Write
  \/ WriteFails
  \/ Strand
  \/ \E c \in Calls : AbandonStranded(c)
  \/ Exit

PumpStep == PumpReads \/ Resolve \/ Forward

Next ==
  \/ \E c \in Calls : Refuse(c) \/ Authorize(c)
  \/ Leave
  \/ MainStep
  \/ PumpStep
  \/ \E committed \in BOOLEAN : PumpDies(committed)
  \/ \E c \in Calls, answer \in {"result", "error", "none"} : Serve(c, answer)
  \/ \E i \in ServerIds : Ask(i)
  \/ ServerExits

Spec == Init /\ [][Next]_vars

\* Both threads run; nothing is assumed of the client and the server.
FairSpec == Spec /\ WF_vars(MainStep) /\ WF_vars(PumpStep)

-----------------------------------------------------------------------------
(* Properties.                                                             *)

\* No request of the server used the call's id.
Unmistaken(c) == IdOf[c] \notin asked

\* The proxy keeps a call book, whatever its threads, the client and the server do: a
\* call that the pump confirmed or the shutdown abandoned is not resolved again by the
\* other thread, and each entry, report and answer comes only when it is true.
Book == INSTANCE CallBook
          WITH book <- journal, effects <- landed, reported <- stranded, answered <- told,
               doubtful <- {c \in Calls : ~Unmistaken(c)}, closed <- main.at = "exited"
ImplementsCallBook == Book!BSpec

\* A live undo plan is for an effect that exists, and a plan that was dropped
\* and not reported is for a call that failed.
JournalTellsTruth ==
  \A c \in Calls : Unmistaken(c) =>
    /\ journal[c] = "committed" => c \in landed
    /\ journal[c] = "abandoned" /\ c \notin stranded => c \notin landed

\* The client reads no answer that the journal does not know of: its call is
\* resolved, or reported as stranded, also when the answer races the shutdown.
AnswersAreJournaled ==
  \A c \in told : journal[c] \in {"committed", "abandoned"} \/ c \in stranded

\* When the process is gone, a call that took effect has its undo plan, or is
\* reported, or is the one call the daemon thread was busy with.
NothingForgotten ==
  main.at = "exited" =>
    \A c \in landed : journal[c] = "committed" \/ c \in stranded \/ c = pump.call

\* An answered call does not stay planned while the session lasts, unless a
\* failing store has ended the pump.
AnswersResolve ==
  \A c \in Calls :
    (\E k \in DOMAIN outbox : outbox[k].call = c)
      ~> (journal[c] # "planned" \/ pump.at = "dead" \/ main.at = "exited")

\* A hung server does not keep the proxy from ending.
SessionEnds == main.at = "closing" ~> main.at = "exited"

\* The types, what the journal says, and what the client and the shutdown may see
\* of it, together.
CallsAreAccounted == TypeOK /\ JournalTellsTruth /\ AnswersAreJournaled /\ NothingForgotten

\* Nobody waits for ever: neither an answered call nor a client that hangs up.
ProxyMakesProgress == AnswersResolve /\ SessionEnds
=============================================================================
