------------------------------ MODULE Enforcer ------------------------------
(***************************************************************************)
(* The recoup enforcer (src/recoup/cmd/recoup-enforcer): each request is   *)
(* decided, counted, journalled and committed to the in-memory log in      *)
(* three critical sections of three locks, so requests that are served     *)
(* together pass through them in any order.                                *)
(*                                                                         *)
(* The journal (src/recoup/internal/journal) is a file with one previous   *)
(* generation.  A file is the sequence of its pieces: the line of a        *)
(* request, or Torn, the part of a line that a write left when it failed.  *)
(* The encoder keeps its first write error, so a torn line is the last of  *)
(* its life, and the first line of the next life is glued to it.  A piece  *)
(* is one unit long.  Disks fail, and the process may die at any time.     *)
(***************************************************************************)
EXTENDS Integers, Sequences, FiniteSets

CONSTANTS
  Requests,    \* calls of agents, each served once
  Torn,        \* a piece of a line
  MaxSize,     \* --journal-max-bytes
  MaxFaults,   \* bound: disk operations that fail
  MaxRestarts  \* bound: starts after a crash

ASSUME EnforcerAssumption ==
  /\ IsFiniteSet(Requests) /\ Torn \notin Requests
  /\ MaxSize \in Nat \ {0} /\ MaxFaults \in Nat /\ MaxRestarts \in Nat

Pieces == Requests \cup {Torn}

VARIABLES
  up,        \* the process runs
  mode,      \* "shadow" or "enforce"
  served,    \* Requests -> stage, verdict and receipt of each request
  counts,    \* counters: total and would_have_blocked
  writer,    \* journal.Writer: open, broken (its encoder's error), pos, written and dropped
  file,      \* the journal's current generation
  previous,  \* path.1
  log,       \* translog.Log: the leaves, each the verdict it commits to
  faults,    \* disk failures so far
  restarts,  \* starts so far
  kept,      \* history: the pieces ever written
  taken,     \* history: calls of Append in this life of the process
  since      \* history: how much was kept when this life began

vars == <<up, mode, served, counts, writer, file, previous, log, faults, restarts, kept, taken,
          since>>

disk == <<file, previous, kept>>
life == <<restarts, mode, up, since>>

NoCounts == [total |-> 0, wouldHaveBlocked |-> 0]

\* journal.Open: the offset of a file opened for appending is 0 until the first write.
Opened(f) == [open |-> TRUE, broken |-> FALSE, pos |-> 0, written |-> Len(f), dropped |-> 0]

Init ==
  /\ up = TRUE /\ mode \in {"shadow", "enforce"}
  /\ served = [r \in Requests |-> [stage |-> "new", allowed |-> FALSE, index |-> -1]]
  /\ counts = NoCounts
  /\ writer = Opened(<<>>) /\ file = <<>> /\ previous = <<>>
  /\ log = <<>>
  /\ faults = 0 /\ restarts = 0 /\ kept = <<>> /\ taken = 0 /\ since = 0

At(r, stage) == up /\ served[r].stage = stage
Go(r, stage) == served' = [served EXCEPT ![r].stage = stage]

-----------------------------------------------------------------------------
(* A request.                                                              *)

\* decide up to counters.record.  The verdict is the subject of PolicyDecision.
Decide(r, allowed) ==
  /\ At(r, "new")
  /\ served' = [served EXCEPT ![r].stage = "counted", ![r].allowed = allowed]
  /\ counts' = [total |-> counts.total + 1,
                wouldHaveBlocked |-> counts.wouldHaveBlocked
                                     + IF mode = "shadow" /\ ~allowed THEN 1 ELSE 0]
  /\ UNCHANGED <<writer, disk, log, faults, life, taken>>

Fail == faults < MaxFaults /\ faults' = faults + 1

Dropped(w) == [w EXCEPT !.dropped = @ + 1]

Full == writer.written >= MaxSize

\* Fault: a failed rotation is not counted.
Forgotten(w) == [w EXCEPT !.open = FALSE]

\* What a rotation that failed after Close leaves: Close of a closed file fails
\* again, so every later entry is dropped until a restart.
Closed(w) == [Dropped(w) EXCEPT !.open = FALSE]

\* Append when rotate fails: at Close, at Rename, or at OpenFile, which has
\* already moved the file away.
RotateFails(r) ==
  /\ At(r, "counted") /\ Full
  /\ Go(r, "journalled") /\ taken' = taken + 1
  /\ writer' = Closed(writer)
  /\ \/ ~writer.open /\ UNCHANGED <<disk, faults>>
     \/ writer.open /\ Fail /\ UNCHANGED disk
     \/ writer.open /\ Fail /\ previous' = file /\ file' = <<>> /\ UNCHANGED kept
  /\ UNCHANGED <<counts, log, life>>

\* The writer after lines were written to the end of f: what the offset moved by is
\* added, which is the whole file when this is the first line after Open.
Advanced(w, f) == [w EXCEPT !.written = @ + Len(f) - w.pos, !.pos = Len(f)]

\* One previous generation is kept.
Replacing(old, f) == f

\* The writer once a full file was moved aside: it has an encoder of its own.
Rotated == IF Full THEN [writer EXCEPT !.broken = FALSE, !.pos = 0, !.written = 0] ELSE writer

\* Append up to Encode: what is written goes to the end of the file, after a rotation
\* if the file is full.
Write(pieces) ==
  /\ Full => writer.open
  /\ previous' = IF Full THEN Replacing(previous, file) ELSE previous
  /\ file' = (IF Full THEN <<>> ELSE file) \o pieces
  /\ kept' = kept \o pieces

\* Append, when the line is written.
JournalAppend(r) ==
  /\ At(r, "counted") /\ ~Rotated.broken
  /\ Go(r, "journalled") /\ taken' = taken + 1
  /\ Write(<<r>>)
  /\ writer' = Advanced(Rotated, file')
  /\ UNCHANGED <<counts, log, faults, life>>

\* Append, when the write of Encode fails and leaves part of the line behind, or nothing.
EncodeFails(r) ==
  /\ At(r, "counted") /\ Fail /\ ~Rotated.broken
  /\ Go(r, "journalled") /\ taken' = taken + 1
  /\ \E left \in {<<>>, <<Torn>>} :
       /\ Write(left)
       /\ writer' = Dropped([Rotated EXCEPT !.broken = TRUE,
                                           !.pos = IF left = <<>> THEN @ ELSE Len(file')])
  /\ UNCHANGED <<counts, log, life>>

\* Append, when an earlier write failed: json.Encoder gives the same error again, nothing
\* is written, and a file that does not grow is not rotated.
StillBroken(r) ==
  /\ At(r, "counted") /\ Rotated.broken
  /\ Go(r, "journalled") /\ taken' = taken + 1
  /\ writer' = Dropped(writer)
  /\ UNCHANGED <<counts, disk, log, faults, life>>

\* The log and the answer, with the receipt: the index of the leaf.
LogAppend(r) ==
  /\ At(r, "journalled")
  /\ log' = Append(log, served[r].allowed)
  /\ served' = [served EXCEPT ![r].stage = "answered", ![r].index = Len(log)]
  /\ UNCHANGED <<counts, writer, disk, faults, life, taken>>

-----------------------------------------------------------------------------
(* The process.                                                            *)

\* The counters and the log are in memory; requests in flight get no answer.
Die ==
  /\ up /\ restarts < MaxRestarts
  /\ up' = FALSE
  /\ counts' = NoCounts /\ log' = <<>> /\ taken' = 0
  /\ served' = [r \in Requests |->
       IF served[r].stage \in {"counted", "journalled"}
       THEN [served[r] EXCEPT !.stage = "lost"]
       ELSE IF served[r].stage = "answered" THEN [served[r] EXCEPT !.stage = "before"]
       ELSE served[r]]
  /\ UNCHANGED <<writer, disk, faults, restarts, mode, since>>

\* main
Start ==
  /\ ~up /\ up' = TRUE /\ restarts' = restarts + 1
  /\ mode' \in {"shadow", "enforce"}
  /\ writer' = Opened(file) /\ since' = Len(kept)
  /\ UNCHANGED <<served, counts, disk, log, faults, taken>>

Serve(r) ==
  \/ \E allowed \in BOOLEAN : Decide(r, allowed)
  \/ JournalAppend(r) \/ EncodeFails(r) \/ StillBroken(r) \/ RotateFails(r)
  \/ LogAppend(r)

Next == (\E r \in Requests : Serve(r)) \/ Die \/ Start

Spec == Init /\ [][Next]_vars

-----------------------------------------------------------------------------
(* Properties.                                                             *)

TypeOK ==
  /\ up \in BOOLEAN /\ mode \in {"shadow", "enforce"}
  /\ served \in [Requests -> [stage : {"new", "counted", "journalled", "answered", "lost", "before"},
                              allowed : BOOLEAN, index : Int]]
  /\ counts \in [total : Nat, wouldHaveBlocked : Nat]
  /\ writer \in [open : BOOLEAN, broken : BOOLEAN, pos : Nat, written : Nat, dropped : Nat]
  /\ file \in Seq(Pieces) /\ previous \in Seq(Pieces) /\ kept \in Seq(Pieces)
  /\ log \in Seq(BOOLEAN)
  /\ faults \in Nat /\ restarts \in Nat /\ taken \in Nat /\ since \in Nat

InStage(stages) == {r \in Requests : served[r].stage \in stages}

Lines(pieces) == Cardinality({i \in DOMAIN pieces : pieces[i] # Torn})

\* decisions, would_have_blocked and dropped of /v1/stats account for one another, however
\* the requests interleave and whatever disk operation fails: what was decided is in the
\* log or in flight, what enforce mode would have stopped is counted in shadow mode and
\* only there, and what was handed to the journal in this life of the process was written
\* or is counted as dropped.
CountersAgree ==
  up =>
    /\ counts.total = Cardinality(InStage({"counted", "journalled", "answered"}))
    /\ counts.wouldHaveBlocked =
         IF mode = "shadow"
         THEN Cardinality({r \in InStage({"counted", "journalled", "answered"}) : ~served[r].allowed})
         ELSE 0
    /\ Len(log) = Cardinality(InStage({"answered"}))
    /\ taken = Cardinality(InStage({"journalled", "answered"}))
    /\ taken = writer.dropped + Lines(SubSeq(kept, since + 1, Len(kept)))

\* bytes of /v1/stats is no less than the file, but for what a write that failed left
\* there, and no more than twice the file: the first line after a restart counts all of
\* it again.  Where the writer has no file any more, the count is the one that called for
\* the rotation.
BytesAgree ==
  IF writer.open
  THEN /\ Len(file) <= writer.written + IF writer.broken THEN 1 ELSE 0
       /\ writer.written <= 2 * Len(file)
  ELSE Full

\* The two generations hold the end of everything that was ever written, without a
\* gap, and at least half of MaxSize of it: not all of MaxSize, since the first line
\* after a restart counts the whole file again, which is then rotated early.  Neither
\* generation holds more lines than MaxSize.
RecentIsKept ==
  LET onward == previous \o file
      n == Len(onward)
  IN /\ n <= Len(kept) /\ onward = SubSeq(kept, Len(kept) - n + 1, Len(kept))
     /\ 2 * n >= MaxSize \/ n = Len(kept)
     /\ Lines(file) <= MaxSize /\ Lines(previous) <= MaxSize

\* The counters, the log and both generations of the journal file tell one story.
BooksAgree == CountersAgree /\ BytesAgree /\ RecentIsKept
=============================================================================
