-------------------------- MODULE GuardedWorkspace --------------------------
(***************************************************************************)
(* Shell commands of an agent in a working tree, each undoable because the *)
(* tree is snapshotted before it runs (src/src/revoco/adapters/workspace.py), *)
(* as classified by ShellReach and journaled by ReversalJournal.           *)
(*                                                                         *)
(* A journal entry is one command.  Its tool stands for the specification  *)
(* that command_classifier derives: one for each reach.  Commands may      *)
(* overlap; the engine's lock is held while a tree is restored, and does   *)
(* not hold up a command that runs.  What a file holds is told by who      *)
(* wrote it last.                                                          *)
(***************************************************************************)
EXTENDS ReversalJournal, ShellReach, FiniteSets

CONSTANTS
  Commands,   \* command lines
  Files,      \* paths
  DirOf,      \* [Files -> Dirs]
  RuleFile,   \* .gitignore
  Rules,      \* the files that its rules match, for each content of it
  MaxWritten, \* bound: files one fragment writes
  MayLack     \* files that need not be there at first

ASSUME WorkspaceAssumption ==
  /\ Tools = {Reaches[i] : i \in DOMAIN Reaches} /\ Registered = {}
  /\ \A t \in Tools : SpecOf[t].kind = KindOf(t)
  /\ DOMAIN SpecOf["local"].steps = {1}
  /\ Commands \subseteq Seq(Fragments)
  /\ DirOf \in [Files -> Dirs] /\ RuleFile \in Files /\ DirOf[RuleFile] = "root"
  /\ Rules \in [Entries \cup {"old", "absent"} -> SUBSET Files]
  /\ {"absent", "old", "nobody"} \cap Entries = {}

VARIABLES
  command,    \* Entries -> its text
  shell,      \* Entries -> the place in the text, and the working directory
  disk,       \* Files -> last writer, "old" or "absent"
  index,      \* the files in the agent's own git index
  trees,      \* Entries -> the tree object its snapshot names, or NoTree
  restoring,  \* the restore in progress: entry, what was present, and how far it is
  before,     \* history: Entries -> the disk when its tree was taken
  calm,       \* history: the entry whose restore began last, if nobody has written since
  listedUnder, \* history: the rule file when files were listed last
  events      \* history: snapshots, commits and completed undos, in order

workspace == <<command, shell, disk, index, trees, restoring>>
ghosts == <<before, calm, listedUnder, events>>
gvars == <<vars, workspace, ghosts>>

InRoot == {f \in Files : DirOf[f] \in Inside}

\* Files that no version of the rules matches.
Coverable == {f \in InRoot : \A version \in DOMAIN Rules : f \notin Rules[version]}

NoTree == [f \in {} |-> "absent"]
Nobody == "nobody"
NotRestoring == [entry |-> Nobody, present |-> {}, step |-> "none"]

OnDisk == {f \in Files : disk[f] # "absent"}

\* Git reads its rules from the working tree, whoever wrote them.
Unignored(files) == InRoot \ Rules[files[RuleFile]]

GInit ==
  /\ Init
  /\ command \in [Entries -> Commands]
  /\ \A e \in Entries : journal[e].tool = ClassifyCommand(command[e])
  /\ shell = [e \in Entries |-> [at |-> 1, cwd |-> "root"]]
  /\ disk \in {d \in [Files -> {"absent", "old"}] : {f \in Files : d[f] = "absent"} \subseteq MayLack}
  /\ index = OnDisk \cap Unignored(disk)
  /\ trees = [e \in Entries |-> NoTree]
  /\ restoring = NotRestoring
  /\ before = [e \in Entries |-> disk]
  /\ calm = Nobody /\ listedUnder = disk[RuleFile] /\ events = <<>>

Happened(what, e) == \E i \in DOMAIN events : events[i] = <<what, e>>
Before(a, b) == \E i, j \in DOMAIN events : events[i] = a /\ events[j] = b /\ i < j

Log(what, e) == events' = Append(events, <<what, e>>)

-----------------------------------------------------------------------------
(* Running a command.                                                      *)

\* take_tree: the scratch index starts empty, so that "git add -A" sees every file that
\* no ignore rule matches now, and no other.
TreeNow == [f \in Unignored(disk) \cap OnDisk |-> disk[f]]

\* ReversalEngine.plan asks the snapshot_reader, without the engine's lock.  Only the
\* specification of a local command has snapshot fields.
Snapshot(e) ==
  /\ journal[e].state = "none" /\ ~Happened("snapshot", e)
  /\ trees' = IF journal[e].tool = "local" THEN [trees EXCEPT ![e] = TreeNow] ELSE trees
  /\ before' = [before EXCEPT ![e] = disk]
  /\ Log("snapshot", e)
  /\ UNCHANGED <<vars, command, shell, disk, index, restoring, calm, listedUnder>>

\* open_journal; git may have failed.
Guard(e, captured) ==
  /\ Happened("snapshot", e) /\ restoring.step = "none"
  /\ captured \/ journal[e].tool = "local"
  /\ OpenJournal(e, captured, KindOf(journal[e].tool))
  /\ UNCHANGED <<workspace, ghosts>>

\* The shell goes on to the next fragment, or over it (external).
RunFragment(e, skip, written, deleted) ==
  LET text == command[e]
      f == text[shell[e].at]
      area == {x \in Files : DirOf[x] \in WritesIn(shell[e].cwd, f)}
      over == skip \/ f.body = "heredoc"
  IN /\ journal[e].state = "planned" /\ shell[e].at <= Len(text)
     /\ written \subseteq area /\ Cardinality(written) <= MaxWritten
     /\ over => written = {}
     /\ \E cwd \in (IF over THEN {shell[e].cwd} ELSE MovesTo(shell[e].cwd, f)) :
          shell' = [shell EXCEPT ![e] = [at |-> @.at + 1, cwd |-> cwd]]
     /\ disk' = [x \in Files |-> IF x \in deleted THEN "absent"
                                 ELSE IF x \in written THEN e ELSE disk[x]]
     /\ calm' = IF written # {} THEN Nobody ELSE calm
     /\ UNCHANGED <<vars, command, index, trees, restoring, before, listedUnder, events>>

\* ReversalEngine.commit, once the command has ended.
ConfirmCommand(e) ==
  /\ shell[e].at > Len(command[e]) /\ restoring.step = "none"
  /\ journal[e].state = "planned"
  /\ Commit(e, TRUE)
  /\ Log("commit", e)
  /\ UNCHANGED <<workspace, before, calm, listedUnder>>

\* The agent stages a file, which an ignore rule does not prevent (external).
Stage(f) ==
  /\ f \in (OnDisk \cap InRoot) \ index
  /\ index' = index \cup {f}
  /\ UNCHANGED <<vars, command, shell, disk, trees, restoring, ghosts>>

-----------------------------------------------------------------------------
(* restore_tree, as the executor of ReversalEngine.reverse.                *)

\* Fault: only what the agent has staged is listed.
StagedOnly == index

\* git ls-files, with the agent's index and the rules as the command left them.
Listed == index \cup (OnDisk \cap Unignored(disk))

\* If git cannot list the files, the restore goes on as if there were none.
RestoreBegin(e, list) ==
  /\ HasLiveUndo(journal[e]) /\ ~IsExpired(journal[e]) /\ GatesOpen(journal[e])
  /\ runs[e] < MaxRuns /\ restoring.step = "none"
  /\ restoring' = [entry |-> e, present |-> IF list THEN Listed ELSE {}, step |-> "listed"]
  /\ calm' = (IF list THEN e ELSE Nobody) /\ listedUnder' = disk[RuleFile]
  /\ UNCHANGED <<vars, command, shell, disk, index, trees, before, events>>

RestoreCheckout ==
  /\ restoring.step = "listed"
  /\ disk' = LET tree == trees[restoring.entry]
             IN [f \in Files |-> IF f \in DOMAIN tree THEN tree[f] ELSE disk[f]]
  /\ restoring' = [restoring EXCEPT !.step = "checked out"]
  /\ UNCHANGED <<vars, command, shell, index, trees, ghosts>>

\* Files present when they were listed, and absent from the snapshot.
Created == restoring.present \ DOMAIN trees[restoring.entry]

RestoreRemove ==
  /\ restoring.step = "checked out"
  /\ disk' = [f \in Files |-> IF f \in Created THEN "absent" ELSE disk[f]]
  /\ restoring' = NotRestoring
  /\ Reverse(restoring.entry, FALSE, {1})
  /\ Log(IF restoring.present = {} THEN "half undo" ELSE "undo", restoring.entry)
  /\ UNCHANGED <<command, shell, index, trees, before, calm, listedUnder>>

\* A git call or an unlink raises, or git gc has dropped the tree, to which nothing
\* refers: the receipt says so.
RestoreFails(e) ==
  /\ trees[e] # NoTree /\ restoring.entry \in {e, Nobody}
  /\ Reverse(e, FALSE, {})
  /\ restoring' = NotRestoring /\ calm' = Nobody
  /\ UNCHANGED <<command, shell, disk, index, trees, before, listedUnder, events>>

GNext ==
  \/ \E e \in Entries :
       \/ Snapshot(e)
       \/ \E captured \in BOOLEAN : Guard(e, captured)
       \/ \E skip \in BOOLEAN, written \in SUBSET Files : \E deleted \in {{}, written} :
            RunFragment(e, skip, written, deleted)
       \/ ConfirmCommand(e) \/ RestoreFails(e)
       \/ \E list \in BOOLEAN : RestoreBegin(e, list)
  \/ \E f \in Files : Stage(f)
  \/ RestoreCheckout \/ RestoreRemove

GSpec == GInit /\ [][GNext]_gvars

-----------------------------------------------------------------------------
(* Properties.                                                             *)

\* The classifier reads all that the shell runs of the text: no path is hidden; a cd out
\* of the root is the first word of its fragment; a redirect, which is one that is seen,
\* does not stand in the way of other arguments; what else runs in a fragment only reads;
\* and what was taken for data is data.
Readable(c) ==
  \A i \in DOMAIN c :
    LET f == c[i] IN
      /\ "hidden" \notin f.args \cup {f.redirects[j].to : j \in DOMAIN f.redirects}
      /\ f.lead => ~LeavesRoot(f)
      /\ f.redirects # <<>> => /\ Len(f.redirects) = 1 /\ ~f.redirects[1].numbered
                               /\ f.program = "reader"
      /\ f.behind \subseteq {"reader"}
      /\ f.body # "mistaken"

\* As long as the classifier reads all that runs and the lists are right about the
\* programs they name, a command that is called read-only writes nothing, and one that is
\* called local writes nothing that lies outside of the directory the snapshot covers,
\* through any sequence of directories it goes through.
ReachHolds ==
  [][\A e \in Entries :
       shell'[e] # shell[e] /\ Readable(command[e]) =>
         /\ journal[e].tool = "read_only" => disk' = disk
         /\ journal[e].tool = "local" => \A f \in Files \ InRoot : disk'[f] = disk[f]]_gvars

\* Files that the undo of e brings back: those in its tree, and those that no ignore rule
\* matched, neither when the tree was taken nor when the files were listed to be removed.
Promised(e) ==
  {f \in Unignored(before[e]) :
     before[e][f] # "absent" \/ f \notin Rules[listedUnder]}

\* An undo that nobody writes into puts every file that it promises back to what it was
\* when the command was planned, and takes those away that were not there, whatever was
\* staged, written or undone in between, the ignore rules among it.
RestoreIsExact ==
  \A e \in Entries :
    journal[e].state = "reversed" /\ calm = e =>
      \A f \in Promised(e) : disk[f] = before[e][f]

\* No command that was planned between the planning of e and its undo was undone, or
\* tried to be undone, after it.  So it is when the commands do not overlap and are
\* undone as reverse_cascade undoes them, newest first.
LaterOnesFirst(e) ==
  \A x \in Entries :
    Before(<<"snapshot", e>>, <<"snapshot", x>>) /\ Before(<<"snapshot", x>>, <<"undo", e>>) =>
      runs[x] = 0 \/ Before(<<"undo", x>>, <<"undo", e>>)

\* What was undone stays undone: nothing a reversed command wrote is in a file that no
\* ignore rule ever matches, or comes back to one, unless a command planned after it is undone
\* after it, or git failed to list the files; not even when commands overlap each other
\* and the restores.
ReversedIsGone ==
  restoring.step = "none" =>
    \A e \in Entries : Happened("undo", e) /\ LaterOnesFirst(e) =>
      \A f \in Coverable : disk[f] # e

\* What undo promises of the workspace: it brings back what was there, and what it took
\* away does not return.
UndoIsWhole == RestoreIsExact /\ ReversedIsGone

\* Claimed by workspace.py of what a restore removes: files present now and absent from
\* the snapshot "were created after it".
OnlyCreatedAreRemoved ==
  [][restoring.step = "checked out" /\ restoring'.step = "none" =>
       \A f \in InRoot :
         disk[f] # "absent" /\ disk'[f] = "absent" => before[restoring.entry][f] = "absent"]_gvars

=============================================================================
