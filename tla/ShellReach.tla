----------------------------- MODULE ShellReach -----------------------------
(***************************************************************************)
(* What a shell command can be taken back from, judged by its text:        *)
(* src/src/revoco/reversal/shell.py.                                       *)
(*                                                                         *)
(* A command is the sequence of fragments that the classifier splits it    *)
(* into.  A fragment is reduced to what the classifier sees of it, and to  *)
(* what the shell sees there besides: redirects and programs that the      *)
(* classifier passes over, and lines that it takes for a heredoc.          *)
(***************************************************************************)
EXTENDS Naturals, Sequences

\* Directories, seen from the directory that the snapshot covers; under is below it.
Dirs == {"root", "under", "above"}

Inside == {"root", "under"}

\* Ways to spell a path.  A bare name has no slash.  What is hidden, in a variable or
\* behind an option it is glued to, may name any directory.
Spellings == {"name", "down", "up", "rooted", "absolute", "hidden"}

\* Where a spelled path leads from a working directory.
LeadsTo(cwd, spelling) ==
  CASE spelling = "name" -> {cwd}
    [] spelling = "down" -> {IF cwd = "above" THEN "above" ELSE "under"}
    [] spelling = "up" -> {IF cwd = "under" THEN "root" ELSE "above"}
    [] spelling = "rooted" -> {"root"}
    [] spelling = "absolute" -> {"above"}
    [] spelling = "hidden" -> Dirs

\* Programs by the list that names them: the READ_ONLY_COMMANDS, the NAVIGATION_COMMANDS,
\* the LOCAL_WRITE_COMMANDS, those with READ_ONLY_SUBCOMMANDS, and others.  A fragment
\* without a program is an assignment or a control header.
Programs == {"assignment", "header", "reader", "navigator", "writer", "tool", "other"}

\* What the patterns say of a fragment's text: one of ESCAPE_PATTERNS matches it, which
\* names something that no snapshot takes back; else one of OPAQUE_PATTERNS, whose effect
\* cannot be read; or none.
Texts == {"nothing", "escape", "opaque"}

\* Lines that _strip_heredocs takes for the body of a heredoc: those that are one, and
\* those the shell runs, behind a "<<< word" or a delimiter that is longer than _HEREDOC
\* reads it, or in a substitution in the body.
Bodies == {"none", "heredoc", "mistaken"}

Fragments ==
  [lead : BOOLEAN,            \* assignments, keywords or a wrapper stand before the program
   program : Programs,        \* what leads it once these are skipped
   args : SUBSET Spellings,   \* words behind it that are paths
   readOnlySub : BOOLEAN,     \* the first argument is a read-only subcommand
   \* redirects to files; one behind a digit, as in "2> f", is not seen as one
   redirects : Seq([to : Spellings, numbered : BOOLEAN]),
   \* programs of further commands in it: behind a single "&", behind the pattern of a
   \* case, in a process substitution
   behind : SUBSET Programs,
   matches : Texts,
   balanced : BOOLEAN,        \* its quotes
   body : Bodies]

Reaches == <<"read_only", "local", "unknown", "escapes">>

\* Reach.rank
RankOf(reach) == CHOOSE i \in DOMAIN Reaches : Reaches[i] = reach

\* Reach.worst, of all of them.
WorstOf(reaches) == CHOOSE r \in reaches : \A s \in reaches : RankOf(s) <= RankOf(r)

-----------------------------------------------------------------------------

\* _strip_heredocs, and the fragments that are left.
Parts(command) == {command[i] : i \in {j \in DOMAIN command : command[j].body = "none"}}

\* _escapes_root: what has no slash in it is not looked at, except "..".
EscapesRoot(spelling) ==
  spelling \notin {"name", "hidden"} /\ ~(LeadsTo("root", spelling) \subseteq Inside)

\* Fault: a directory that is left is not remembered.
StaysPut(f) == FALSE

\* A bare cd goes home.
LeavesRoot(f) ==
  f.program = "navigator" /\ (f.args = {} \/ \E a \in f.args : EscapesRoot(a))

\* _navigates_away looks at the first word only.
NavigatesAway(f) == f.balanced /\ ~f.lead /\ LeavesRoot(f)

\* The redirects that the pattern finds; the first of them decides.
SeenRedirects(f) == {i \in DOMAIN f.redirects : ~f.redirects[i].numbered}

RedirectEscapes(f) ==
  \E i \in SeenRedirects(f) :
    (\A j \in SeenRedirects(f) : i <= j) /\ EscapesRoot(f.redirects[i].to)

\* _classify_simple: a redirect decides before anything else is read.
ClassifySimple(f) ==
  IF SeenRedirects(f) # {} THEN IF RedirectEscapes(f) THEN "escapes" ELSE "local"
  ELSE IF ~f.balanced THEN "unknown"
  ELSE IF f.program = "assignment" THEN "local"
  ELSE IF f.program \in {"header", "navigator", "reader"} THEN "read_only"
  ELSE IF f.program = "tool" /\ f.readOnlySub THEN "read_only"
  ELSE IF \E a \in f.args : EscapesRoot(a) THEN "escapes"
  ELSE IF f.program \in {"writer", "tool"} THEN "local"
  ELSE "unknown"

\* classify, with the root of the snapshot.
ClassifyCommand(command) ==
  LET parts == Parts(command)
      worst == WorstOf({"read_only"} \cup {ClassifySimple(f) : f \in parts})
      leftRoot == \E f \in parts : NavigatesAway(f)
  IN IF \E f \in parts : f.matches = "escape" THEN "escapes"
     ELSE IF \E f \in parts : f.matches = "opaque" THEN "unknown"
     ELSE IF leftRoot /\ worst # "read_only" THEN "escapes"
     ELSE worst

\* command_classifier, with a local_spec: the kind of the specification it derives.
KindOf(reach) ==
  CASE reach = "read_only" -> "idempotent"
    [] reach = "local" -> "reversible"
    [] reach = "escapes" -> "irreversible"
    [] reach = "unknown" -> "unknown"

-----------------------------------------------------------------------------
(* What the shell does with a fragment, as far as the lists are right about *)
(* the programs in them (external).                                         *)

\* A directory and what is below it.
Below(dirs) ==
  dirs \cup (IF "above" \in dirs THEN Dirs ELSE IF "root" \in dirs THEN Inside ELSE {})

\* Directories whose files a program may write that gets the arguments of f.
WrittenBy(program, cwd, f) ==
  LET arguments == Below(UNION {LeadsTo(cwd, a) : a \in f.args})
  IN CASE program = "writer" -> arguments
       [] program = "tool" -> arguments \cup Below({cwd})
       [] program = "other" -> Dirs
       [] OTHER -> {}

\* Programs that the fragment runs as what they are.
ProgramsOf(f) ==
  f.behind \cup (IF f.program = "tool" /\ f.readOnlySub THEN {} ELSE {f.program})

\* What the redirects of a fragment write, the seen and the unseen ones.
Redirected(cwd, f) == UNION {LeadsTo(cwd, f.redirects[i].to) : i \in DOMAIN f.redirects}

\* Directories whose files the fragment may write.
WritesIn(cwd, f) ==
  IF f.matches # "nothing" THEN Dirs
  ELSE Redirected(cwd, f) \cup UNION {WrittenBy(p, cwd, f) : p \in ProgramsOf(f)}

\* Where the shell is after the fragment; a bare cd goes home.  A name is that of a
\* directory here.  Before a "&" a cd moves a shell of its own, behind it this one.
MovesTo(cwd, f) ==
  LET there == IF f.args = {} THEN {"above"}
               ELSE UNION {LeadsTo(cwd, IF a = "name" THEN "down" ELSE a) : a \in f.args}
  IN IF f.behind = {}
     THEN IF f.program = "navigator" THEN there ELSE {cwd}
     ELSE {cwd} \cup (IF "navigator" \in f.behind \cup {f.program} THEN there ELSE {})
=============================================================================
