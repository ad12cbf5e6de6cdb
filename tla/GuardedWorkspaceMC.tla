------------------------- MODULE GuardedWorkspaceMC -------------------------
(* Two commands in a tree with a file of every kind.                       *)
EXTENDS GuardedWorkspace, TLC

CONSTANTS src, out, gitignore, other

Places == src :> "root" @@ out :> "under" @@ gitignore :> "root" @@ other :> "above"

\* The rules that a command writes match out; those before it match nothing.
InRuleFile == [v \in Entries \cup {"old", "absent"} |-> IF v \in Entries THEN {out} ELSE {}]

\* The rule stands in .git/info/exclude, which no command writes.
InExclude == [v \in Entries \cup {"old", "absent"} |-> {out}]

F(program, args) ==
  [lead |-> FALSE, program |-> program, args |-> args, readOnlySub |-> FALSE,
   redirects |-> <<>>, behind |-> {}, matches |-> "nothing", balanced |-> TRUE, body |-> "none"]

To(spelling, numbered) == << [to |-> spelling, numbered |-> numbered] >>

Lines ==
  {\* git diff /other; cd ..
   << [F("tool", {"absolute"}) EXCEPT !.readOnlySub = TRUE], F("navigator", {"up"}) >>,
   \* cd lib && make
   << F("navigator", {"name"}), F("tool", {}) >>,
   \* cd .. && rm src
   << F("navigator", {"up"}), F("writer", {"name"}) >>,
   \* { cd ..; rm src; }
   << [F("navigator", {"up"}) EXCEPT !.lead = TRUE], F("writer", {"name"}) >>,
   \* for f in *; do cp /root/f /other, the tree being /root
   << F("header", {}), [F("writer", {"rooted", "absolute"}) EXCEPT !.lead = TRUE] >>,
   \* cat > src <<EOF, and a line that mentions git push
   << [F("reader", {}) EXCEPT !.redirects = To("name", FALSE)],
      [F("other", {}) EXCEPT !.matches = "escape", !.body = "heredoc"] >>,
   \* cat <<< word 2> src & rm src, and a line that runs a script
   << [F("reader", {"name"}) EXCEPT !.redirects = To("name", TRUE), !.behind = {"writer"}],
      [F("other", {}) EXCEPT !.body = "mistaken"] >>,
   \* script
   << F("other", {}) >>}

DerivedSpec(kind, steps) ==
  [kind |-> kind, degraded |-> kind, steps |-> steps, window |-> 0,
   authorizeGates |-> {}, undoGates |-> {}]

\* WORKSPACE_SPEC for a local command.
Specifications ==
  [t \in {"read_only", "local", "unknown", "escapes"} |->
     IF t = "local"
     THEN DerivedSpec("reversible",
                  << [critical |-> TRUE, snapshot |-> TRUE, result |-> FALSE, prior |-> {}] >>)
     ELSE DerivedSpec(KindOf(t), <<>>)]

Alike == Permutations(Entries)
=============================================================================
