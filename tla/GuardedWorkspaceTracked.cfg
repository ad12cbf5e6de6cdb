CONSTANTS
  Entries = {c1}
  Tools = {"read_only", "local", "unknown", "escapes"}
  Registered = {}
  SpecOf <- Specifications
  Gates = {}
  MaxSteps = 1
  MaxTime = 0
  MaxCommits = 1
  MaxRuns = 1
  src = src
  out = out
  gitignore = gitignore
  other = other
  Files = {src, out, gitignore, other}
  DirOf <- Places
  RuleFile = gitignore
  Rules <- InExclude
  MaxWritten = 1
  MayLack = {out}
  Commands <- Lines
SPECIFICATION GSpec
CHECK_DEADLOCK FALSE
PROPERTIES
  OnlyCreatedAreRemoved
